---------------------------- MODULE LayoutStore ----------------------------
(***************************************************************************)
(* How a layout file is written and read (layout_store.hpp): the functions *)
(* that run under the layout mutex, each as the set of its outcomes on a   *)
(* directory.  Reads of a file under the mutex return what the file holds  *)
(* or fail; a read that fails is an outcome of the operation before it, so *)
(* the verifications that only repeat a read do not appear.                *)
(***************************************************************************)
EXTENDS FileOps

-----------------------------------------------------------------------------
(* Promotion of the rollback copy to the backup name.                      *)

\* The marker gets its name only after its bytes are verified under another.
EnsurePromotionMarker(fs, expected) ==
    IF Has(fs, "promote")
    THEN IF fs["promote"] = expected
         THEN DeleteIfPresent(fs, "promoteStage")
         ELSE Refused(fs)
    ELSE IF fs["rollback"] # expected
         THEN Refused(fs)
         ELSE Then(DeleteIfPresent(fs, "promoteStage"),
              LAMBDA f : Then(Copy(f, "rollback", "promoteStage", TRUE),
              LAMBDA g : Move(g, "promoteStage", "promote", FALSE)))

EnsureExactFromMarker(fs, marker, target) ==
    IF fs[target] = fs[marker]
    THEN Done(fs)
    ELSE Copy(fs, marker, target, FALSE)

RestoreRollbackPromotion(fs) ==
    Failing(Then(Move(fs, "backup", "rollback", TRUE),
            LAMBDA f : IF Has(f, "previous")
                       THEN Then(Copy(f, "previous", "backup", TRUE),
                            LAMBDA g : Delete(g, "previous"))
                       ELSE Done(f)))

PromoteRollbackChecked(fs) ==
    Then(EnsurePromotionMarker(fs, fs["rollback"]),
    LAMBDA f : Then(Move(f, "rollback", "backup", TRUE),
    LAMBDA g : Delete(g, "promote") \cup RestoreRollbackPromotion(g)))

StagePriorBackup(fs) ==
    IF ~Has(fs, "backup")
    THEN Done(fs)
    ELSE Then(DeleteIfPresent(fs, "previousStage"),
         LAMBDA f : Then(Copy(f, "backup", "previousStage", TRUE),
         LAMBDA g : Then(ReadBackOrDelete(g, "previousStage"),
         LAMBDA h : Then(Copy(h, "previousStage", "previous", TRUE),
         LAMBDA i : Then(ReadBackOrDelete(i, "previous"),
         LAMBDA j : Delete(j, "previousStage"))))))

-----------------------------------------------------------------------------
(* Settling what an interrupted transaction left.                          *)

\* A promotion stage without a marker is completed from the rollback copy, or
\* thrown away beside a canonical stream; its bytes are never used.
ResolvePromotionStage(fs) ==
    IF ~Has(fs, "promoteStage")
    THEN Done(fs)
    ELSE IF Has(fs, "promote")
    THEN Delete(fs, "promoteStage")
    ELSE IF Has(fs, "rollback")
    THEN EnsurePromotionMarker(fs, fs["rollback"])
    ELSE IF \E f \in {"previous", "primary", "backup"} : Has(fs, f)
    THEN Delete(fs, "promoteStage")
    ELSE Refused(fs)

\* The marker says what the backup has to be.
FinishPromotion(fs) ==
    Then(IF Has(fs, "rollback")
         THEN Then(EnsureExactFromMarker(fs, "promote", "rollback"),
              LAMBDA f : Move(f, "rollback", "backup", TRUE))
         ELSE Done(fs),
    LAMBDA f : Then(EnsureExactFromMarker(f, "promote", "backup"),
    LAMBDA g : Then(Delete(g, "promote"),
    LAMBDA h : DeleteIfPresent(h, "restore"))))

FinishRestore(fs) ==
    Then(EnsureExactFromMarker(fs, "restore", "backup"),
    LAMBDA f : Delete(f, "restore"))

ResolveWithoutPrevious(fs) ==
    Then(ResolvePromotionStage(fs),
    LAMBDA f : Then(IF Has(f, "promote") THEN FinishPromotion(f)
                    ELSE IF Has(f, "restore") THEN FinishRestore(f)
                    ELSE Done(f),
    LAMBDA g : IF ~Has(g, "previousStage")
               THEN Done(g)
               ELSE IF \E s \in {"primary", "rollback", "backup"} : Has(g, s)
               THEN Delete(g, "previousStage")
               ELSE Refused(g)))

\* What becomes of the backup name when .bak.previous holds a staged backup.
SettleBackup(fs) ==
    IF Has(fs, "rollback") \/ Has(fs, "promote")
    THEN Then(IF Has(fs, "promote")
              THEN Done(fs)
              ELSE EnsurePromotionMarker(fs, fs["rollback"]),
         LAMBDA f : FinishPromotion(f))
    ELSE IF Has(fs, "restore")
    THEN FinishRestore(fs)
    ELSE IF Has(fs, "backup")
    THEN Done(fs)
    ELSE Then(Copy(fs, "previous", "restore", TRUE),
         LAMBDA f : Then(ReadBackOrDelete(f, "restore"),
         LAMBDA g : FinishRestore(g)))

ResolveWithPrevious(fs) ==
    Then(ResolvePromotionStage(fs),
    LAMBDA f : IF f["restore"] \notin {Missing, f["previous"]}
               THEN Then(Delete(f, "restore"), LAMBDA g : Refused(g))
               ELSE Then(SettleBackup(f),
                    LAMBDA g : Then(DeleteIfPresent(g, "previousStage"),
                    LAMBDA h : Delete(h, "previous"))))

ResolveStaleBakPrevious(fs) ==
    IF Has(fs, "previous")
    THEN ResolveWithPrevious(fs)
    ELSE ResolveWithoutPrevious(fs)

\* Without the clean-up beside a primary.
ResolveTempWithoutPrimary(fs, allowCommittedRecovery) ==
    IF Has(fs, "primary")
    THEN Done(fs)
    ELSE IF allowCommittedRecovery /\ Has(fs, "temp")
    THEN Then(DeleteIfPresent(fs, "tempStage"),
         LAMBDA f : Move(f, "temp", "primary", FALSE))
    ELSE Then(DeleteIfPresent(fs, "tempStage"),
         LAMBDA f : DeleteIfPresent(f, "temp"))

\* A committed temporary is a layout only where nothing else is.
ResolveWriteTempArtifacts(fs, allowCommittedRecovery) ==
    IF allowCommittedRecovery /\ ~Has(fs, "primary") /\ Has(fs, "temp")
    THEN Then(DeleteIfPresent(fs, "tempStage"),
         LAMBDA f : Move(f, "temp", "primary", FALSE))
    ELSE Then(DeleteIfPresent(fs, "tempStage"),
         LAMBDA f : DeleteIfPresent(f, "temp"))

ResolveDisplacedForRecovery(fs, requested) ==
    IF /\ Has(fs, "displaced") /\ fs["primary"] # requested
       /\ ~Has(fs, "backup") /\ ~Has(fs, "rollback")
    THEN Move(fs, "displaced", "backup", FALSE)
    ELSE DeleteIfPresent(fs, "displaced")

ResolveDisplacedWithoutPrimary(fs) ==
    IF Has(fs, "displaced") /\ ~Has(fs, "backup") /\ ~Has(fs, "rollback")
    THEN Move(fs, "displaced", "backup", FALSE)
    ELSE Done(fs)

ResolveDisplaced(fs, requested, preserve) ==
    IF ~Has(fs, "primary")
    THEN ResolveDisplacedWithoutPrimary(fs)
    ELSE IF preserve
    THEN ResolveDisplacedForRecovery(fs, requested)
    ELSE DeleteIfPresent(fs, "displaced")

-----------------------------------------------------------------------------
(* AtomicWriteText.                                                        *)

\* StagePriorBackup kept the backup only if there was one.
CleanupStagedPriorBackup(fs, staged) ==
    IF staged THEN Delete(fs, "previous") ELSE Done(fs)

FirstPublish(fs, bytes) ==
    Then(WriteTempFile(fs, "tempStage", bytes),
    LAMBDA f : Then(Move(f, "tempStage", "temp", FALSE),
    LAMBDA g : Then(Move(g, "temp", "primary", FALSE),
    LAMBDA h : DeleteIfPresent(h, "displaced"))))

\* The primary was not what the program loaded: the backup stays as it is.
PreservingPublish(fs, bytes) ==
    Then(WriteTempFile(fs, "temp", bytes),
    LAMBDA f : Then(Replace(f, "primary", "temp", "displaced"),
    LAMBDA g : Delete(g, "displaced")))

\* Without the temporary file.
PublishInPlace(fs, bytes) == WriteTempFile(fs, "primary", bytes)

\* The primary becomes the rollback copy and then the backup.
RotatingPublish(fs, bytes) ==
    Then(WriteTempFile(fs, "temp", bytes),
    LAMBDA f : Then(StagePriorBackup(f),
    LAMBDA g : Then(IF Has(g, "rollback") THEN PromoteRollbackChecked(g) ELSE Done(g),
    LAMBDA h : Then(Replace(h, "primary", "temp", "rollback"),
    LAMBDA i : Then(EnsurePromotionMarker(i, fs["primary"]),
    LAMBDA j : Then(Move(j, "rollback", "backup", TRUE),
    LAMBDA k : Then(Delete(k, "promote"),
    LAMBDA l : CleanupStagedPriorBackup(l, Has(fs, "backup")))))))))

\* Without the case of bytes that are already published.
FinishByRotating(fs, preserve) == RotatingPublish(fs, fs["primary"])

\* The bytes are already published: only a pending promotion is completed.
FinishPublished(fs, preserve) ==
    IF preserve \/ ~Has(fs, "rollback")
    THEN Done(fs)
    ELSE Then(StagePriorBackup(fs),
         LAMBDA f : Then(PromoteRollbackChecked(f),
         LAMBDA g : CleanupStagedPriorBackup(g, Has(fs, "backup"))))

\* Without the case of a primary that was not what the program loaded.
PublishRotating(fs, bytes, preserve) ==
    IF fs["primary"] = bytes
    THEN FinishPublished(fs, FALSE)
    ELSE IF Has(fs, "primary") THEN RotatingPublish(fs, bytes) ELSE FirstPublish(fs, bytes)

Publish(fs, bytes, preserve) ==
    IF fs["primary"] = bytes
    THEN FinishPublished(fs, preserve)
    ELSE IF ~Has(fs, "primary")
    THEN FirstPublish(fs, bytes)
    ELSE IF preserve
    THEN PreservingPublish(fs, bytes)
    ELSE RotatingPublish(fs, bytes)

AtomicWriteText(fs, bytes, preserve) ==
    Then(ResolveStaleBakPrevious(fs),
    LAMBDA f : Then(ResolveWriteTempArtifacts(f, ~Has(f, "rollback") /\ ~Has(f, "backup")),
    LAMBDA g : Then(ResolveDisplaced(g, bytes, preserve),
    LAMBDA h : Publish(h, bytes, preserve))))

-----------------------------------------------------------------------------
(* LoadLayoutWithBackupLocked.  A load returns the directory it leaves, a  *)
(* status, the bytes it parsed and the file they came from.                *)

Loaded(outcomes, status, bytes, source) ==
    {IF o.ok
     THEN [fs |-> o.fs, clean |-> TRUE, status |-> status, bytes |-> bytes,
           source |-> source]
     ELSE [fs |-> o.fs, clean |-> o.clean, status |-> "Unavailable",
           bytes |-> Missing, source |-> "primary"] : o \in outcomes}

ResolverArtifacts == {"promote", "promoteStage", "previous", "previousStage", "restore"}

LoadPrimary(fs) ==
    Loaded(Then(DeleteIfPresent(fs, "displaced"),
           LAMBDA f : IF f["promote"] = Torn
                      THEN Refused(f)
                      ELSE IF \E a \in ResolverArtifacts : Has(f, a)
                      THEN ResolveStaleBakPrevious(f)
                      ELSE Done(f)),
           "Valid", fs["primary"], "primary")

\* A copy may be used when no marker says it should be something else.
Usable(fs, f) ==
    fs[f] \in Versions /\ fs["promote"] \in {Missing, fs[f]}

TryRecoverSoleTemp(fs) ==
    IF ~Has(fs, "temp")
    THEN Loaded(DeleteIfPresent(fs, "tempStage"), "Missing", Missing, "primary")
    ELSE IF fs["temp"] = Torn
    THEN Loaded(Then(DeleteIfPresent(fs, "tempStage"), LAMBDA f : Delete(f, "temp")),
                "CorruptPreserved", Missing, "primary")
    ELSE Loaded(Then(DeleteIfPresent(fs, "tempStage"),
                LAMBDA f : Move(f, "temp", "primary", FALSE)),
                "Recovered", fs["temp"], "primary")

\* No stream can be used.  Only a directory without transaction artifacts may
\* be declared empty.
LoadNothing(fs) ==
    LET corrupt == \E f \in {"primary", "rollback", "backup"} : fs[f] = Torn
        soleDisplaced == /\ fs["displaced"] = Torn
                         /\ ~Has(fs, "rollback") /\ ~Has(fs, "backup")
        cleaned == IF soleDisplaced THEN Delete(fs, "displaced") ELSE Done(fs)
        settled(f) == \A a \in ResolverArtifacts \cup {"displaced"} : ~Has(f, a)
    IN  UNION {IF ~o.ok \/ ~settled(o.fs)
               THEN Loaded({[o EXCEPT !.ok = FALSE]}, "Unavailable", Missing, "primary")
               ELSE IF corrupt \/ soleDisplaced
               THEN Loaded(ResolveWriteTempArtifacts(o.fs, FALSE),
                           "CorruptPreserved", Missing, "primary")
               ELSE TryRecoverSoleTemp(o.fs) : o \in cleaned}

LoadCopies(fs) ==
    IF Usable(fs, "rollback")
    THEN Loaded(Done(fs), "Recovered", fs["rollback"], "rollback")
    ELSE IF Usable(fs, "backup")
    THEN Loaded(Done(fs), "Recovered", fs["backup"], "backup")
    ELSE IF Has(fs, "promote")
    THEN Loaded(EnsureExactFromMarker(fs, "promote", "backup"),
                "Recovered", fs["promote"], "backup")
    ELSE LoadNothing(fs)

LoadWithoutPrimary(fs) ==
    IF fs["promote"] = Torn
    THEN Loaded(Refused(fs), "Unavailable", Missing, "primary")
    ELSE LET canonical == IF fs["displaced"] \in Versions /\ ~Has(fs, "promote")
                          THEN ResolveDisplacedWithoutPrimary(fs)
                          ELSE Done(fs)
         IN  UNION {IF o.ok THEN LoadCopies(o.fs)
                    ELSE Loaded({o}, "Unavailable", Missing, "primary") : o \in canonical}

LoadLayoutWithBackupLocked(fs) ==
    Loaded(Broken({fs}), "Unavailable", Missing, "primary")
        \cup (IF fs["primary"] \in Versions THEN LoadPrimary(fs) ELSE LoadWithoutPrimary(fs))
=============================================================================
