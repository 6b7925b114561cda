----------------------------- MODULE LayoutFile -----------------------------
(***************************************************************************)
(* Who reads and writes a layout file: the automatic layout of a running   *)
(* win-vde (startup, migration of an old file, saves) and the manual       *)
(* layout (a save of the tray or of the command line, each of which loads  *)
(* first).  The two files have their own directory state; they are the two *)
(* specifications at the end.  Every action is one critical section under  *)
(* the layout mutex and may fail or crash at any of its file operations.   *)
(***************************************************************************)
EXTENDS LayoutStore, Naturals

CONSTANT
    MaxTried    \* bound: different writes that fail before one is acknowledged

\* The records in memory come from another file than the primary.
Elsewhere == "elsewhere"

ASSUME LayoutFileAssumption ==
    /\ MaxTried \in Nat
    /\ Elsewhere \notin Contents

VARIABLES
    kind,       \* which of the two layouts this directory holds
    dir,        \* the directory of the layout
    legacy,     \* the layout file of an older release, or Missing
    phase,      \* how far startup has come: down, migrated, running
    revision,   \* the primary the records in memory are based on
    candidate,  \* the bytes of a write whose result is not known
    preserve,   \* g_preserveBackupOnNextWrite
    stored,     \* what the program was last told the file holds
    prior,      \* what the file held before that, as far as it was told or tried
    tried,      \* bytes of the writes that failed since
    intact      \* no damage has taken away the only copy

memory == <<phase, revision, candidate, preserve>>
told   == <<stored, prior, tried, intact>>

vars == <<kind, dir, legacy, memory, told>>

TypeOK ==
    /\ kind \in {"auto", "manual"}
    /\ dir \in Directories
    /\ legacy \in Versions \cup {Missing}
    /\ phase \in {"down", "migrated", "running"}
    /\ revision \in Contents \cup {Elsewhere}
    /\ candidate \in Versions \cup {Missing}
    /\ preserve \in BOOLEAN
    /\ stored \in Versions \cup {Missing}
    /\ prior \subseteq Versions
    /\ tried \subseteq Versions
    /\ intact \in BOOLEAN

Init ==
    /\ kind \in {"auto", "manual"}
    /\ dir = [f \in Files |-> Missing]
    /\ legacy \in IF kind = "auto" THEN Versions \cup {Missing} ELSE {Missing}
    /\ phase = "down"
    /\ revision = Missing
    /\ candidate = Missing
    /\ preserve = FALSE
    /\ stored = Missing
    /\ prior = {}
    /\ tried = {}
    /\ intact = TRUE

-----------------------------------------------------------------------------
(* What the program has been told.                                         *)

\* The layouts of which one is left when the primary with `bytes` is lost.
PriorTo(bytes) ==
    CASE stored = Missing -> {}
      [] stored # Missing /\ bytes # stored -> ({stored} \cup tried) \ {bytes}
      [] bytes = stored -> IF prior = {} THEN {} ELSE (prior \cup tried) \ {bytes}

\* A write of `bytes` was acknowledged.
Acknowledge(bytes) ==
    /\ stored' = bytes
    /\ prior' = PriorTo(bytes)
    /\ tried' = {}
    /\ UNCHANGED intact

\* A write of `bytes` failed; they may be in the file all the same.
Attempt(bytes) ==
    /\ bytes \in tried \/ Cardinality(tried) < MaxTried
    /\ tried' = tried \cup {bytes}
    /\ UNCHANGED <<stored, prior, intact>>

LearnNothing == UNCHANGED told

usable == {"Valid", "Recovered"}

\* A load without a usable layout makes the program start from an empty one.
LearnLoad(load) ==
    IF load.status = "Unavailable"
    THEN LearnNothing
    ELSE /\ stored' = load.bytes
         /\ prior' = IF load.bytes = stored THEN PriorTo(stored) ELSE {}
         /\ tried' = {}
         /\ UNCHANGED intact

-----------------------------------------------------------------------------
(* The automatic layout.                                                   *)

\* What the primary has to hold for the records in memory to be current.
RevisionOf(load) ==
    IF load.source = "primary" THEN load.fs["primary"] ELSE Elsewhere

\* MigrateLegacyLayout: only a settled Missing state may migrate.
Migrate ==
    /\ kind = "auto"
    /\ phase = "down"
    /\ UNCHANGED <<kind, revision, candidate, preserve>>
    /\ \E load \in LoadLayoutWithBackupLocked(dir) :
          \/ /\ load.status # "Missing" \/ legacy = Missing
             /\ dir' = load.fs
             /\ phase' = IF load.status = "Unavailable" THEN "down" ELSE "migrated"
             /\ LearnNothing
             /\ UNCHANGED legacy
          \/ /\ load.status = "Missing" /\ legacy # Missing
             /\ \E write \in AtomicWriteText(load.fs, legacy, FALSE) :
                   \/ /\ ~write.ok
                      /\ dir' = write.fs
                      /\ Attempt(legacy)
                      /\ UNCHANGED <<legacy, phase>>
                   \/ /\ write.ok
                      /\ \E again \in LoadLayoutWithBackupLocked(write.fs) :
                            /\ dir' = again.fs
                            /\ Acknowledge(legacy)
                            /\ IF again.status = "Valid"
                               THEN phase' = "migrated" /\ legacy' \in {legacy, Missing}
                               ELSE UNCHANGED <<legacy, phase>>

\* LoadAutoLayout; a failure makes startup begin again.
LoadAutoLayout ==
    /\ kind = "auto"
    /\ phase = "migrated"
    /\ UNCHANGED <<kind, legacy>>
    /\ \E load \in LoadLayoutWithBackupLocked(dir) :
          /\ dir' = load.fs
          /\ LearnLoad(load)
          /\ IF load.status = "Unavailable"
             THEN phase' = "down" /\ UNCHANGED <<revision, candidate, preserve>>
             ELSE /\ phase' = "running"
                  /\ revision' = RevisionOf(load)
                  /\ candidate' = Missing
                  /\ preserve' = (load.status = "Recovered")

\* The load PersistAutoLayout makes when the primary is not the one the
\* records are based on; a candidate that reached the primary is adopted.
\* The result is what the write that follows starts from.
Rebase ==
    IF dir["primary"] = revision \/ (candidate # Missing /\ dir["primary"] = candidate)
    THEN {[fs |-> dir, clean |-> TRUE, go |-> TRUE, revision |-> dir["primary"], preserve |-> preserve]}
    ELSE {[fs |-> load.fs, clean |-> load.clean, go |-> load.status \in usable,
           revision |-> RevisionOf(load),
           preserve |-> preserve \/ load.status = "Recovered"] :
          load \in LoadLayoutWithBackupLocked(dir)}

\* PersistAutoLayout with the bytes the records give.  The code adopts bytes
\* that reached the primary in a write that failed at once; here the save that
\* follows adopts them, from the same candidate.
PersistAutoLayout(bytes) ==
    /\ kind = "auto"
    /\ phase = "running"
    /\ UNCHANGED <<kind, legacy, phase>>
    /\ \E base \in Rebase :
          \/ /\ ~base.go
             /\ dir' = base.fs
             /\ candidate' = Missing
             /\ LearnNothing
             /\ UNCHANGED <<revision, preserve>>
          \/ /\ base.go      \* a conflict, or the desktops cannot be read
             /\ dir' = base.fs
             /\ candidate' = Missing
             /\ revision' = base.revision
             /\ preserve' = base.preserve
             /\ LearnNothing
          \/ /\ base.go
             /\ \E write \in AtomicWriteText(base.fs, bytes, base.preserve) :
                   /\ dir' = write.fs
                   /\ IF write.ok
                      THEN /\ revision' = bytes
                           /\ candidate' = Missing
                           /\ preserve' = FALSE
                           /\ Acknowledge(bytes)
                      ELSE /\ revision' = base.revision
                           /\ candidate' = bytes
                           /\ preserve' = base.preserve
                           /\ Attempt(bytes)

\* The process ends, or is killed; nothing in memory survives.
Restart ==
    /\ kind = "auto"
    /\ phase # "down"
    /\ phase' = "down"
    /\ revision' = Missing
    /\ candidate' = Missing
    /\ preserve' = FALSE
    /\ UNCHANGED <<kind, dir, legacy, told>>

\* Something else tears or removes the primary.  What is left is a copy; where
\* there was none, this is the last damage (a bound of the model).
Damage ==
    /\ intact
    /\ Has(dir, "primary")
    /\ \E bytes \in {Torn, Missing} : dir' = Put(dir, "primary", bytes)
    /\ intact' = (prior # {})
    /\ tried' = tried \cup prior
    /\ prior' = {}
    /\ UNCHANGED <<kind, legacy, memory, stored>>

-----------------------------------------------------------------------------
(* The manual layout: each save loads and writes in one critical section.  *)

SaveManual(bytes) ==
    /\ kind = "manual"
    /\ UNCHANGED <<kind, legacy, memory>>
    /\ \E load \in LoadLayoutWithBackupLocked(dir) :
          \/ /\ load.status = "Unavailable"
             /\ dir' = load.fs
             /\ LearnNothing
          \/ /\ load.status # "Unavailable"
             /\ \E write \in AtomicWriteText(load.fs, bytes, load.status = "Recovered") :
                   /\ dir' = write.fs
                   /\ IF write.ok THEN Acknowledge(bytes) ELSE Attempt(bytes)

LoadManual ==
    /\ kind = "manual"
    /\ UNCHANGED <<kind, legacy, memory>>
    /\ \E load \in LoadLayoutWithBackupLocked(dir) :
          dir' = load.fs /\ LearnLoad(load)

-----------------------------------------------------------------------------

Next ==
    \/ Migrate
    \/ LoadAutoLayout
    \/ \E v \in Versions : PersistAutoLayout(v)
    \/ Restart
    \/ \E v \in Versions : SaveManual(v)
    \/ LoadManual
    \/ Damage

Spec == Init /\ [][Next]_vars

-----------------------------------------------------------------------------
(* Properties.  A load or a write without a fault is the one a program     *)
(* makes when the file system works again.                                 *)

Faultless(outcomes) == {o \in outcomes : o.clean}

\* What the program was told is stored, or one of the writes it tried since.
Acceptable == {stored} \cup tried

\* Whatever failed or crashed, and whenever, the next load that meets no
\* fault returns the layout last acknowledged or one whose write was begun
\* since: never nothing, never an older one, never a torn one.
AcknowledgedSurvives ==
    intact /\ stored # Missing =>
        \A load \in Faultless(LoadLayoutWithBackupLocked(dir)) :
            load.status \in usable /\ load.bytes \in Acceptable

\* When two layouts were acknowledged, losing the primary in any state the
\* protocol can leave costs at most the newest of them.
PrimaryLossIsSurvived ==
    intact /\ prior # {} =>
        \A bytes \in {Torn, Missing} :
            \A load \in Faultless(LoadLayoutWithBackupLocked(Put(dir, "primary", bytes))) :
                load.status = "Recovered" /\ load.bytes \in Acceptable \cup prior

\* The rollback copy or backup a load would use if the primary were lost.
Fallback(fs) ==
    LET lost == [fs EXCEPT !["primary"] = Missing, !["displaced"] = Missing]
    IN  {load.bytes : load \in {l \in Faultless(LoadWithoutPrimary(lost)) :
                                    l.source \in {"rollback", "backup"}}}

\* A step that replaces a loaded primary makes it the copy, even if it fails
\* half-way; one that leaves the primary alone, such as the retry of a write
\* that was published before it failed, leaves the copy there was, so no
\* layout ever becomes its own backup.
CopyIsPrior ==
    [][~Damage /\ dir["primary"] \in Versions /\ ~preserve =>
          IF dir'["primary"] = dir["primary"]
          THEN Fallback(dir) \subseteq Fallback(dir')
          ELSE Fallback(dir') = {dir["primary"]}]_vars

\* A session that is running goes on saving: after any failure its next save
\* that meets no fault is acknowledged.
SessionKeepsSaving ==
    intact /\ phase = "running" =>
        \A base \in Faultless(Rebase), bytes \in Versions :
            /\ base.go
            /\ \A write \in Faultless(AtomicWriteText(base.fs, bytes, base.preserve)) : write.ok

\* A load that refused and cleaned up on the way may be repeated once.
LoadWithRetry(fs) ==
    UNION {IF load.status = "Unavailable"
           THEN Faultless(LoadLayoutWithBackupLocked(load.fs))
           ELSE {load} : load \in Faultless(LoadLayoutWithBackupLocked(fs))}

\* vde.cpp:1289 tells the user that the saved layout is temporarily unavailable
\* and will be retried: a load without a fault is not refused again and again.
UnavailableIsTemporary ==
    \A load \in LoadWithRetry(dir) : load.status # "Unavailable"

TransactionArtifacts == ResolverArtifacts \cup {"temp", "tempStage", "displaced"}

\* Whatever an interrupted transaction left, a load and a write that meet no
\* fault succeed and leave no artifact of it behind.
NeverWedged ==
    intact =>
    \A load \in LoadWithRetry(dir), bytes \in Versions :
        /\ load.status # "Unavailable"
        /\ \A write \in Faultless(AtomicWriteText(load.fs, bytes, load.status = "Recovered")) :
              /\ write.ok
              /\ write.fs["primary"] = bytes
              /\ \A a \in TransactionArtifacts : ~Has(write.fs, a)

\* A failure costs the program the save it hit and no other: the session that
\* goes on saves again, and so does the one that starts after a crash.
SavingGoesOn == TypeOK /\ SessionKeepsSaving /\ NeverWedged
=============================================================================
