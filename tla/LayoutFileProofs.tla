-------------------------- MODULE LayoutFileProofs --------------------------
(***************************************************************************)
(* A layout survives whatever interrupts the program, and saving goes on.  *)
(* Every function of module LayoutStore has a lemma (...Steps) about the   *)
(* outcomes it may have: what of the directory each prefix of its file     *)
(* operations leaves, what a success leaves, and that the code refuses     *)
(* nothing.  WriteSteps and LoadSteps sum them up for a write and a load.  *)
(* From then on a directory is only its primary, what is displaced or      *)
(* temporary, and the copy that is left when the primary is lost (Spare).  *)
(***************************************************************************)
EXTENDS LayoutFile, TLAPS

-----------------------------------------------------------------------------
(* The inductive invariant. *)

\* The copy that is left when the primary is lost.
Spare(fs) == IF Has(fs, "rollback") THEN fs["rollback"] ELSE fs["backup"]

\* A marker or a staged backup is never all there is.
Sane(fs) ==
  /\ fs["restore"] = Missing
  /\ fs["promote"] \in {Missing, Spare(fs)}
  /\ Has(fs, "promoteStage") => fs["promote"] = Missing /\ Has(fs, "rollback")
  /\ Has(fs, "previous") \/ Has(fs, "previousStage") => Spare(fs) # Missing
  /\ Has(fs, "displaced")
       => \A f \in {"promote", "promoteStage", "previous", "previousStage"} : ~Has(fs, f)
  /\ fs["rollback"] = Torn => fs["backup"] \notin Versions

\* What a load returns, when a layout was acknowledged.
Held(fs) == IF fs["primary"] \in Versions THEN fs["primary"] ELSE Spare(fs)

\* Where nothing was damaged, a torn file is never all there is.
Whole(fs) ==
  /\ Spare(fs) # Torn
  /\ fs["primary"] = Torn => Spare(fs) \in Versions
  /\ ~Has(fs, "primary") /\ Spare(fs) = Missing =>
       fs["displaced"] # Torn /\ (~Has(fs, "displaced") => fs["temp"] # Torn)

\* With s stored, t tried since and p before: what is held is acceptable, the
\* copy makes up for what p lost, and it is acceptable where s is not held.
Known(fs, s, t, p) ==
  /\ s # Missing => Held(fs) \in Versions /\ Held(fs) \in {s} \cup t
  /\ p # {} => s # Missing /\ Spare(fs) \in {s} \cup t \cup p
  /\ s # Missing /\ Held(fs) # s => Spare(fs) \in {s} \cup t

\* What a write that keeps the backup relies on.
Backed(fs, s, t) ==
  Spare(fs) \in Versions /\ (s # Missing => Spare(fs) \in {s} \cup t)

Bare(fs) == ~Has(fs, "primary") /\ Spare(fs) = Missing

\* What memory says of the directory.
Session ==
  /\ kind = "manual" => phase = "down"
  /\ preserve => phase = "running"
  /\ candidate # Missing => phase = "running"
  /\ phase = "running" /\ revision = Torn
       => Spare(dir) \notin Versions /\ dir["displaced"] \notin Versions /\ ~preserve

Undamaged ==
  /\ Whole(dir) /\ Known(dir, stored, tried, prior)
  /\ preserve => Backed(dir, stored, tried)
  /\ phase = "migrated"
       => \/ dir["primary"] \in Versions \/ Spare(dir) \in Versions
          \/ \A f \in Files : ~Has(dir, f)
  /\ phase = "running" /\ Bare(dir) => revision = Missing
  /\ kind = "auto" /\ Bare(dir) => ~Has(dir, "displaced")

IInv == TypeOK /\ Sane(dir) /\ Session /\ (intact => Undamaged)

\* What a step that settles artifacts leaves as it was.
Settles(fs, gs) ==
  /\ gs \in Directories /\ Sane(gs)
  /\ Spare(gs) = Spare(fs)
  /\ \A f \in {"primary", "temp", "tempStage", "displaced"} : gs[f] = fs[f]

NoMarkers(fs) ==
  \A f \in {"promote", "promoteStage", "previous", "previousStage", "restore"} : ~Has(fs, f)

-----------------------------------------------------------------------------
(* The operations on one file. *)

LEMMA FileNames ==
  /\ "primary" \in Files /\ "temp" \in Files /\ "tempStage" \in Files
  /\ "backup" \in Files /\ "rollback" \in Files /\ "displaced" \in Files
  /\ "previous" \in Files /\ "previousStage" \in Files /\ "restore" \in Files
  /\ "promote" \in Files /\ "promoteStage" \in Files
BY DEF Files

IsOutcome(o) == o = [fs |-> o.fs, ok |-> o.ok, clean |-> o.clean]

LEMMA DoneOutcome ==
  ASSUME NEW fs, NEW o \in Done(fs)
  PROVE  o.fs = fs /\ o.ok = TRUE /\ o.clean = TRUE
BY DEF Done

LEMMA RefusedOutcome ==
  ASSUME NEW fs, NEW o \in Refused(fs)
  PROVE  o.fs = fs /\ o.ok = FALSE /\ o.clean = TRUE
BY DEF Refused

LEMMA BrokenOutcome ==
  ASSUME NEW dirs, NEW o \in Broken(dirs)
  PROVE  o.fs \in dirs /\ o.ok = FALSE /\ o.clean = FALSE
BY DEF Broken

LEMMA FailingOutcome ==
  ASSUME NEW outcomes, NEW o \in Failing(outcomes),
         \A d \in outcomes : IsOutcome(d)
  PROVE  /\ IsOutcome(o)
         /\ \E d \in outcomes : o.fs = d.fs /\ o.ok = FALSE /\ o.clean = FALSE
<1>1. PICK d \in outcomes : o = [d EXCEPT !.ok = FALSE, !.clean = FALSE]
  BY DEF Failing
<1>2. d = [fs |-> d.fs, ok |-> d.ok, clean |-> d.clean]
  BY DEF IsOutcome
<1>3. o = [fs |-> d.fs, ok |-> FALSE, clean |-> FALSE]
  BY <1>1, <1>2
<1>4. o.fs = d.fs /\ o.ok = FALSE /\ o.clean = FALSE
  BY <1>3
<1> QED  BY <1>3, <1>4 DEF IsOutcome

LEMMA OutcomeRecords ==
  \A fs : \A o \in Done(fs) \cup Refused(fs) \cup Broken(fs) : IsOutcome(o)
BY DEF Done, Refused, Broken, IsOutcome

\* How a step ends: the directories it may leave, the one a success leaves,
\* and that the code does not refuse it.
Ends(o, dirs, full) ==
  /\ IsOutcome(o)
  /\ o.ok \in BOOLEAN /\ o.fs \in Directories
  /\ o.fs \in dirs
  /\ o.ok => o.fs = full
  /\ o.clean => o.ok

Moved(fs, from, to) == [fs EXCEPT ![to] = fs[from], ![from] = Missing]

\* What Replace leaves half-way, and at its end.
Aside(fs, f, kept) == [fs EXCEPT ![kept] = fs[f], ![f] = Missing]
Swapped(fs, f, g, kept) == [Aside(fs, f, kept) EXCEPT ![f] = fs[g], ![g] = Missing]

LEMMA EndsByCases ==
  ASSUME NEW dirs, NEW full, NEW o, full \in dirs, full \in Directories,
         dirs \subseteq Directories, o \in Done(full) \/ o \in Broken(dirs)
  PROVE  Ends(o, dirs, full)
<1>1. CASE o \in Done(full)
  BY <1>1, DoneOutcome, OutcomeRecords DEF Ends
<1>2. CASE o \in Broken(dirs)
  BY <1>2, BrokenOutcome, OutcomeRecords DEF Ends
<1> QED  BY <1>1, <1>2

LEMMA PutInDirectories ==
  ASSUME NEW fs \in Directories, NEW f \in Files, NEW bytes \in Contents
  PROVE  Put(fs, f, bytes) \in Directories
BY DEF Directories, Put

LEMMA DirectoryContents ==
  ASSUME NEW fs \in Directories, NEW f \in Files
  PROVE  fs[f] \in Contents
BY DEF Directories

LEMMA ContentsNames ==
  Missing \in Contents /\ Torn \in Contents /\ Versions \subseteq Contents
BY DEF Contents

LEMMA DeleteEnds ==
  ASSUME NEW fs \in Directories, NEW f \in Files, Has(fs, f), NEW o \in Delete(fs, f)
  PROVE  Ends(o, {fs, Put(fs, f, Missing)}, Put(fs, f, Missing))
<1>1. \/ o \in Done(Put(fs, f, Missing))
      \/ o \in Broken({fs, Put(fs, f, Missing)})
  BY DEF Delete
<1>2. Put(fs, f, Missing) \in Directories
  BY PutInDirectories, ContentsNames
<1> QED  BY <1>1, <1>2, EndsByCases

LEMMA ClearEnds ==
  ASSUME NEW fs \in Directories, NEW f \in Files, NEW o \in DeleteIfPresent(fs, f)
  PROVE  Ends(o, {fs, Put(fs, f, Missing)}, Put(fs, f, Missing))
<1>1. CASE Has(fs, f)
  BY <1>1, DeleteEnds DEF DeleteIfPresent
<1>2. CASE ~Has(fs, f)
  <2>1. fs = Put(fs, f, Missing)
    BY <1>2 DEF Directories, Put, Has
  <2> QED  BY <1>2, <2>1, DoneOutcome, OutcomeRecords DEF DeleteIfPresent, Ends
<1> QED  BY <1>1, <1>2

LEMMA MovedInDirectories ==
  ASSUME NEW fs \in Directories, NEW from \in Files, NEW to \in Files
  PROVE  Moved(fs, from, to) \in Directories
BY DEF Directories, Moved, Contents

LEMMA MoveFresh ==
  ASSUME NEW fs \in Directories, NEW from \in Files, NEW to \in Files,
         Has(fs, from), ~Has(fs, to), NEW o \in Move(fs, from, to, FALSE)
  PROVE  Ends(o, {fs, Moved(fs, from, to)}, Moved(fs, from, to))
<1>1. \/ o \in Done(Moved(fs, from, to))
      \/ o \in Broken({fs, Moved(fs, from, to)})
  BY DEF Move, Moved
<1> QED  BY <1>1, MovedInDirectories, EndsByCases

LEMMA MoveOver ==
  ASSUME NEW fs \in Directories, NEW from \in Files, NEW to \in Files,
         Has(fs, from), NEW o \in Move(fs, from, to, TRUE)
  PROVE  Ends(o, {fs, Moved(fs, from, to)}, Moved(fs, from, to))
<1>1. \/ o \in Done(Moved(fs, from, to))
      \/ o \in Broken({fs, Moved(fs, from, to)})
  BY DEF Move, Moved
<1> QED  BY <1>1, MovedInDirectories, EndsByCases

LEMMA CopyOutcomes ==
  ASSUME NEW fs \in Directories, NEW from \in Files, NEW to \in Files, NEW o,
         \/ o \in Done(Put(fs, to, fs[from]))
         \/ o \in Broken({fs, Put(fs, to, fs[from]), Put(fs, to, Torn)})
  PROVE  Ends(o, {fs, Put(fs, to, fs[from]), Put(fs, to, Torn)}, Put(fs, to, fs[from]))
<1>1. Put(fs, to, fs[from]) \in Directories /\ Put(fs, to, Torn) \in Directories
  BY PutInDirectories, ContentsNames, DirectoryContents
<1> QED  BY <1>1, EndsByCases

LEMMA CopyFresh ==
  ASSUME NEW fs \in Directories, NEW from \in Files, NEW to \in Files,
         Has(fs, from), ~Has(fs, to), NEW o \in Copy(fs, from, to, TRUE)
  PROVE  Ends(o, {fs, Put(fs, to, fs[from]), Put(fs, to, Torn)}, Put(fs, to, fs[from]))
<1>1. \/ o \in Done(Put(fs, to, fs[from]))
      \/ o \in Broken({fs, Put(fs, to, fs[from]), Put(fs, to, Torn)})
  BY DEF Copy
<1> QED  BY <1>1, CopyOutcomes

LEMMA CopyOver ==
  ASSUME NEW fs \in Directories, NEW from \in Files, NEW to \in Files,
         Has(fs, from), NEW o \in Copy(fs, from, to, FALSE)
  PROVE  Ends(o, {fs, Put(fs, to, fs[from]), Put(fs, to, Torn)}, Put(fs, to, fs[from]))
<1>1. \/ o \in Done(Put(fs, to, fs[from]))
      \/ o \in Broken({fs, Put(fs, to, fs[from]), Put(fs, to, Torn)})
  BY DEF Copy
<1> QED  BY <1>1, CopyOutcomes

LEMMA ReadBackEnds ==
  ASSUME NEW fs \in Directories, NEW f \in Files, Has(fs, f),
         NEW o \in ReadBackOrDelete(fs, f)
  PROVE  Ends(o, {fs, Put(fs, f, Missing)}, fs)
<1>1. CASE o \in Done(fs)
  BY <1>1, DoneOutcome, OutcomeRecords DEF Ends
<1>2. CASE o \in Failing(Delete(fs, f))
  <2>1. \A d \in Delete(fs, f) : IsOutcome(d)
    BY DeleteEnds DEF Ends
  <2>2. PICK d \in Delete(fs, f) : o.fs = d.fs /\ o.ok = FALSE /\ o.clean = FALSE
    BY <1>2, <2>1, FailingOutcome
  <2>3. IsOutcome(o)
    BY <1>2, <2>1, FailingOutcome
  <2> QED  BY <2>2, <2>3, DeleteEnds DEF Ends
<1> QED  BY <1>1, <1>2 DEF ReadBackOrDelete

LEMMA ReplaceEnds ==
  ASSUME NEW fs \in Directories, NEW f \in Files, NEW g \in Files, NEW k \in Files,
         Has(fs, f), Has(fs, g), NEW o \in Replace(fs, f, g, k)
  PROVE  Ends(o, {fs, Aside(fs, f, k), Swapped(fs, f, g, k)}, Swapped(fs, f, g, k))
<1>1. Aside(fs, f, k) \in Directories /\ Swapped(fs, f, g, k) \in Directories
  BY DEF Directories, Contents, Aside, Swapped
<1>2. \/ o \in Done(Swapped(fs, f, g, k))
      \/ o \in Broken({fs, Aside(fs, f, k), Swapped(fs, f, g, k)})
  BY DEF Replace, Aside, Swapped
<1> QED  BY <1>1, <1>2, EndsByCases

LEMMA WriteTempFileEnds ==
  ASSUME NEW fs \in Directories, NEW f \in Files, NEW bytes \in Contents,
         NEW o \in WriteTempFile(fs, f, bytes)
  PROVE  Ends(o, {fs, Put(fs, f, Torn), Put(fs, f, bytes)}, Put(fs, f, bytes))
<1>1. Put(fs, f, bytes) \in Directories /\ Put(fs, f, Torn) \in Directories
  BY PutInDirectories, ContentsNames
<1>2. \/ o \in Done(Put(fs, f, bytes))
      \/ o \in Broken({fs, Put(fs, f, Torn), Put(fs, f, bytes)})
  BY DEF WriteTempFile
<1> QED  BY <1>1, <1>2, EndsByCases

-----------------------------------------------------------------------------
(* The promotion of the rollback copy. *)

\* A step that settles artifacts and is not refused.
Settled(fs, o) ==
  Settles(fs, o.fs) /\ o.ok \in BOOLEAN /\ IsOutcome(o) /\ (o.clean => o.ok)

LEMMA MarkerSteps ==
  ASSUME NEW fs \in Directories, Sane(fs), Has(fs, "rollback"), ~Has(fs, "displaced"),
         NEW o \in EnsurePromotionMarker(fs, fs["rollback"])
  PROVE  /\ Settled(fs, o)
         /\ \A f \in Files \ {"promote", "promoteStage"} : o.fs[f] = fs[f]
         /\ o.ok => o.fs["promote"] = fs["rollback"] /\ ~Has(o.fs, "promoteStage")
<1> USE FileOpsAssumption
<1>1. CASE Has(fs, "promote")
  <2>1. o \in DeleteIfPresent(fs, "promoteStage") /\ fs["promote"] = fs["rollback"]
    BY <1>1 DEF EnsurePromotionMarker, Sane, Spare, Has
  <2>2. Ends(o, {fs, Put(fs, "promoteStage", Missing)}, Put(fs, "promoteStage", Missing))
    BY <2>1, ClearEnds, FileNames
  <2> QED
    BY <2>1, <2>2 DEF Ends, Settled, Settles, Sane, Spare, Has, Put, Directories, Files
<1>2. CASE ~Has(fs, "promote")
  <2>1. PICK a \in DeleteIfPresent(fs, "promoteStage") :
          IF a.ok THEN o \in Then(Copy(a.fs, "rollback", "promoteStage", TRUE),
                             LAMBDA g : Move(g, "promoteStage", "promote", FALSE))
                  ELSE o = a
    BY <1>2 DEF EnsurePromotionMarker, Then
  <2>2. Ends(a, {fs, Put(fs, "promoteStage", Missing)}, Put(fs, "promoteStage", Missing))
    BY ClearEnds, FileNames
  <2>3. CASE ~a.ok
    BY <1>2, <2>1, <2>2, <2>3
    DEF Ends, Settled, Settles, Sane, Spare, Has, Put, Directories, Files
  <2>4. CASE a.ok
    <3> DEFINE e == Put(fs, "promoteStage", Missing)
    <3>1. o \in Then(Copy(e, "rollback", "promoteStage", TRUE),
                             LAMBDA g : Move(g, "promoteStage", "promote", FALSE))
      BY <2>1, <2>2, <2>4 DEF Ends
    <3>2. PICK b \in Copy(e, "rollback", "promoteStage", TRUE) :
            IF b.ok THEN o \in Move(b.fs, "promoteStage", "promote", FALSE) ELSE o = b
      BY <3>1 DEF Then
    <3> HIDE DEF e
    <3>3. /\ e \in Directories /\ Has(e, "rollback") /\ ~Has(e, "promoteStage")
          /\ ~Has(e, "promote") /\ e["rollback"] = fs["rollback"]
      BY <1>2, <2>2, <2>4 DEF Ends, Has, Put, Directories, Files, e
    <3>4. Ends(b, {e, Put(e, "promoteStage", e["rollback"]), Put(e, "promoteStage", Torn)},
               Put(e, "promoteStage", e["rollback"]))
      BY <3>3, CopyFresh, FileNames
    <3>5. CASE ~b.ok
      BY <1>2, <3>2, <3>3, <3>4, <3>5
      DEF Ends, Settled, Settles, Sane, Spare, Has, Put, Directories, Files, e
    <3>6. CASE b.ok
      <4> DEFINE h == Put(e, "promoteStage", e["rollback"])
      <4>1. o \in Move(h, "promoteStage", "promote", FALSE)
        BY <3>2, <3>4, <3>6 DEF Ends
      <4> HIDE DEF h
      <4>2. h \in Directories /\ Has(h, "promoteStage") /\ ~Has(h, "promote")
        BY <3>3, <3>4, <3>6 DEF Ends, Has, Put, Directories, Files, h
      <4>3. Ends(o, {h, Moved(h, "promoteStage", "promote")}, Moved(h, "promoteStage", "promote"))
        BY <4>1, <4>2, MoveFresh, FileNames
      <4> QED
        BY <1>2, <3>3, <4>2, <4>3
        DEF Ends, Settled, Settles, Sane, Spare, Has, Put, Moved, Directories, Files, e, h
    <3> QED  BY <3>2, <3>4, <3>5, <3>6 DEF Ends
  <2> QED  BY <2>2, <2>3, <2>4 DEF Ends
<1> QED  BY <1>1, <1>2

\* A marker is the copy it names, so completing the promotion copies nothing.
LEMMA FinishPromotionSteps ==
  ASSUME NEW fs \in Directories, Sane(fs), Has(fs, "promote"),
         NEW o \in FinishPromotion(fs)
  PROVE  /\ Settled(fs, o)
         /\ \A f \in {"previous", "previousStage"} : o.fs[f] = fs[f]
         /\ o.ok => \A f \in {"promote", "promoteStage", "rollback"} : ~Has(o.fs, f)
<1> USE FileOpsAssumption
<1> DEFINE Moving == IF Has(fs, "rollback")
                     THEN Then(EnsureExactFromMarker(fs, "promote", "rollback"),
                          LAMBDA f : Move(f, "rollback", "backup", TRUE))
                     ELSE Done(fs)
<1>1. PICK a \in Moving :
        IF a.ok THEN o \in Then(EnsureExactFromMarker(a.fs, "promote", "backup"),
                           LAMBDA g : Then(Delete(g, "promote"),
                           LAMBDA h : DeleteIfPresent(h, "restore")))
                ELSE o = a
  BY DEF FinishPromotion, Then
<1>2. /\ Settled(fs, a)
      /\ \A f \in {"previous", "previousStage", "promote", "promoteStage"} : a.fs[f] = fs[f]
      /\ a.ok => ~Has(a.fs, "rollback")
  <2>1. CASE ~Has(fs, "rollback")
    <3>1. a \in Done(fs)
      BY <2>1
    <3> QED
      BY <2>1, <3>1, DoneOutcome, OutcomeRecords DEF Settled, Settles
  <2>2. CASE Has(fs, "rollback")
    <3>1. a \in Then(EnsureExactFromMarker(fs, "promote", "rollback"),
                          LAMBDA f : Move(f, "rollback", "backup", TRUE))
      BY <2>2
    <3>2. EnsureExactFromMarker(fs, "promote", "rollback") = Done(fs)
      BY <2>2 DEF EnsureExactFromMarker, Sane, Spare, Has
    <3>3. a \in Move(fs, "rollback", "backup", TRUE)
      <4>1. PICK b \in EnsureExactFromMarker(fs, "promote", "rollback") :
              IF b.ok THEN a \in Move(b.fs, "rollback", "backup", TRUE) ELSE a = b
        BY <3>1 DEF Then
      <4> QED  BY <3>2, <4>1, DoneOutcome
    <3>4. Ends(a, {fs, Moved(fs, "rollback", "backup")}, Moved(fs, "rollback", "backup"))
      BY <2>2, <3>3, MoveOver, FileNames
    <3> QED
      BY <2>2, <3>4 DEF Ends, Settled, Settles, Sane, Spare, Has, Moved, Directories, Files
  <2> QED  BY <2>1, <2>2
<1> HIDE DEF Moving
<1>3. CASE ~a.ok
  BY <1>1, <1>2, <1>3 DEF Settled
<1>4. CASE a.ok
  <2> DEFINE e == a.fs
  <2>1. o \in Then(EnsureExactFromMarker(e, "promote", "backup"),
              LAMBDA g : Then(Delete(g, "promote"),
              LAMBDA h : DeleteIfPresent(h, "restore")))
    BY <1>1, <1>4
  <2>2. /\ e \in Directories /\ Sane(e) /\ Has(e, "promote") /\ ~Has(e, "rollback")
        /\ Settles(fs, e)
    BY <1>2, <1>4 DEF Settled, Settles, Has
  <2> HIDE DEF e
  <2>3. EnsureExactFromMarker(e, "promote", "backup") = Done(e)
    BY <2>2 DEF EnsureExactFromMarker, Sane, Spare, Has
  <2>4. o \in Then(Delete(e, "promote"), LAMBDA h : DeleteIfPresent(h, "restore"))
    BY <2>1, <2>3 DEF Then, Done
  <2>5. PICK b \in Delete(e, "promote") :
          IF b.ok THEN o \in DeleteIfPresent(b.fs, "restore") ELSE o = b
    BY <2>4 DEF Then
  <2>6. Ends(b, {e, Put(e, "promote", Missing)}, Put(e, "promote", Missing))
    BY <2>2, <2>5, DeleteEnds, FileNames
  <2>7. b.ok => Ends(o, {b.fs, Put(b.fs, "restore", Missing)}, Put(b.fs, "restore", Missing))
    BY <2>5, <2>6, ClearEnds, FileNames DEF Ends
  <2>8. \A f \in {"previous", "previousStage"} : e[f] = fs[f]
    BY <1>2 DEF e
  <2> QED
    BY <2>2, <2>5, <2>6, <2>7, <2>8
    DEF Ends, Settled, Settles, Sane, Spare, Has, Put, Directories, Files
<1> QED  BY <1>2, <1>3, <1>4 DEF Settled

\* The rollback copy that a failed promotion leaves at the backup name goes
\* back to its own, and a staged backup to the backup name.
LEMMA RestoreRollbackSteps ==
  ASSUME NEW fs \in Directories, Sane(fs), Has(fs, "backup"), ~Has(fs, "rollback"),
         ~Has(fs, "promoteStage"), ~Has(fs, "displaced"),
         fs["backup"] = Torn => fs["previous"] \notin Versions,
         NEW o \in RestoreRollbackPromotion(fs)
  PROVE  Settled(fs, o) /\ o.ok = FALSE
<1> USE FileOpsAssumption
<1> DEFINE Steps == Then(Move(fs, "backup", "rollback", TRUE),
            LAMBDA f : IF Has(f, "previous")
                       THEN Then(Copy(f, "previous", "backup", TRUE),
                            LAMBDA g : Delete(g, "previous"))
                       ELSE Done(f))
<1>1. \A a \in Steps : IsOutcome(a) /\ Settles(fs, a.fs)
  <2> SUFFICES ASSUME NEW a \in Steps PROVE IsOutcome(a) /\ Settles(fs, a.fs)
    OBVIOUS
  <2>1. PICK b \in Move(fs, "backup", "rollback", TRUE) :
          IF b.ok THEN a \in IF Has(b.fs, "previous")
                       THEN Then(Copy(b.fs, "previous", "backup", TRUE),
                            LAMBDA g : Delete(g, "previous"))
                       ELSE Done(b.fs)
                  ELSE a = b
    BY DEF Then
  <2>2. Ends(b, {fs, Moved(fs, "backup", "rollback")}, Moved(fs, "backup", "rollback"))
    BY <2>1, MoveOver, FileNames
  <2>3. CASE ~b.ok
    BY <2>1, <2>2, <2>3 DEF Ends, Settles, Sane, Spare, Has, Moved, Directories, Files
  <2>4. CASE b.ok
    <3> DEFINE e == Moved(fs, "backup", "rollback")
    <3>1. e \in Directories /\ b.fs = e
      BY <2>2, <2>4 DEF Ends
    <3>2. CASE ~Has(e, "previous")
      <4>1. a \in Done(e)
        BY <2>1, <2>4, <3>1, <3>2
      <4>2. a.fs = e /\ IsOutcome(a)
        BY <4>1, DoneOutcome, OutcomeRecords
      <4> QED
        BY <3>1, <4>2
        DEF Settles, Sane, Spare, Has, Moved, Directories, Files
    <3>3. CASE Has(e, "previous")
      <4>1. a \in Then(Copy(e, "previous", "backup", TRUE), LAMBDA g : Delete(g, "previous"))
        BY <2>1, <2>4, <3>1, <3>3
      <4>2. PICK d \in Copy(e, "previous", "backup", TRUE) :
              IF d.ok THEN a \in Delete(d.fs, "previous") ELSE a = d
        BY <4>1 DEF Then
      <4>3. ~Has(e, "backup")
        BY DEF Has, Moved, Directories, Files
      <4> HIDE DEF e
      <4>4. Ends(d, {e, Put(e, "backup", e["previous"]), Put(e, "backup", Torn)},
                 Put(e, "backup", e["previous"]))
        BY <3>1, <3>3, <4>2, <4>3, CopyFresh, FileNames
      <4>5. d.ok => Has(d.fs, "previous")
        BY <3>1, <3>3, <4>4 DEF Ends, Has, Put, Directories, Files
      <4>6. d.ok => Ends(a, {d.fs, Put(d.fs, "previous", Missing)}, Put(d.fs, "previous", Missing))
        BY <4>2, <4>4, <4>5, DeleteEnds, FileNames DEF Ends
      <4> QED
        BY <3>1, <3>3, <4>2, <4>4, <4>6
        DEF Ends, Settles, Sane, Spare, Has, Put, Moved, Directories, Files, e
    <3> QED  BY <3>2, <3>3
  <2> QED  BY <2>2, <2>3, <2>4 DEF Ends
<1>2. o \in Failing(Steps)
  BY DEF RestoreRollbackPromotion
<1> HIDE DEF Steps
<1>3. IsOutcome(o) /\ \E d \in Steps : o.fs = d.fs /\ o.ok = FALSE /\ o.clean = FALSE
  BY <1>1, <1>2, FailingOutcome
<1> QED  BY <1>1, <1>3 DEF Settled

LEMMA PromoteSteps ==
  ASSUME NEW fs \in Directories, Sane(fs), Has(fs, "rollback"), ~Has(fs, "displaced"),
         fs["rollback"] = Torn => fs["previous"] \notin Versions,
         NEW o \in PromoteRollbackChecked(fs)
  PROVE  /\ Settled(fs, o)
         /\ o.ok => /\ \A f \in {"promote", "promoteStage", "rollback"} : ~Has(o.fs, f)
                    /\ \A f \in {"previous", "previousStage"} : o.fs[f] = fs[f]
<1> USE FileOpsAssumption
<1>1. PICK a \in EnsurePromotionMarker(fs, fs["rollback"]) :
        IF a.ok THEN o \in Then(Move(a.fs, "rollback", "backup", TRUE),
                           LAMBDA g : Delete(g, "promote") \cup RestoreRollbackPromotion(g))
                ELSE o = a
  BY DEF PromoteRollbackChecked, Then
<1>2. /\ Settled(fs, a)
      /\ \A f \in Files \ {"promote", "promoteStage"} : a.fs[f] = fs[f]
      /\ a.ok => a.fs["promote"] = fs["rollback"] /\ ~Has(a.fs, "promoteStage")
  BY MarkerSteps
<1>3. CASE ~a.ok
  BY <1>1, <1>2, <1>3 DEF Settled
<1>4. CASE a.ok
  <2> DEFINE e == a.fs
  <2>1. o \in Then(Move(e, "rollback", "backup", TRUE),
              LAMBDA g : Delete(g, "promote") \cup RestoreRollbackPromotion(g))
    BY <1>1, <1>4
  <2>2. PICK b \in Move(e, "rollback", "backup", TRUE) :
          IF b.ok THEN o \in Delete(b.fs, "promote") \cup RestoreRollbackPromotion(b.fs)
                  ELSE o = b
    BY <2>1 DEF Then
  <2>3. /\ e \in Directories /\ Settles(fs, e) /\ Has(e, "rollback")
        /\ e["promote"] = e["rollback"] /\ ~Has(e, "promoteStage") /\ ~Has(e, "displaced")
        /\ e["rollback"] = fs["rollback"]
        /\ \A f \in {"previous", "previousStage"} : e[f] = fs[f]
    BY <1>2, <1>4 DEF Settled, Settles, Has, Files
  <2> HIDE DEF e
  <2>4. Ends(b, {e, Moved(e, "rollback", "backup")}, Moved(e, "rollback", "backup"))
    BY <2>2, <2>3, MoveOver, FileNames
  <2>5. CASE ~b.ok
    BY <2>2, <2>3, <2>4, <2>5
    DEF Ends, Settled, Settles, Sane, Spare, Has, Moved, Directories, Files
  <2>6. CASE b.ok
    <3> DEFINE h == Moved(e, "rollback", "backup")
    <3>1. h \in Directories /\ o \in Delete(h, "promote") \cup RestoreRollbackPromotion(h)
      BY <2>2, <2>4, <2>6 DEF Ends
    <3>2. /\ Settles(fs, h) /\ Has(h, "promote") /\ Has(h, "backup") /\ ~Has(h, "rollback")
          /\ ~Has(h, "promoteStage") /\ ~Has(h, "displaced")
          /\ \A f \in {"previous", "previousStage"} : h[f] = fs[f]
          /\ h["backup"] = Torn => h["previous"] \notin Versions
      BY <2>3, <3>1 DEF Settles, Sane, Spare, Has, Moved, Directories, Files
    <3> HIDE DEF h
    <3>3. CASE o \in Delete(h, "promote")
      <4>1. Ends(o, {h, Put(h, "promote", Missing)}, Put(h, "promote", Missing))
        BY <3>1, <3>2, <3>3, DeleteEnds, FileNames
      <4> QED
        BY <3>1, <3>2, <4>1
        DEF Ends, Settled, Settles, Sane, Spare, Has, Put, Directories, Files
    <3>4. CASE o \in RestoreRollbackPromotion(h)
      <4>1. Settled(h, o) /\ o.ok = FALSE
        BY <3>1, <3>2, <3>4, RestoreRollbackSteps DEF Settles
      <4> QED  BY <3>2, <4>1 DEF Settled, Settles
    <3> QED  BY <3>1, <3>3, <3>4
  <2> QED  BY <2>4, <2>5, <2>6 DEF Ends
<1> QED  BY <1>2, <1>3, <1>4 DEF Settled

\* The backup is staged beside the copy that a load would use.
LEMMA StagePriorSteps ==
  ASSUME NEW fs \in Directories, Sane(fs), NoMarkers(fs), ~Has(fs, "displaced"),
         NEW o \in StagePriorBackup(fs)
  PROVE  /\ Settled(fs, o)
         /\ \A f \in Files \ {"previous", "previousStage"} : o.fs[f] = fs[f]
         /\ o.ok => ~Has(o.fs, "previousStage") /\ o.fs["previous"] = fs["backup"]
<1> USE FileOpsAssumption
<1> DEFINE Good(e) == /\ e \in Directories
                      /\ \A f \in Files \ {"previous", "previousStage"} : e[f] = fs[f]
<1>0. ASSUME NEW e, Good(e), Has(fs, "backup") PROVE Settles(fs, e)
  BY <1>0 DEF Settles, Sane, NoMarkers, Spare, Has, Directories, Files
<1>1. CASE ~Has(fs, "backup")
  <2>1. o \in Done(fs)
    BY <1>1 DEF StagePriorBackup
  <2> QED
    BY <1>1, <2>1, DoneOutcome, OutcomeRecords DEF Settled, Settles, NoMarkers, Has
<1>2. CASE Has(fs, "backup")
  <2>1. PICK a \in DeleteIfPresent(fs, "previousStage") :
          IF a.ok THEN o \in Then(Copy(a.fs, "backup", "previousStage", TRUE),
         LAMBDA g : Then(ReadBackOrDelete(g, "previousStage"),
         LAMBDA h : Then(Copy(h, "previousStage", "previous", TRUE),
         LAMBDA i : Then(ReadBackOrDelete(i, "previous"),
         LAMBDA j : Delete(j, "previousStage")))))
                  ELSE o = a
    BY <1>2 DEF StagePriorBackup, Then
  <2>2. Ends(a, {fs, Put(fs, "previousStage", Missing)}, Put(fs, "previousStage", Missing))
    BY ClearEnds, FileNames
  <2>3. Good(a.fs) /\ (a.ok => a.fs = fs)
    BY <2>2 DEF Ends, Put, NoMarkers, Has, Directories, Files
  <2>4. CASE ~a.ok
    BY <1>2, <1>0, <2>1, <2>2, <2>3, <2>4 DEF Ends, Settled
  <2>5. CASE a.ok
    <3>1. o \in Then(Copy(fs, "backup", "previousStage", TRUE),
         LAMBDA g : Then(ReadBackOrDelete(g, "previousStage"),
         LAMBDA h : Then(Copy(h, "previousStage", "previous", TRUE),
         LAMBDA i : Then(ReadBackOrDelete(i, "previous"),
         LAMBDA j : Delete(j, "previousStage")))))
      BY <2>1, <2>3, <2>5
    <3>2. PICK b \in Copy(fs, "backup", "previousStage", TRUE) :
          IF b.ok THEN o \in Then(ReadBackOrDelete(b.fs, "previousStage"),
         LAMBDA h : Then(Copy(h, "previousStage", "previous", TRUE),
         LAMBDA i : Then(ReadBackOrDelete(i, "previous"),
         LAMBDA j : Delete(j, "previousStage"))))
                  ELSE o = b
      BY <3>1 DEF Then
    <3> DEFINE staged == Put(fs, "previousStage", fs["backup"])
    <3>3. Ends(b, {fs, staged, Put(fs, "previousStage", Torn)}, staged)
      BY <1>2, <3>2, CopyFresh, FileNames DEF NoMarkers
    <3>4. Good(b.fs)
      BY <3>3 DEF Ends, Put, Directories, Files
    <3>5. CASE ~b.ok
      BY <1>2, <1>0, <3>2, <3>3, <3>4, <3>5 DEF Ends, Settled
    <3>6. CASE b.ok
      <4>1. o \in Then(ReadBackOrDelete(staged, "previousStage"),
         LAMBDA h : Then(Copy(h, "previousStage", "previous", TRUE),
         LAMBDA i : Then(ReadBackOrDelete(i, "previous"),
         LAMBDA j : Delete(j, "previousStage"))))
        BY <3>2, <3>3, <3>6 DEF Ends
      <4>2. PICK c \in ReadBackOrDelete(staged, "previousStage") :
          IF c.ok THEN o \in Then(Copy(c.fs, "previousStage", "previous", TRUE),
         LAMBDA i : Then(ReadBackOrDelete(i, "previous"),
         LAMBDA j : Delete(j, "previousStage")))
                  ELSE o = c
        BY <4>1 DEF Then
      <4>3. /\ staged \in Directories /\ Good(staged) /\ Has(staged, "previousStage")
            /\ staged["previousStage"] = fs["backup"] /\ ~Has(staged, "previous")
        BY <1>2, <3>3, <3>6 DEF Ends, Put, Has, NoMarkers, Directories, Files
      <4> HIDE DEF staged
      <4>4. Ends(c, {staged, Put(staged, "previousStage", Missing)}, staged)
        BY <4>2, <4>3, ReadBackEnds, FileNames
      <4>5. Good(c.fs)
        BY <4>3, <4>4 DEF Ends, Put, Directories, Files
      <4>6. CASE ~c.ok
        BY <1>2, <1>0, <4>2, <4>4, <4>5, <4>6 DEF Ends, Settled
      <4>7. CASE c.ok
        <5>1. o \in Then(Copy(staged, "previousStage", "previous", TRUE),
         LAMBDA i : Then(ReadBackOrDelete(i, "previous"),
         LAMBDA j : Delete(j, "previousStage")))
          BY <4>2, <4>4, <4>7 DEF Ends
        <5>2. PICK d \in Copy(staged, "previousStage", "previous", TRUE) :
          IF d.ok THEN o \in Then(ReadBackOrDelete(d.fs, "previous"),
         LAMBDA j : Delete(j, "previousStage"))
                  ELSE o = d
          BY <5>1 DEF Then
        <5> DEFINE kept == Put(staged, "previous", staged["previousStage"])
        <5>3. Ends(d, {staged, kept, Put(staged, "previous", Torn)}, kept)
          BY <4>3, <5>2, CopyFresh, FileNames
        <5>4. Good(d.fs)
          BY <4>3, <5>3 DEF Ends, Put, Directories, Files
        <5>5. CASE ~d.ok
          BY <1>2, <1>0, <5>2, <5>3, <5>4, <5>5 DEF Ends, Settled
        <5>6. CASE d.ok
          <6>1. o \in Then(ReadBackOrDelete(kept, "previous"), LAMBDA j : Delete(j, "previousStage"))
            BY <5>2, <5>3, <5>6 DEF Ends
          <6>2. PICK i \in ReadBackOrDelete(kept, "previous") :
                  IF i.ok THEN o \in Delete(i.fs, "previousStage") ELSE o = i
            BY <6>1 DEF Then
          <6>3. /\ kept \in Directories /\ Good(kept) /\ Has(kept, "previous")
                /\ Has(kept, "previousStage") /\ kept["previous"] = fs["backup"]
            BY <1>2, <4>3, <5>3, <5>6 DEF Ends, Put, Has, Directories, Files
          <6> HIDE DEF kept
          <6>4. Ends(i, {kept, Put(kept, "previous", Missing)}, kept)
            BY <6>2, <6>3, ReadBackEnds, FileNames
          <6>5. i.ok => Ends(o, {kept, Put(kept, "previousStage", Missing)},
                             Put(kept, "previousStage", Missing))
            BY <6>2, <6>3, <6>4, DeleteEnds, FileNames DEF Ends
          <6>6. Good(i.fs) /\ (i.ok => Good(o.fs))
            BY <6>3, <6>4, <6>5 DEF Ends, Put, Directories, Files
          <6>7. CASE ~i.ok
            BY <1>2, <1>0, <6>2, <6>4, <6>6, <6>7 DEF Ends, Settled
          <6>8. CASE i.ok
            <7>1. o.ok => ~Has(o.fs, "previousStage") /\ o.fs["previous"] = fs["backup"]
              BY <6>3, <6>5, <6>8 DEF Ends, Put, Has, Directories, Files
            <7> QED  BY <1>2, <1>0, <6>5, <6>6, <6>8, <7>1 DEF Ends, Settled
          <6> QED  BY <6>4, <6>7, <6>8 DEF Ends
        <5> QED  BY <5>3, <5>5, <5>6 DEF Ends
      <4> QED  BY <4>4, <4>6, <4>7 DEF Ends
    <3> QED  BY <3>3, <3>5, <3>6 DEF Ends
  <2> QED  BY <2>2, <2>4, <2>5 DEF Ends
<1> QED  BY <1>1, <1>2

-----------------------------------------------------------------------------
(* What an interrupted transaction left is settled. *)

LEMMA PromotionStageSteps ==
  ASSUME NEW fs \in Directories, Sane(fs), NEW o \in ResolvePromotionStage(fs)
  PROVE  /\ Settled(fs, o)
         /\ \A f \in Files \ {"promote", "promoteStage"} : o.fs[f] = fs[f]
         /\ o.ok => ~Has(o.fs, "promoteStage")
<1>1. CASE ~Has(fs, "promoteStage")
  <2>1. o \in Done(fs)
    BY <1>1 DEF ResolvePromotionStage
  <2> QED  BY <1>1, <2>1, DoneOutcome, OutcomeRecords DEF Settled, Settles
<1>2. CASE Has(fs, "promoteStage")
  <2>1. ~Has(fs, "promote") /\ Has(fs, "rollback") /\ ~Has(fs, "displaced")
    BY <1>2 DEF Sane, Has
  <2>2. o \in EnsurePromotionMarker(fs, fs["rollback"])
    BY <1>2, <2>1 DEF ResolvePromotionStage
  <2> QED  BY <2>1, <2>2, MarkerSteps
<1> QED  BY <1>1, <1>2

LEMMA WithoutPreviousSteps ==
  ASSUME NEW fs \in Directories, Sane(fs), ~Has(fs, "previous"),
         NEW o \in ResolveWithoutPrevious(fs)
  PROVE  Settled(fs, o) /\ (o.ok => NoMarkers(o.fs))
<1> USE FileOpsAssumption
<1>1. PICK a \in ResolvePromotionStage(fs) :
        IF a.ok THEN o \in Then(IF Has(a.fs, "promote") THEN FinishPromotion(a.fs)
                    ELSE IF Has(a.fs, "restore") THEN FinishRestore(a.fs)
                    ELSE Done(a.fs),
               LAMBDA g : IF ~Has(g, "previousStage")
               THEN Done(g)
               ELSE IF \E s \in {"primary", "rollback", "backup"} : Has(g, s)
               THEN Delete(g, "previousStage")
               ELSE Refused(g))
                ELSE o = a
  BY DEF ResolveWithoutPrevious, Then
<1>2. /\ Settled(fs, a) /\ ~Has(a.fs, "previous")
      /\ a.ok => ~Has(a.fs, "promoteStage")
  BY PromotionStageSteps DEF Files, Has
<1>3. CASE ~a.ok
  BY <1>1, <1>2, <1>3 DEF Settled
<1>4. CASE a.ok
  <2> DEFINE e == a.fs
  <2>1. /\ e \in Directories /\ Sane(e) /\ Settles(fs, e)
        /\ ~Has(e, "promoteStage") /\ ~Has(e, "previous") /\ ~Has(e, "restore")
    BY <1>2, <1>4 DEF Settled, Settles, Sane, Has
  <2>2. o \in Then(IF Has(e, "promote") THEN FinishPromotion(e)
                    ELSE IF Has(e, "restore") THEN FinishRestore(e)
                    ELSE Done(e),
               LAMBDA g : IF ~Has(g, "previousStage")
               THEN Done(g)
               ELSE IF \E s \in {"primary", "rollback", "backup"} : Has(g, s)
               THEN Delete(g, "previousStage")
               ELSE Refused(g))
    BY <1>1, <1>4
  <2> HIDE DEF e
  <2>3. PICK b \in IF Has(e, "promote") THEN FinishPromotion(e)
                   ELSE IF Has(e, "restore") THEN FinishRestore(e)
                   ELSE Done(e) :
          IF b.ok THEN o \in IF ~Has(b.fs, "previousStage")
                             THEN Done(b.fs)
                             ELSE IF \E s \in {"primary", "rollback", "backup"} : Has(b.fs, s)
                             THEN Delete(b.fs, "previousStage")
                             ELSE Refused(b.fs)
                  ELSE o = b
    BY <2>2 DEF Then
  <2>4. /\ Settled(e, b) /\ ~Has(b.fs, "previous")
        /\ b.ok => ~Has(b.fs, "promote") /\ ~Has(b.fs, "promoteStage")
    <3>1. CASE Has(e, "promote")
      BY <2>1, <2>3, <3>1, FinishPromotionSteps DEF Has
    <3>2. CASE ~Has(e, "promote")
      <4>1. b \in Done(e)
        BY <2>1, <2>3, <3>2
      <4> QED  BY <2>1, <3>2, <4>1, DoneOutcome, OutcomeRecords DEF Settled, Settles
    <3> QED  BY <3>1, <3>2
  <2>5. CASE ~b.ok
    BY <2>1, <2>3, <2>4, <2>5 DEF Settled, Settles
  <2>6. CASE b.ok
    <3> DEFINE h == b.fs
    <3>1. /\ h \in Directories /\ Sane(h) /\ Settles(fs, h) /\ ~Has(h, "previous")
          /\ ~Has(h, "promote") /\ ~Has(h, "promoteStage") /\ ~Has(h, "restore")
      BY <2>1, <2>4, <2>6 DEF Settled, Settles, Sane, Has
    <3>2. o \in IF ~Has(h, "previousStage")
                             THEN Done(h)
                             ELSE IF \E s \in {"primary", "rollback", "backup"} : Has(h, s)
                             THEN Delete(h, "previousStage")
                             ELSE Refused(h)
      BY <2>3, <2>6
    <3> HIDE DEF h
    <3>3. CASE ~Has(h, "previousStage")
      <4>1. o.fs = h /\ IsOutcome(o) /\ o.ok = TRUE
        BY <3>2, <3>3, DoneOutcome, OutcomeRecords
      <4> QED  BY <3>1, <3>3, <4>1 DEF Settled, NoMarkers
    <3>4. CASE Has(h, "previousStage")
      <4>1. Has(h, "rollback") \/ Has(h, "backup")
        BY <3>1, <3>4 DEF Sane, Spare, Has
      <4>2. o \in Delete(h, "previousStage")
        BY <3>2, <3>4, <4>1
      <4>3. Ends(o, {h, Put(h, "previousStage", Missing)}, Put(h, "previousStage", Missing))
        BY <3>1, <3>4, <4>2, DeleteEnds, FileNames
      <4> QED
        BY <3>1, <4>3
        DEF Ends, Settled, Settles, NoMarkers, Sane, Spare, Has, Put, Directories, Files
    <3> QED  BY <3>3, <3>4
  <2> QED  BY <2>4, <2>5, <2>6 DEF Settled
<1> QED  BY <1>2, <1>3, <1>4 DEF Settled

LEMMA SettleBackupSteps ==
  ASSUME NEW fs \in Directories, Sane(fs), Has(fs, "previous"), NEW o \in SettleBackup(fs)
  PROVE  /\ Settled(fs, o)
         /\ \A f \in {"previous", "previousStage"} : o.fs[f] = fs[f]
         /\ o.ok => ~Has(o.fs, "promote") /\ ~Has(o.fs, "promoteStage")
<1> USE FileOpsAssumption
<1>1. ~Has(fs, "displaced") /\ ~Has(fs, "restore") /\ (Has(fs, "rollback") \/ Has(fs, "backup"))
  BY DEF Sane, Spare, Has
<1>2. CASE Has(fs, "rollback") \/ Has(fs, "promote")
  <2> DEFINE Marking == IF Has(fs, "promote") THEN Done(fs)
                        ELSE EnsurePromotionMarker(fs, fs["rollback"])
  <2>1. PICK a \in Marking : IF a.ok THEN o \in FinishPromotion(a.fs) ELSE o = a
    <3>1. o \in Then(Marking, LAMBDA f : FinishPromotion(f))
      BY <1>2 DEF SettleBackup
    <3> QED  BY <3>1 DEF Then
  <2>2. /\ Settled(fs, a) /\ (a.ok => Has(a.fs, "promote"))
        /\ \A f \in {"previous", "previousStage"} : a.fs[f] = fs[f]
    <3>1. CASE Has(fs, "promote")
      <4>1. a \in Done(fs)
        BY <2>1, <3>1
      <4> QED  BY <3>1, <4>1, DoneOutcome, OutcomeRecords DEF Settled, Settles
    <3>2. CASE ~Has(fs, "promote")
      <4>1. a \in EnsurePromotionMarker(fs, fs["rollback"]) /\ Has(fs, "rollback")
        BY <1>2, <2>1, <3>2
      <4> QED  BY <1>1, <4>1, MarkerSteps DEF Has, Files
    <3> QED  BY <3>1, <3>2
  <2> HIDE DEF Marking
  <2>3. CASE ~a.ok
    BY <2>1, <2>2, <2>3
  <2>4. CASE a.ok
    <3>1. /\ Settled(a.fs, o)
          /\ \A f \in {"previous", "previousStage"} : o.fs[f] = a.fs[f]
          /\ o.ok => \A f \in {"promote", "promoteStage", "rollback"} : ~Has(o.fs, f)
      BY <2>1, <2>2, <2>4, FinishPromotionSteps DEF Settled, Settles
    <3> QED  BY <2>2, <2>4, <3>1 DEF Settled, Settles
  <2> QED  BY <2>2, <2>3, <2>4 DEF Settled
<1>3. CASE ~(Has(fs, "rollback") \/ Has(fs, "promote"))
  <2>1. o \in Done(fs)
    BY <1>1, <1>3 DEF SettleBackup
  <2> QED
    BY <1>3, <2>1, DoneOutcome, OutcomeRecords DEF Settled, Settles, Sane, Has
<1> QED  BY <1>2, <1>3

LEMMA WithPreviousSteps ==
  ASSUME NEW fs \in Directories, Sane(fs), Has(fs, "previous"),
         NEW o \in ResolveWithPrevious(fs)
  PROVE  Settled(fs, o) /\ (o.ok => NoMarkers(o.fs))
<1> USE FileOpsAssumption
<1>1. PICK a \in ResolvePromotionStage(fs) :
        IF a.ok THEN o \in IF a.fs["restore"] \notin {Missing, a.fs["previous"]}
               THEN Then(Delete(a.fs, "restore"), LAMBDA g : Refused(g))
               ELSE Then(SettleBackup(a.fs),
                    LAMBDA g : Then(DeleteIfPresent(g, "previousStage"),
                    LAMBDA h : Delete(h, "previous")))
                ELSE o = a
  BY DEF ResolveWithPrevious, Then
<1>2. /\ Settled(fs, a) /\ Has(a.fs, "previous")
      /\ a.ok => ~Has(a.fs, "promoteStage")
  BY PromotionStageSteps DEF Files, Has
<1>3. CASE ~a.ok
  BY <1>1, <1>2, <1>3 DEF Settled
<1>4. CASE a.ok
  <2> DEFINE e == a.fs
  <2>1. /\ e \in Directories /\ Sane(e) /\ Settles(fs, e) /\ Has(e, "previous")
        /\ e["restore"] = Missing
    BY <1>2, <1>4 DEF Settled, Settles, Sane
  <2>2. o \in Then(SettleBackup(e),
                    LAMBDA g : Then(DeleteIfPresent(g, "previousStage"),
                    LAMBDA h : Delete(h, "previous")))
    BY <1>1, <1>4, <2>1
  <2> HIDE DEF e
  <2>3. PICK b \in SettleBackup(e) :
          IF b.ok THEN o \in Then(DeleteIfPresent(b.fs, "previousStage"),
                             LAMBDA h : Delete(h, "previous"))
                  ELSE o = b
    BY <2>2 DEF Then
  <2>4. /\ Settled(e, b) /\ Has(b.fs, "previous")
        /\ b.ok => ~Has(b.fs, "promote") /\ ~Has(b.fs, "promoteStage")
    BY <2>1, <2>3, SettleBackupSteps DEF Has
  <2>5. CASE ~b.ok
    BY <2>1, <2>3, <2>4, <2>5 DEF Settled, Settles
  <2>6. CASE b.ok
    <3> DEFINE h == b.fs
    <3>1. /\ h \in Directories /\ Sane(h) /\ Settles(fs, h) /\ Has(h, "previous")
          /\ ~Has(h, "promote") /\ ~Has(h, "promoteStage") /\ ~Has(h, "restore")
      BY <2>1, <2>4, <2>6 DEF Settled, Settles, Sane, Has
    <3>2. o \in Then(DeleteIfPresent(h, "previousStage"), LAMBDA i : Delete(i, "previous"))
      BY <2>3, <2>6
    <3> HIDE DEF h
    <3>3. PICK c \in DeleteIfPresent(h, "previousStage") :
            IF c.ok THEN o \in Delete(c.fs, "previous") ELSE o = c
      BY <3>2 DEF Then
    <3>4. Ends(c, {h, Put(h, "previousStage", Missing)}, Put(h, "previousStage", Missing))
      BY <3>1, <3>3, ClearEnds, FileNames
    <3>5. Has(c.fs, "previous")
      BY <3>1, <3>4 DEF Ends, Has, Put, Directories, Files
    <3>6. c.ok => Ends(o, {c.fs, Put(c.fs, "previous", Missing)}, Put(c.fs, "previous", Missing))
      BY <3>3, <3>4, <3>5, DeleteEnds, FileNames DEF Ends
    <3> QED
      BY <3>1, <3>3, <3>4, <3>6
      DEF Ends, Settled, Settles, NoMarkers, Sane, Spare, Has, Put, Directories, Files
  <2> QED  BY <2>4, <2>5, <2>6 DEF Settled
<1> QED  BY <1>2, <1>3, <1>4 DEF Settled

\* Settling leaves the primary and the copy a load would use as they were, is
\* never refused, and once it succeeds nothing is left to settle.
LEMMA ResolveSteps ==
  ASSUME NEW fs \in Directories, Sane(fs), NEW o \in ResolveStaleBakPrevious(fs)
  PROVE  Settled(fs, o) /\ (o.ok => NoMarkers(o.fs))
BY WithPreviousSteps, WithoutPreviousSteps DEF ResolveStaleBakPrevious

-----------------------------------------------------------------------------
(* The temporary file and the displaced primary. *)

\* A step that keeps a directory sane and is not refused.
SaneEnd(o) ==
  /\ o.fs \in Directories /\ Sane(o.fs) /\ IsOutcome(o)
  /\ o.ok \in BOOLEAN /\ (o.clean => o.ok)

LEMMA TempSteps ==
  ASSUME NEW fs \in Directories, Sane(fs), NEW allow \in BOOLEAN,
         NEW o \in ResolveWriteTempArtifacts(fs, allow)
  PROVE  /\ SaneEnd(o)
         /\ \A f \in Files \ {"primary", "temp", "tempStage"} : o.fs[f] = fs[f]
         /\ o.ok => ~Has(o.fs, "temp") /\ ~Has(o.fs, "tempStage")
         /\ allow /\ ~Has(fs, "primary") /\ Has(fs, "temp") =>
               /\ \/ ~Has(o.fs, "primary") /\ o.fs["temp"] = fs["temp"]
                  \/ o.fs["primary"] = fs["temp"] /\ ~Has(o.fs, "temp")
               /\ o.ok => o.fs["primary"] = fs["temp"]
         /\ ~(allow /\ ~Has(fs, "primary") /\ Has(fs, "temp")) =>
               o.fs["primary"] = fs["primary"] /\ o.fs["temp"] \in {fs["temp"], Missing}
<1> USE FileOpsAssumption
<1> DEFINE e == Put(fs, "tempStage", Missing)
<1>1. e \in Directories
  BY PutInDirectories, ContentsNames, FileNames
<1>2. CASE allow /\ ~Has(fs, "primary") /\ Has(fs, "temp")
  <2>1. PICK a \in DeleteIfPresent(fs, "tempStage") :
          IF a.ok THEN o \in Move(a.fs, "temp", "primary", FALSE) ELSE o = a
    <3>1. o \in Then(DeleteIfPresent(fs, "tempStage"),
                     LAMBDA f : Move(f, "temp", "primary", FALSE))
      BY <1>2 DEF ResolveWriteTempArtifacts
    <3> QED  BY <3>1 DEF Then
  <2>2. Ends(a, {fs, e}, e)
    BY <2>1, ClearEnds, FileNames
  <2>3. Has(e, "temp") /\ ~Has(e, "primary")
    BY <1>2 DEF Has, Put, Directories, Files
  <2> HIDE DEF e
  <2>4. a.ok => Ends(o, {e, Moved(e, "temp", "primary")}, Moved(e, "temp", "primary"))
    BY <1>1, <2>1, <2>2, <2>3, MoveFresh, FileNames DEF Ends
  <2>5. /\ SaneEnd(o)
        /\ \A f \in Files \ {"primary", "temp", "tempStage"} : o.fs[f] = fs[f]
    <3>1. /\ o.fs \in {fs, e, Moved(e, "temp", "primary")} /\ o.fs \in Directories
          /\ IsOutcome(o) /\ o.ok \in BOOLEAN /\ (o.clean => o.ok)
      BY <2>1, <2>2, <2>4 DEF Ends
    <3>2. /\ Sane(o.fs)
          /\ \A f \in Files \ {"primary", "temp", "tempStage"} : o.fs[f] = fs[f]
      BY <1>1, <3>1 DEF Sane, Spare, Has, Put, Moved, Directories, Files, e
    <3> QED  BY <3>1, <3>2 DEF SaneEnd
  <2>6. /\ o.ok => ~Has(o.fs, "temp") /\ ~Has(o.fs, "tempStage") /\ o.fs["primary"] = fs["temp"]
        /\ \/ ~Has(o.fs, "primary") /\ o.fs["temp"] = fs["temp"]
           \/ o.fs["primary"] = fs["temp"] /\ ~Has(o.fs, "temp")
    BY <1>1, <1>2, <2>1, <2>2, <2>4 DEF Ends, Has, Put, Moved, Directories, Files, e
  <2> QED  BY <1>2, <2>5, <2>6
<1>3. CASE ~(allow /\ ~Has(fs, "primary") /\ Has(fs, "temp"))
  <2>1. PICK a \in DeleteIfPresent(fs, "tempStage") :
          IF a.ok THEN o \in DeleteIfPresent(a.fs, "temp") ELSE o = a
    <3>1. o \in Then(DeleteIfPresent(fs, "tempStage"), LAMBDA f : DeleteIfPresent(f, "temp"))
      BY <1>3 DEF ResolveWriteTempArtifacts
    <3> QED  BY <3>1 DEF Then
  <2>2. Ends(a, {fs, e}, e)
    BY <2>1, ClearEnds, FileNames
  <2> HIDE DEF e
  <2>3. a.ok => Ends(o, {e, Put(e, "temp", Missing)}, Put(e, "temp", Missing))
    BY <1>1, <2>1, <2>2, ClearEnds, FileNames DEF Ends
  <2> QED
    BY <1>3, <1>1, <2>1, <2>2, <2>3
    DEF Ends, SaneEnd, Sane, Spare, Has, Put, Directories, Files, e
<1> QED  BY <1>2, <1>3

\* What becomes of a displaced primary: the backup, where there is no copy and
\* the primary does not hold what is wanted.
Revives(fs, requested, keep) ==
  /\ Has(fs, "displaced") /\ Spare(fs) = Missing
  /\ ~Has(fs, "primary") \/ (keep /\ fs["primary"] # requested)

LEMMA DisplacedSteps ==
  ASSUME NEW fs \in Directories, Sane(fs), NEW requested, NEW keep \in BOOLEAN,
         NEW o \in ResolveDisplaced(fs, requested, keep)
  PROVE  /\ SaneEnd(o)
         /\ \A f \in Files \ {"displaced", "backup"} : o.fs[f] = fs[f]
         /\ Revives(fs, requested, keep) =>
               /\ \/ o.fs["backup"] = Missing /\ o.fs["displaced"] = fs["displaced"]
                  \/ o.fs["backup"] = fs["displaced"] /\ ~Has(o.fs, "displaced")
               /\ o.ok => o.fs["backup"] = fs["displaced"] /\ ~Has(o.fs, "displaced")
         /\ ~Revives(fs, requested, keep) =>
               /\ o.fs["backup"] = fs["backup"]
               /\ o.fs["displaced"] \in {fs["displaced"], Missing}
               /\ o.ok /\ Has(fs, "primary") => ~Has(o.fs, "displaced")
<1> USE FileOpsAssumption
<1>1. CASE Revives(fs, requested, keep)
  <2>1. Has(fs, "displaced") /\ ~Has(fs, "backup") /\ ~Has(fs, "rollback")
    BY <1>1 DEF Revives, Spare, Has
  <2>2. o \in Move(fs, "displaced", "backup", FALSE)
    BY <1>1, <2>1
    DEF Revives, ResolveDisplaced, ResolveDisplacedForRecovery, ResolveDisplacedWithoutPrimary
  <2>3. Ends(o, {fs, Moved(fs, "displaced", "backup")}, Moved(fs, "displaced", "backup"))
    BY <2>1, <2>2, MoveFresh, FileNames
  <2> QED
    BY <1>1, <2>1, <2>3 DEF Ends, SaneEnd, Sane, Spare, Has, Moved, Directories, Files
<1>2. CASE ~Revives(fs, requested, keep)
  <2>1. \/ o \in DeleteIfPresent(fs, "displaced")
        \/ o \in Done(fs) /\ ~Has(fs, "primary")
    BY <1>2
    DEF Revives, Spare, Has, ResolveDisplaced, ResolveDisplacedForRecovery,
        ResolveDisplacedWithoutPrimary
  <2>2. CASE o \in DeleteIfPresent(fs, "displaced")
    <3>1. Ends(o, {fs, Put(fs, "displaced", Missing)}, Put(fs, "displaced", Missing))
      BY <2>2, ClearEnds, FileNames
    <3> QED
      BY <1>2, <3>1 DEF Ends, SaneEnd, Sane, Spare, Has, Put, Directories, Files
  <2>3. CASE o \in Done(fs) /\ ~Has(fs, "primary")
    BY <1>2, <2>3, DoneOutcome, OutcomeRecords DEF SaneEnd
  <2> QED  BY <2>1, <2>2, <2>3
<1> QED  BY <1>1, <1>2

-----------------------------------------------------------------------------
(* The publication of new bytes. *)

LEMMA FirstPublishSteps ==
  ASSUME NEW fs \in Directories, Sane(fs), NEW bytes \in Versions,
         ~Has(fs, "primary"), ~Has(fs, "temp"), ~Has(fs, "tempStage"),
         NEW o \in FirstPublish(fs, bytes)
  PROVE  /\ SaneEnd(o)
         /\ \A f \in Files \ {"primary", "temp", "tempStage", "displaced"} : o.fs[f] = fs[f]
         /\ o.fs["primary"] \in {Missing, bytes} /\ o.fs["temp"] \in {Missing, bytes}
         /\ o.fs["displaced"] \in {fs["displaced"], Missing}
         /\ o.ok => /\ o.fs["primary"] = bytes
                    /\ \A f \in {"temp", "tempStage", "displaced"} : ~Has(o.fs, f)
<1> USE FileOpsAssumption
<1>0. bytes # Missing /\ bytes \in Contents
  BY ContentsNames
<1>1. PICK a \in WriteTempFile(fs, "tempStage", bytes) :
        IF a.ok THEN o \in Then(Move(a.fs, "tempStage", "temp", FALSE),
                           LAMBDA g : Then(Move(g, "temp", "primary", FALSE),
                           LAMBDA h : DeleteIfPresent(h, "displaced")))
                ELSE o = a
  BY DEF FirstPublish, Then
<1> DEFINE e == Put(fs, "tempStage", bytes)
<1>2. Ends(a, {fs, Put(fs, "tempStage", Torn), e}, e)
  BY <1>0, <1>1, WriteTempFileEnds, FileNames
<1>3. CASE ~a.ok
  BY <1>0, <1>1, <1>2, <1>3 DEF Ends, SaneEnd, Sane, Spare, Has, Put, Directories, Files
<1>4. CASE a.ok
  <2>1. o \in Then(Move(e, "tempStage", "temp", FALSE),
                           LAMBDA g : Then(Move(g, "temp", "primary", FALSE),
                           LAMBDA h : DeleteIfPresent(h, "displaced")))
    BY <1>1, <1>2, <1>4 DEF Ends
  <2>2. /\ e \in Directories /\ Sane(e) /\ e["tempStage"] = bytes
        /\ ~Has(e, "temp") /\ ~Has(e, "primary") /\ Has(e, "tempStage")
        /\ \A f \in Files \ {"tempStage"} : e[f] = fs[f]
    BY <1>0, <1>2, <1>4 DEF Ends, Sane, Spare, Has, Put, Directories, Files
  <2> HIDE DEF e
  <2>3. PICK b \in Move(e, "tempStage", "temp", FALSE) :
          IF b.ok THEN o \in Then(Move(b.fs, "temp", "primary", FALSE),
                           LAMBDA h : DeleteIfPresent(h, "displaced"))
                  ELSE o = b
    BY <2>1 DEF Then
  <2> DEFINE g == Moved(e, "tempStage", "temp")
  <2>4. Ends(b, {e, g}, g)
    BY <2>2, <2>3, MoveFresh, FileNames
  <2>5. CASE ~b.ok
    BY <1>0, <2>2, <2>3, <2>4, <2>5 DEF Ends, SaneEnd, Sane, Spare, Has, Moved, Directories, Files
  <2>6. CASE b.ok
    <3>1. o \in Then(Move(g, "temp", "primary", FALSE), LAMBDA h : DeleteIfPresent(h, "displaced"))
      BY <2>3, <2>4, <2>6 DEF Ends
    <3>2. /\ g \in Directories /\ Sane(g) /\ g["temp"] = bytes /\ ~Has(g, "tempStage")
          /\ ~Has(g, "primary") /\ Has(g, "temp")
          /\ \A f \in Files \ {"tempStage", "temp"} : g[f] = fs[f]
      BY <1>0, <2>2, <2>4, <2>6 DEF Ends, Sane, Spare, Has, Moved, Directories, Files
    <3> HIDE DEF g
    <3>3. PICK c \in Move(g, "temp", "primary", FALSE) :
            IF c.ok THEN o \in DeleteIfPresent(c.fs, "displaced") ELSE o = c
      BY <3>1 DEF Then
    <3>4. Ends(c, {g, Moved(g, "temp", "primary")}, Moved(g, "temp", "primary"))
      BY <3>2, <3>3, MoveFresh, FileNames
    <3>5. c.ok => Ends(o, {c.fs, Put(c.fs, "displaced", Missing)}, Put(c.fs, "displaced", Missing))
      BY <3>3, <3>4, ClearEnds, FileNames DEF Ends
    <3> QED
      BY <1>0, <3>2, <3>3, <3>4, <3>5
      DEF Ends, SaneEnd, Sane, Spare, Has, Put, Moved, Directories, Files
  <2> QED  BY <2>4, <2>5, <2>6 DEF Ends
<1> QED  BY <1>2, <1>3, <1>4 DEF Ends

LEMMA PreservingSteps ==
  ASSUME NEW fs \in Directories, Sane(fs), NoMarkers(fs), NEW bytes \in Versions,
         Has(fs, "primary"), ~Has(fs, "displaced"),
         NEW o \in PreservingPublish(fs, bytes)
  PROVE  /\ SaneEnd(o)
         /\ \A f \in Files \ {"primary", "temp", "displaced"} : o.fs[f] = fs[f]
         /\ \/ o.fs["primary"] = fs["primary"] /\ ~Has(o.fs, "displaced")
            \/ o.fs["primary"] = Missing /\ o.fs["displaced"] = fs["primary"]
            \/ o.fs["primary"] = bytes /\ o.fs["displaced"] \in {Missing, fs["primary"]}
         /\ o.ok => /\ o.fs["primary"] = bytes
                    /\ ~Has(o.fs, "temp") /\ ~Has(o.fs, "displaced")
<1> USE FileOpsAssumption
<1>0. bytes # Missing /\ bytes \in Contents
  BY ContentsNames
<1>1. PICK a \in WriteTempFile(fs, "temp", bytes) :
        IF a.ok THEN o \in Then(Replace(a.fs, "primary", "temp", "displaced"),
                           LAMBDA g : Delete(g, "displaced"))
                ELSE o = a
  BY DEF PreservingPublish, Then
<1> DEFINE e == Put(fs, "temp", bytes)
<1>2. Ends(a, {fs, Put(fs, "temp", Torn), e}, e)
  BY <1>0, <1>1, WriteTempFileEnds, FileNames
<1>3. CASE ~a.ok
  BY <1>0, <1>1, <1>2, <1>3 DEF Ends, SaneEnd, Sane, Spare, Has, Put, Directories, Files
<1>4. CASE a.ok
  <2>1. o \in Then(Replace(e, "primary", "temp", "displaced"), LAMBDA g : Delete(g, "displaced"))
    BY <1>1, <1>2, <1>4 DEF Ends
  <2>2. /\ e \in Directories /\ Sane(e) /\ NoMarkers(e) /\ e["temp"] = bytes
        /\ ~Has(e, "displaced") /\ Has(e, "primary") /\ Has(e, "temp")
        /\ \A f \in Files \ {"temp"} : e[f] = fs[f]
    BY <1>0, <1>2, <1>4 DEF Ends, Sane, NoMarkers, Spare, Has, Put, Directories, Files
  <2> HIDE DEF e
  <2>3. PICK b \in Replace(e, "primary", "temp", "displaced") :
          IF b.ok THEN o \in Delete(b.fs, "displaced") ELSE o = b
    BY <2>1 DEF Then
  <2>4. Ends(b, {e, Aside(e, "primary", "displaced"), Swapped(e, "primary", "temp", "displaced")},
             Swapped(e, "primary", "temp", "displaced"))
    BY <2>2, <2>3, ReplaceEnds, FileNames
  <2>5. CASE ~b.ok
    BY <1>0, <2>2, <2>3, <2>4, <2>5
    DEF Ends, SaneEnd, Sane, NoMarkers, Spare, Has, Aside, Swapped, Directories, Files
  <2>6. CASE b.ok
    <3> DEFINE h == Swapped(e, "primary", "temp", "displaced")
    <3>1. o \in Delete(h, "displaced")
      BY <2>3, <2>4, <2>6 DEF Ends
    <3>2. /\ h \in Directories /\ Sane(h) /\ NoMarkers(h) /\ Has(h, "displaced")
          /\ h["primary"] = bytes /\ h["displaced"] = fs["primary"] /\ ~Has(h, "temp")
          /\ \A f \in Files \ {"primary", "temp", "displaced"} : h[f] = fs[f]
      BY <1>0, <2>2, <2>4, <2>6
      DEF Ends, Sane, NoMarkers, Spare, Has, Aside, Swapped, Directories, Files
    <3> HIDE DEF h
    <3>3. Ends(o, {h, Put(h, "displaced", Missing)}, Put(h, "displaced", Missing))
      BY <3>1, <3>2, DeleteEnds, FileNames
    <3> QED
      BY <1>0, <3>2, <3>3 DEF Ends, SaneEnd, Sane, Spare, Has, Put, Directories, Files
  <2> QED  BY <2>4, <2>5, <2>6 DEF Ends
<1> QED  BY <1>2, <1>3, <1>4 DEF Ends

\* The staged backup goes once the new one has its name.
LEMMA CleanupSteps ==
  ASSUME NEW fs \in Directories, Sane(fs), NEW staged \in BOOLEAN, staged <=> Has(fs, "previous"),
         \A f \in {"promote", "promoteStage", "previousStage"} : ~Has(fs, f),
         NEW o \in CleanupStagedPriorBackup(fs, staged)
  PROVE  Settled(fs, o) /\ (o.ok => NoMarkers(o.fs))
<1>1. CASE Has(fs, "previous")
  <2>1. o \in Delete(fs, "previous")
    BY <1>1 DEF CleanupStagedPriorBackup
  <2>2. Ends(o, {fs, Put(fs, "previous", Missing)}, Put(fs, "previous", Missing))
    BY <1>1, <2>1, DeleteEnds, FileNames
  <2> QED
    BY <1>1, <2>2
    DEF Ends, Settled, Settles, NoMarkers, Sane, Spare, Has, Put, Directories, Files
<1>2. CASE ~Has(fs, "previous")
  <2>1. o \in Done(fs)
    BY <1>2 DEF CleanupStagedPriorBackup
  <2> QED
    BY <1>2, <2>1, DoneOutcome, OutcomeRecords DEF Settled, Settles, NoMarkers, Sane, Has
<1> QED  BY <1>1, <1>2

LEMMA FinishPublishedSteps ==
  ASSUME NEW fs \in Directories, Sane(fs), NoMarkers(fs), ~Has(fs, "displaced"),
         NEW keep \in BOOLEAN, NEW o \in FinishPublished(fs, keep)
  PROVE  Settled(fs, o) /\ (o.ok => NoMarkers(o.fs))
<1>1. CASE o \in Done(fs)
  BY <1>1, DoneOutcome, OutcomeRecords DEF Settled, Settles
<1>2. CASE o \notin Done(fs)
  <2>1. /\ Has(fs, "rollback")
        /\ o \in Then(StagePriorBackup(fs),
             LAMBDA f : Then(PromoteRollbackChecked(f),
             LAMBDA g : CleanupStagedPriorBackup(g, Has(fs, "backup"))))
    BY <1>2 DEF FinishPublished
  <2>2. PICK a \in StagePriorBackup(fs) :
          IF a.ok THEN o \in Then(PromoteRollbackChecked(a.fs),
                             LAMBDA g : CleanupStagedPriorBackup(g, Has(fs, "backup")))
                  ELSE o = a
    BY <2>1 DEF Then
  <2>3. /\ Settled(fs, a)
        /\ \A f \in Files \ {"previous", "previousStage"} : a.fs[f] = fs[f]
        /\ a.ok => ~Has(a.fs, "previousStage") /\ a.fs["previous"] = fs["backup"]
    BY <2>2, StagePriorSteps
  <2>4. CASE ~a.ok
    BY <2>2, <2>3, <2>4
  <2>5. CASE a.ok
    <3> DEFINE e == a.fs
    <3>1. o \in Then(PromoteRollbackChecked(e),
                             LAMBDA g : CleanupStagedPriorBackup(g, Has(fs, "backup")))
      BY <2>2, <2>5
    <3>2. PICK b \in PromoteRollbackChecked(e) :
            IF b.ok THEN o \in CleanupStagedPriorBackup(b.fs, Has(fs, "backup")) ELSE o = b
      BY <3>1 DEF Then
    <3>3. /\ e \in Directories /\ Sane(e) /\ Settles(fs, e) /\ Has(e, "rollback")
          /\ ~Has(e, "displaced") /\ ~Has(e, "previousStage") /\ e["previous"] = fs["backup"]
          /\ e["rollback"] = Torn => e["previous"] \notin Versions
      BY <2>1, <2>3, <2>5 DEF Settled, Settles, Sane, Has, Files
    <3> HIDE DEF e
    <3>4. /\ Settled(e, b)
          /\ b.ok => /\ \A f \in {"promote", "promoteStage", "rollback"} : ~Has(b.fs, f)
                     /\ \A f \in {"previous", "previousStage"} : b.fs[f] = e[f]
      BY <3>2, <3>3, PromoteSteps
    <3>5. CASE ~b.ok
      BY <3>2, <3>3, <3>4, <3>5 DEF Settled, Settles
    <3>6. CASE b.ok
      <4>1. /\ Has(fs, "backup") <=> Has(b.fs, "previous")
            /\ \A f \in {"promote", "promoteStage", "previousStage"} : ~Has(b.fs, f)
        BY <3>3, <3>4, <3>6 DEF Has
      <4>2. b.fs \in Directories /\ Sane(b.fs)
        BY <3>4 DEF Settled, Settles
      <4>3. Has(fs, "backup") \in BOOLEAN
        BY DEF Has
      <4>4. Settled(b.fs, o) /\ (o.ok => NoMarkers(o.fs))
        BY <3>2, <3>6, <4>1, <4>2, <4>3, CleanupSteps
      <4> QED  BY <3>3, <3>4, <4>4 DEF Settled, Settles
    <3> QED  BY <3>4, <3>5, <3>6 DEF Settled
  <2> QED  BY <2>3, <2>4, <2>5 DEF Settled
<1> QED  BY <1>1, <1>2

\* From the replacement of the primary on: the primary is the rollback copy,
\* and stays the copy whatever fails.
LEMMA PublishedSteps ==
  ASSUME NEW fs \in Directories, Sane(fs), NEW staged \in BOOLEAN, NEW p \in Contents \ {Missing},
         staged <=> Has(fs, "previous"), fs["rollback"] = p, ~Has(fs, "displaced"),
         ~Has(fs, "promote"), ~Has(fs, "promoteStage"), ~Has(fs, "previousStage"),
         NEW o \in Then(EnsurePromotionMarker(fs, p),
                   LAMBDA j : Then(Move(j, "rollback", "backup", TRUE),
                   LAMBDA k : Then(Delete(k, "promote"),
                   LAMBDA l : CleanupStagedPriorBackup(l, staged))))
  PROVE  Settled(fs, o) /\ (o.ok => NoMarkers(o.fs))
<1> USE FileOpsAssumption
<1>1. PICK a \in EnsurePromotionMarker(fs, p) :
        IF a.ok THEN o \in Then(Move(a.fs, "rollback", "backup", TRUE),
                           LAMBDA k : Then(Delete(k, "promote"),
                           LAMBDA l : CleanupStagedPriorBackup(l, staged)))
                ELSE o = a
  BY DEF Then
<1>2. /\ Settled(fs, a)
      /\ \A f \in Files \ {"promote", "promoteStage"} : a.fs[f] = fs[f]
      /\ a.ok => a.fs["promote"] = p /\ ~Has(a.fs, "promoteStage")
  BY <1>1, MarkerSteps DEF Has
<1>3. CASE ~a.ok
  BY <1>1, <1>2, <1>3
<1>4. CASE a.ok
  <2> DEFINE e == a.fs
  <2>1. /\ e \in Directories /\ Settles(fs, e) /\ Sane(e)
        /\ Has(e, "rollback") /\ Has(e, "promote") /\ e["promote"] = e["rollback"]
        /\ ~Has(e, "promoteStage") /\ ~Has(e, "previousStage") /\ ~Has(e, "displaced")
        /\ staged <=> Has(e, "previous")
    BY <1>2, <1>4 DEF Settled, Settles, Has, Files
  <2>2. o \in Then(Move(e, "rollback", "backup", TRUE),
                           LAMBDA k : Then(Delete(k, "promote"),
                           LAMBDA l : CleanupStagedPriorBackup(l, staged)))
    BY <1>1, <1>4
  <2> HIDE DEF e
  <2>3. PICK b \in Move(e, "rollback", "backup", TRUE) :
          IF b.ok THEN o \in Then(Delete(b.fs, "promote"),
                             LAMBDA l : CleanupStagedPriorBackup(l, staged))
                  ELSE o = b
    BY <2>2 DEF Then
  <2> DEFINE g == Moved(e, "rollback", "backup")
  <2>4. Ends(b, {e, g}, g)
    BY <2>1, <2>3, MoveOver, FileNames
  <2>5. CASE ~b.ok
    BY <2>1, <2>3, <2>4, <2>5
    DEF Ends, Settled, Settles, Sane, Spare, Has, Moved, Directories, Files
  <2>6. CASE b.ok
    <3>1. o \in Then(Delete(g, "promote"), LAMBDA l : CleanupStagedPriorBackup(l, staged))
      BY <2>3, <2>4, <2>6 DEF Ends
    <3>2. /\ g \in Directories /\ Settles(fs, g) /\ Sane(g) /\ Has(g, "promote")
          /\ ~Has(g, "promoteStage") /\ ~Has(g, "previousStage") /\ ~Has(g, "displaced")
          /\ staged <=> Has(g, "previous")
      BY <2>1, <2>4, <2>6 DEF Ends, Settles, Sane, Spare, Has, Moved, Directories, Files
    <3> HIDE DEF g
    <3>3. PICK c \in Delete(g, "promote") :
            IF c.ok THEN o \in CleanupStagedPriorBackup(c.fs, staged) ELSE o = c
      BY <3>1 DEF Then
    <3>4. Ends(c, {g, Put(g, "promote", Missing)}, Put(g, "promote", Missing))
      BY <3>2, <3>3, DeleteEnds, FileNames
    <3>5. /\ Settled(fs, c) /\ (staged <=> Has(c.fs, "previous"))
          /\ \A f \in {"promoteStage", "previousStage"} : ~Has(c.fs, f)
          /\ c.ok => ~Has(c.fs, "promote")
      BY <3>2, <3>4 DEF Ends, Settled, Settles, Sane, Spare, Has, Put, Directories, Files
    <3>6. CASE ~c.ok
      BY <3>3, <3>5, <3>6
    <3>7. CASE c.ok
      <4>1. /\ c.fs \in Directories /\ Sane(c.fs) /\ o \in CleanupStagedPriorBackup(c.fs, staged)
            /\ \A f \in {"promote", "promoteStage", "previousStage"} : ~Has(c.fs, f)
        BY <3>3, <3>5, <3>7 DEF Settled, Settles
      <4>2. Settled(c.fs, o) /\ (o.ok => NoMarkers(o.fs))
        BY <3>5, <4>1, CleanupSteps
      <4> QED  BY <3>5, <4>2 DEF Settled, Settles
    <3> QED  BY <3>5, <3>6, <3>7 DEF Settled
  <2> QED  BY <2>4, <2>5, <2>6 DEF Ends
<1> QED  BY <1>2, <1>3, <1>4 DEF Settled

\* A primary that is replaced is the copy from then on, whatever fails.
LEMMA RotatingSteps ==
  ASSUME NEW fs \in Directories, Sane(fs), NoMarkers(fs), NEW bytes \in Versions,
         Has(fs, "primary"), ~Has(fs, "displaced"),
         fs["primary"] = Torn => Spare(fs) \notin Versions,
         NEW o \in RotatingPublish(fs, bytes)
  PROVE  /\ SaneEnd(o) /\ ~Has(o.fs, "displaced") /\ o.fs["tempStage"] = fs["tempStage"]
         /\ \/ o.fs["primary"] = fs["primary"] /\ Spare(o.fs) = Spare(fs)
            \/ o.fs["primary"] \in {Missing, bytes} /\ Spare(o.fs) = fs["primary"]
         /\ o.ok => /\ o.fs["primary"] = bytes /\ Spare(o.fs) = fs["primary"]
                    /\ ~Has(o.fs, "temp") /\ NoMarkers(o.fs)
<1> USE FileOpsAssumption
<1> DEFINE p == fs["primary"]
           staged == Has(fs, "backup")
<1>0. /\ bytes # Missing /\ bytes \in Contents /\ p \in Contents \ {Missing}
      /\ staged \in BOOLEAN
  BY ContentsNames, DirectoryContents, FileNames DEF Has
<1>1. PICK a \in WriteTempFile(fs, "temp", bytes) :
        IF a.ok THEN o \in Then(StagePriorBackup(a.fs),
    LAMBDA g : Then(IF Has(g, "rollback") THEN PromoteRollbackChecked(g) ELSE Done(g),
    LAMBDA h : Then(Replace(h, "primary", "temp", "rollback"),
    LAMBDA i : Then(EnsurePromotionMarker(i, p),
    LAMBDA j : Then(Move(j, "rollback", "backup", TRUE),
    LAMBDA k : Then(Delete(k, "promote"),
    LAMBDA l : CleanupStagedPriorBackup(l, staged)))))))
                ELSE o = a
  BY DEF RotatingPublish, Then
<1> DEFINE e == Put(fs, "temp", bytes)
<1>2. Ends(a, {fs, Put(fs, "temp", Torn), e}, e)
  BY <1>0, <1>1, WriteTempFileEnds, FileNames
<1>3. CASE ~a.ok
  BY <1>1, <1>2, <1>3 DEF Ends, SaneEnd, Sane, Spare, Has, Put, Directories, Files
<1>4. CASE a.ok
  <2>1. o \in Then(StagePriorBackup(e),
    LAMBDA g : Then(IF Has(g, "rollback") THEN PromoteRollbackChecked(g) ELSE Done(g),
    LAMBDA h : Then(Replace(h, "primary", "temp", "rollback"),
    LAMBDA i : Then(EnsurePromotionMarker(i, p),
    LAMBDA j : Then(Move(j, "rollback", "backup", TRUE),
    LAMBDA k : Then(Delete(k, "promote"),
    LAMBDA l : CleanupStagedPriorBackup(l, staged)))))))
    BY <1>1, <1>2, <1>4 DEF Ends
  <2>2. /\ e \in Directories /\ Sane(e) /\ NoMarkers(e) /\ e["temp"] = bytes
        /\ ~Has(e, "displaced") /\ e["primary"] = p /\ e["tempStage"] = fs["tempStage"]
        /\ Spare(e) = Spare(fs) /\ e["backup"] = fs["backup"]
    BY <1>0, <1>2, <1>4 DEF Ends, Sane, NoMarkers, Spare, Has, Put, Directories, Files
  <2> HIDE DEF e
  <2> HIDE DEF p, staged
  <2>3. PICK b \in StagePriorBackup(e) :
          IF b.ok THEN o \in
              Then(IF Has(b.fs, "rollback") THEN PromoteRollbackChecked(b.fs) ELSE Done(b.fs),
    LAMBDA h : Then(Replace(h, "primary", "temp", "rollback"),
    LAMBDA i : Then(EnsurePromotionMarker(i, p),
    LAMBDA j : Then(Move(j, "rollback", "backup", TRUE),
    LAMBDA k : Then(Delete(k, "promote"),
    LAMBDA l : CleanupStagedPriorBackup(l, staged))))))
                  ELSE o = b
    BY <2>1 DEF Then
  <2>4. /\ Settled(e, b)
        /\ \A f \in Files \ {"previous", "previousStage"} : b.fs[f] = e[f]
        /\ b.ok => ~Has(b.fs, "previousStage") /\ b.fs["previous"] = e["backup"]
    BY <2>2, <2>3, StagePriorSteps
  <2>5. CASE ~b.ok
    BY <2>2, <2>3, <2>4, <2>5 DEF Settled, Settles, SaneEnd, Has, p
  <2>6. CASE b.ok
    <3> DEFINE g == b.fs
    <3>1. o \in
              Then(IF Has(g, "rollback") THEN PromoteRollbackChecked(g) ELSE Done(g),
    LAMBDA h : Then(Replace(h, "primary", "temp", "rollback"),
    LAMBDA i : Then(EnsurePromotionMarker(i, p),
    LAMBDA j : Then(Move(j, "rollback", "backup", TRUE),
    LAMBDA k : Then(Delete(k, "promote"),
    LAMBDA l : CleanupStagedPriorBackup(l, staged))))))
      BY <2>3, <2>6
    <3>2. /\ g \in Directories /\ Sane(g) /\ Settles(e, g) /\ g["previous"] = fs["backup"]
          /\ ~Has(g, "displaced") /\ ~Has(g, "previousStage") /\ ~Has(g, "promote")
          /\ ~Has(g, "promoteStage")
          /\ g["rollback"] = Torn => g["previous"] \notin Versions
      BY <2>2, <2>4, <2>6 DEF Settled, Settles, Sane, NoMarkers, Has, Files
    <3> HIDE DEF g
    <3>3. PICK c \in IF Has(g, "rollback") THEN PromoteRollbackChecked(g) ELSE Done(g) :
            IF c.ok THEN o \in Then(Replace(c.fs, "primary", "temp", "rollback"),
    LAMBDA i : Then(EnsurePromotionMarker(i, p),
    LAMBDA j : Then(Move(j, "rollback", "backup", TRUE),
    LAMBDA k : Then(Delete(k, "promote"),
    LAMBDA l : CleanupStagedPriorBackup(l, staged)))))
                    ELSE o = c
      BY <3>1 DEF Then
    <3>4. /\ Settled(g, c)
          /\ c.ok => /\ \A f \in {"promote", "promoteStage", "rollback"} : ~Has(c.fs, f)
                     /\ \A f \in {"previous", "previousStage"} : c.fs[f] = g[f]
      <4>1. CASE Has(g, "rollback")
        BY <3>2, <3>3, <4>1, PromoteSteps
      <4>2. CASE ~Has(g, "rollback")
        <5>1. c \in Done(g)
          BY <3>3, <4>2
        <5> QED
          BY <3>2, <4>2, <5>1, DoneOutcome, OutcomeRecords DEF Settled, Settles
      <4> QED  BY <4>1, <4>2
    <3>5. CASE ~c.ok
      BY <2>2, <3>2, <3>3, <3>4, <3>5 DEF Settled, Settles, SaneEnd, Has, p
    <3>6. CASE c.ok
      <4> DEFINE h == c.fs
      <4>1. o \in Then(Replace(h, "primary", "temp", "rollback"),
    LAMBDA i : Then(EnsurePromotionMarker(i, p),
    LAMBDA j : Then(Move(j, "rollback", "backup", TRUE),
    LAMBDA k : Then(Delete(k, "promote"),
    LAMBDA l : CleanupStagedPriorBackup(l, staged)))))
        BY <3>3, <3>6
      <4>2. /\ h \in Directories /\ Sane(h) /\ Spare(h) = Spare(fs) /\ h["primary"] = p
            /\ h["temp"] = bytes /\ h["tempStage"] = fs["tempStage"]
            /\ ~Has(h, "displaced") /\ ~Has(h, "rollback")
            /\ ~Has(h, "promote") /\ ~Has(h, "promoteStage") /\ ~Has(h, "previousStage")
            /\ h["previous"] = fs["backup"]
        BY <2>2, <3>2, <3>4, <3>6 DEF Settled, Settles, Has
      <4> HIDE DEF h
      <4>3. PICK d \in Replace(h, "primary", "temp", "rollback") :
              IF d.ok THEN o \in Then(EnsurePromotionMarker(d.fs, p),
    LAMBDA j : Then(Move(j, "rollback", "backup", TRUE),
    LAMBDA k : Then(Delete(k, "promote"),
    LAMBDA l : CleanupStagedPriorBackup(l, staged))))
                      ELSE o = d
        BY <4>1 DEF Then
      <4> DEFINE i == Swapped(h, "primary", "temp", "rollback")
      <4>4. Ends(d, {h, Aside(h, "primary", "rollback"), i}, i)
        BY <1>0, <4>2, <4>3, ReplaceEnds, FileNames DEF Has
      <4>5. fs["primary"] = p
        BY DEF p
      <4>6. CASE ~d.ok
        BY <1>0, <4>2, <4>3, <4>4, <4>5, <4>6
        DEF Ends, SaneEnd, Sane, Spare, Has, Aside, Swapped, Directories, Files
      <4>7. CASE d.ok
        <5>1. o \in Then(EnsurePromotionMarker(i, p),
    LAMBDA j : Then(Move(j, "rollback", "backup", TRUE),
    LAMBDA k : Then(Delete(k, "promote"),
    LAMBDA l : CleanupStagedPriorBackup(l, staged))))
          BY <4>3, <4>4, <4>7 DEF Ends
        <5>2. /\ i \in Directories /\ Sane(i) /\ i["rollback"] = p /\ i["primary"] = bytes
              /\ ~Has(i, "displaced") /\ ~Has(i, "promote") /\ ~Has(i, "promoteStage")
              /\ ~Has(i, "previousStage") /\ i["previous"] = fs["backup"]
              /\ ~Has(i, "temp") /\ i["tempStage"] = fs["tempStage"] /\ Spare(i) = p
          BY <1>0, <4>2, <4>4, <4>5, <4>7
          DEF Ends, Sane, Spare, Has, Aside, Swapped, Directories, Files
        <5>3. staged <=> Has(i, "previous")
          BY <5>2 DEF staged, Has
        <5> HIDE DEF i
        <5>4. Settled(i, o) /\ (o.ok => NoMarkers(o.fs))
          BY <1>0, <5>1, <5>2, <5>3, PublishedSteps
        <5> QED
          BY <4>5, <5>2, <5>4 DEF Settled, Settles, SaneEnd, Has
      <4> QED  BY <4>4, <4>6, <4>7 DEF Ends
    <3> QED  BY <3>4, <3>5, <3>6 DEF Settled
  <2> QED  BY <2>4, <2>5, <2>6 DEF Settled
<1> QED  BY <1>2, <1>3, <1>4 DEF Ends

-----------------------------------------------------------------------------
(* A write. *)

\* Where there is no copy, what is displaced may not be all there is.
Fits(fs, keep) ==
  Spare(fs) = Missing =>
      /\ keep => Has(fs, "primary") /\ ~Has(fs, "displaced")
      /\ Has(fs, "displaced") => Has(fs, "primary")

\* What a write makes of the primary and of the copy, however it ends.
Written(fs, gs, bytes, keep) ==
  \/ /\ gs["primary"] = fs["primary"] /\ Spare(gs) = Spare(fs)
     /\ ~Has(fs, "primary") /\ Spare(fs) = Missing =>
          /\ ~Has(gs, "displaced")
          /\ gs["temp"] = fs["temp"] \/ (~Has(fs, "temp") /\ gs["temp"] = bytes)
  \/ /\ Has(fs, "primary") /\ fs["primary"] # bytes /\ ~keep
     /\ gs["primary"] \in {Missing, bytes} /\ Spare(gs) = fs["primary"]
  \/ /\ Spare(fs) # Missing /\ Spare(gs) = Spare(fs)
     /\ gs["primary"] \in {Missing, bytes} /\ (keep \/ ~Has(fs, "primary"))
  \/ /\ Has(fs, "primary") /\ keep /\ Spare(fs) = Missing /\ Spare(gs) = Missing
     /\ gs["primary"] = bytes \/ (~Has(gs, "primary") /\ gs["displaced"] = fs["primary"])
  \/ /\ ~Has(fs, "primary") /\ Spare(fs) = Missing /\ Spare(gs) = Missing
     /\ gs["primary"] = IF Has(fs, "temp") THEN fs["temp"] ELSE bytes
  \/ /\ ~Has(fs, "primary") /\ Spare(fs) = Missing /\ fs["temp"] \notin {Missing, bytes}
     /\ gs["primary"] \in {Missing, bytes} /\ Spare(gs) = fs["temp"]

LEMMA PublishSteps ==
  ASSUME NEW fs \in Directories, Sane(fs), NoMarkers(fs), NEW bytes \in Versions,
         NEW keep \in BOOLEAN, ~Has(fs, "temp"), ~Has(fs, "tempStage"),
         Has(fs, "primary") => ~Has(fs, "displaced"),
         fs["primary"] = Torn /\ ~keep => Spare(fs) \notin Versions,
         NEW o \in Publish(fs, bytes, keep)
  PROVE  /\ SaneEnd(o)
         /\ o.ok => o.fs["primary"] = bytes /\ \A a \in TransactionArtifacts : ~Has(o.fs, a)
         /\ ~keep => o.fs["displaced"] \in {fs["displaced"], Missing}
         /\ Fits(fs, keep) => Written(fs, o.fs, bytes, keep)
<1> USE FileOpsAssumption
<1>0. bytes # Missing /\ bytes # Torn
  OBVIOUS
<1>1. CASE fs["primary"] = bytes
  <2>1. o \in FinishPublished(fs, keep) /\ ~Has(fs, "displaced")
    BY <1>0, <1>1 DEF Publish, Has
  <2>2. Settled(fs, o) /\ (o.ok => NoMarkers(o.fs))
    BY <2>1, FinishPublishedSteps
  <2> QED
    BY <1>0, <1>1, <2>1, <2>2
    DEF Settled, Settles, SaneEnd, NoMarkers, TransactionArtifacts, ResolverArtifacts, Written, Has
<1>2. CASE fs["primary"] # bytes /\ ~Has(fs, "primary")
  <2>1. o \in FirstPublish(fs, bytes)
    BY <1>2 DEF Publish
  <2>2. /\ SaneEnd(o)
        /\ \A f \in Files \ {"primary", "temp", "tempStage", "displaced"} : o.fs[f] = fs[f]
        /\ o.fs["primary"] \in {Missing, bytes} /\ o.fs["temp"] \in {Missing, bytes}
        /\ o.fs["displaced"] \in {fs["displaced"], Missing}
        /\ o.ok => /\ o.fs["primary"] = bytes
                   /\ \A f \in {"temp", "tempStage", "displaced"} : ~Has(o.fs, f)
    BY <1>2, <2>1, FirstPublishSteps
  <2>3. /\ o.ok => \A a \in TransactionArtifacts : ~Has(o.fs, a)
        /\ Spare(o.fs) = Spare(fs)
    BY <2>2 DEF NoMarkers, TransactionArtifacts, ResolverArtifacts, Has, Files, Spare
  <2>4. Fits(fs, keep) => Written(fs, o.fs, bytes, keep)
    <3>1. CASE Has(o.fs, "primary")
      BY <1>0, <1>2, <2>2, <2>3, <3>1 DEF Written, Has
    <3>2. CASE ~Has(o.fs, "primary")
      BY <1>0, <1>2, <2>2, <2>3, <3>2 DEF Written, Has, Fits
    <3> QED  BY <3>1, <3>2
  <2> QED  BY <2>2, <2>3, <2>4
<1>3. CASE fs["primary"] # bytes /\ Has(fs, "primary") /\ keep
  <2>1. o \in PreservingPublish(fs, bytes)
    BY <1>3 DEF Publish
  <2>2. /\ SaneEnd(o)
        /\ \A f \in Files \ {"primary", "temp", "displaced"} : o.fs[f] = fs[f]
        /\ \/ o.fs["primary"] = fs["primary"] /\ ~Has(o.fs, "displaced")
           \/ o.fs["primary"] = Missing /\ o.fs["displaced"] = fs["primary"]
           \/ o.fs["primary"] = bytes /\ o.fs["displaced"] \in {Missing, fs["primary"]}
        /\ o.ok => /\ o.fs["primary"] = bytes
                   /\ ~Has(o.fs, "temp") /\ ~Has(o.fs, "displaced")
    BY <1>3, <2>1, PreservingSteps
  <2>3. /\ o.ok => \A a \in TransactionArtifacts : ~Has(o.fs, a)
        /\ Spare(o.fs) = Spare(fs)
    BY <2>2 DEF NoMarkers, TransactionArtifacts, ResolverArtifacts, Has, Files, Spare
  <2>4. Written(fs, o.fs, bytes, keep)
    BY <1>0, <1>3, <2>2, <2>3 DEF Written, Has
  <2> QED  BY <1>3, <2>2, <2>3, <2>4
<1>4. CASE fs["primary"] # bytes /\ Has(fs, "primary") /\ ~keep
  <2>1. o \in RotatingPublish(fs, bytes)
    BY <1>4 DEF Publish
  <2>2. /\ SaneEnd(o) /\ ~Has(o.fs, "displaced") /\ o.fs["tempStage"] = fs["tempStage"]
        /\ \/ o.fs["primary"] = fs["primary"] /\ Spare(o.fs) = Spare(fs)
           \/ o.fs["primary"] \in {Missing, bytes} /\ Spare(o.fs) = fs["primary"]
        /\ o.ok => /\ o.fs["primary"] = bytes /\ Spare(o.fs) = fs["primary"]
                   /\ ~Has(o.fs, "temp") /\ NoMarkers(o.fs)
    BY <1>4, <2>1, RotatingSteps
  <2>3. o.ok => \A a \in TransactionArtifacts : ~Has(o.fs, a)
    BY <2>2 DEF NoMarkers, TransactionArtifacts, ResolverArtifacts, Has
  <2>4. Written(fs, o.fs, bytes, keep)
    BY <1>0, <1>4, <2>2 DEF Written, Has
  <2> QED  BY <1>4, <2>2, <2>3, <2>4 DEF Has
<1> QED  BY <1>1, <1>2, <1>3, <1>4

\* A write keeps the directory sane, is never refused, and once it succeeds
\* leaves the bytes and no artifact.
LEMMA WriteSteps ==
  ASSUME NEW fs \in Directories, Sane(fs), NEW bytes \in Versions, NEW keep \in BOOLEAN,
         fs["primary"] = Torn /\ ~keep => Spare(fs) \notin Versions,
         NEW o \in AtomicWriteText(fs, bytes, keep)
  PROVE  /\ SaneEnd(o)
         /\ o.ok => o.fs["primary"] = bytes /\ \A a \in TransactionArtifacts : ~Has(o.fs, a)
         /\ ~keep /\ Has(fs, "primary") => o.fs["displaced"] \in {fs["displaced"], Missing}
         /\ Fits(fs, keep) => Written(fs, o.fs, bytes, keep)
<1> USE FileOpsAssumption
<1>1. PICK a \in ResolveStaleBakPrevious(fs) :
        IF a.ok THEN o \in Then(ResolveWriteTempArtifacts(a.fs, ~Has(a.fs, "rollback") /\ ~Has(a.fs, "backup")),
                           LAMBDA g : Then(ResolveDisplaced(g, bytes, keep),
                           LAMBDA h : Publish(h, bytes, keep)))
                ELSE o = a
  BY DEF AtomicWriteText, Then
<1>2. Settled(fs, a) /\ (a.ok => NoMarkers(a.fs))
  BY <1>1, ResolveSteps
<1>3. CASE ~a.ok
  BY <1>1, <1>2, <1>3 DEF Settled, Settles, SaneEnd, Written, Fits, Has
<1>4. CASE a.ok
  <2> DEFINE e == a.fs
             allow == ~Has(e, "rollback") /\ ~Has(e, "backup")
  <2>1. /\ e \in Directories /\ Sane(e) /\ NoMarkers(e) /\ Spare(e) = Spare(fs)
        /\ \A f \in {"primary", "temp", "tempStage", "displaced"} : e[f] = fs[f]
    BY <1>2, <1>4 DEF Settled, Settles
  <2>2. o \in Then(ResolveWriteTempArtifacts(e, allow),
                           LAMBDA g : Then(ResolveDisplaced(g, bytes, keep),
                           LAMBDA h : Publish(h, bytes, keep)))
    BY <1>1, <1>4
  <2>3. allow \in BOOLEAN /\ (allow <=> Spare(e) = Missing)
    BY DEF Spare, Has
  <2> HIDE DEF e, allow
  <2>4. PICK b \in ResolveWriteTempArtifacts(e, allow) :
          IF b.ok THEN o \in Then(ResolveDisplaced(b.fs, bytes, keep),
                             LAMBDA h : Publish(h, bytes, keep))
                  ELSE o = b
    BY <2>2 DEF Then
  <2> DEFINE g == b.fs
  <2>5. /\ SaneEnd(b)
        /\ \A f \in Files \ {"primary", "temp", "tempStage"} : g[f] = e[f]
        /\ b.ok => ~Has(g, "temp") /\ ~Has(g, "tempStage")
        /\ allow /\ ~Has(e, "primary") /\ Has(e, "temp") =>
              /\ \/ ~Has(g, "primary") /\ g["temp"] = e["temp"]
                 \/ g["primary"] = e["temp"] /\ ~Has(g, "temp")
              /\ b.ok => g["primary"] = e["temp"]
        /\ ~(allow /\ ~Has(e, "primary") /\ Has(e, "temp")) =>
              g["primary"] = e["primary"] /\ g["temp"] \in {e["temp"], Missing}
    BY <2>1, <2>3, <2>4, TempSteps
  <2> HIDE DEF g
  <2>6. /\ g \in Directories /\ Sane(g) /\ Spare(g) = Spare(fs) /\ NoMarkers(g)
        /\ g["displaced"] = fs["displaced"]
    BY <2>1, <2>5 DEF SaneEnd, Spare, Has, NoMarkers, Files, g
  <2>7. CASE ~b.ok
    <3>1. o = b /\ o.fs = g
      BY <2>4, <2>7 DEF g
    <3>2. Fits(fs, keep) => Written(fs, g, bytes, keep)
      BY <2>1, <2>3, <2>5, <2>6 DEF Fits, Written, Has
    <3> QED  BY <2>5, <2>6, <2>7, <3>1, <3>2
  <2>8. CASE b.ok
    <3>1. o \in Then(ResolveDisplaced(g, bytes, keep), LAMBDA h : Publish(h, bytes, keep))
      BY <2>4, <2>8 DEF g
    <3>2. PICK c \in ResolveDisplaced(g, bytes, keep) :
            IF c.ok THEN o \in Publish(c.fs, bytes, keep) ELSE o = c
      BY <3>1 DEF Then
    <3> DEFINE h == c.fs
    <3>3. /\ SaneEnd(c)
          /\ \A f \in Files \ {"displaced", "backup"} : h[f] = g[f]
          /\ Revives(g, bytes, keep) =>
                /\ \/ h["backup"] = Missing /\ h["displaced"] = g["displaced"]
                   \/ h["backup"] = g["displaced"] /\ ~Has(h, "displaced")
                /\ c.ok => h["backup"] = g["displaced"] /\ ~Has(h, "displaced")
          /\ ~Revives(g, bytes, keep) =>
                /\ h["backup"] = g["backup"]
                /\ h["displaced"] \in {g["displaced"], Missing}
                /\ c.ok /\ Has(g, "primary") => ~Has(h, "displaced")
      BY <2>6, <3>2, DisplacedSteps
    <3> HIDE DEF h
    <3>4. /\ h \in Directories /\ Sane(h) /\ NoMarkers(h)
          /\ ~Has(h, "temp") /\ ~Has(h, "tempStage") /\ h["primary"] = g["primary"]
          /\ h["displaced"] \in {fs["displaced"], Missing}
      BY <2>5, <2>6, <2>8, <3>3 DEF SaneEnd, NoMarkers, Has, Files, h
    <3>5. Fits(fs, keep) => Spare(h) = Spare(fs) /\ ~Revives(g, bytes, keep)
      <4>1. Fits(fs, keep) => ~Revives(g, bytes, keep)
        BY <2>1, <2>3, <2>5, <2>6 DEF Fits, Revives, Has
      <4> QED  BY <2>6, <3>3, <4>1 DEF Spare, Has, Files
    <3>6. /\ Has(fs, "primary") => g["primary"] = fs["primary"]
          /\ ~Has(fs, "primary") /\ Spare(fs) # Missing => ~Has(g, "primary")
          /\ ~Has(fs, "primary") /\ Spare(fs) = Missing => g["primary"] = fs["temp"]
      BY <2>1, <2>3, <2>5, <2>8 DEF Has
    <3>7. CASE ~c.ok
      <4>1. o = c /\ o.fs = h
        BY <3>2, <3>7 DEF h
      <4>2. Fits(fs, keep) => Written(fs, h, bytes, keep)
        BY <3>4, <3>5, <3>6 DEF Fits, Written, Has
      <4> QED  BY <3>3, <3>4, <3>7, <4>1, <4>2
    <3>8. CASE c.ok
      <4>1. o \in Publish(h, bytes, keep)
        BY <3>2, <3>8 DEF h
      <4>2. /\ Has(h, "primary") => ~Has(h, "displaced")
            /\ h["primary"] = Torn /\ ~keep => Spare(h) \notin Versions
        <5>1. Has(h, "primary") => ~Has(h, "displaced")
          BY <3>3, <3>4, <3>8 DEF Has
        <5>2. h["primary"] = Torn /\ ~keep => Spare(h) = Spare(fs)
          BY <2>6, <3>3, <3>4 DEF Revives, Spare, Has, Files
        <5>3. h["primary"] = Torn /\ ~keep => Spare(fs) \notin Versions
          BY <3>4, <3>6 DEF Has
        <5> QED  BY <5>1, <5>2, <5>3
      <4>3. /\ SaneEnd(o)
            /\ o.ok => o.fs["primary"] = bytes /\ \A x \in TransactionArtifacts : ~Has(o.fs, x)
            /\ ~keep => o.fs["displaced"] \in {h["displaced"], Missing}
            /\ Fits(h, keep) => Written(h, o.fs, bytes, keep)
        BY <3>4, <4>1, <4>2, PublishSteps
      <4>4. ASSUME Fits(fs, keep) PROVE Fits(h, keep)
        BY <3>3, <3>4, <3>5, <3>6, <4>4, <4>2, <2>6 DEF Fits, Has
      <4>5. ASSUME Fits(fs, keep) PROVE Written(fs, o.fs, bytes, keep)
        <5>1. Written(h, o.fs, bytes, keep) /\ Spare(h) = Spare(fs)
          BY <3>5, <4>3, <4>4, <4>5
        <5>2. CASE Has(fs, "primary") \/ Spare(fs) # Missing
          BY <3>4, <3>6, <4>5, <5>1, <5>2 DEF Fits, Written, Has
        <5>3. CASE ~Has(fs, "primary") /\ Spare(fs) = Missing
          BY <3>4, <3>6, <4>5, <5>1, <5>3 DEF Fits, Written, Has
        <5> QED  BY <5>2, <5>3
      <4> QED  BY <3>4, <4>3, <4>5
    <3> QED  BY <3>3, <3>7, <3>8 DEF SaneEnd
  <2> QED  BY <2>5, <2>7, <2>8 DEF SaneEnd
<1> QED  BY <1>2, <1>3, <1>4 DEF Settled

-----------------------------------------------------------------------------
(* A load. *)

\* What a load of a valid primary returns and leaves.
FromPrimary(fs, load) ==
  /\ load.fs["primary"] = fs["primary"] /\ Spare(load.fs) = Spare(fs)
  /\ load.fs["temp"] = fs["temp"] /\ load.fs["displaced"] \in {fs["displaced"], Missing}
  /\ load.status \in {"Valid", "Unavailable"}
  /\ load.status = "Valid"
       => load.bytes = fs["primary"] /\ load.source = "primary" /\ ~Has(load.fs, "displaced")
  /\ load.clean /\ Spare(fs) # Torn => load.status = "Valid"

\* Of a copy, which it does not touch.
FromCopy(fs, load) ==
  /\ load.fs = fs
  /\ load.status \in {"Recovered", "Unavailable"}
  /\ load.status = "Recovered"
       => load.bytes = Spare(fs) /\ load.source \in {"rollback", "backup"}
  /\ load.status = "Unavailable" => load.source = "primary"
  /\ load.clean => load.status = "Recovered"

\* Of a displaced primary, which becomes the copy.
FromDisplaced(fs, load) ==
  /\ load.fs["primary"] = fs["primary"] /\ load.fs["temp"] = fs["temp"]
  /\ \/ Spare(load.fs) = Missing /\ load.fs["displaced"] = fs["displaced"]
     \/ Spare(load.fs) = fs["displaced"] /\ ~Has(load.fs, "displaced")
  /\ load.status \in {"Recovered", "Unavailable"}
  /\ load.status = "Recovered"
       => Spare(load.fs) = fs["displaced"] /\ load.bytes = fs["displaced"] /\ load.source = "backup"
  /\ load.clean => load.status = "Recovered"

\* Of no layout but perhaps a temporary file.
FromNothing(fs, load) ==
  /\ Spare(load.fs) = Spare(fs) /\ load.fs["displaced"] \in {fs["displaced"], Missing}
  /\ load.status \in {"Recovered", "CorruptPreserved", "Missing", "Unavailable"}
  /\ load.source = "primary"
  /\ fs["primary"] = Torn \/ Spare(fs) = Torn
       => /\ load.fs["primary"] = fs["primary"]
          /\ load.status \in {"CorruptPreserved", "Unavailable"}
  /\ load.status = "CorruptPreserved"
       => /\ load.fs["primary"] = fs["primary"] /\ ~Has(load.fs, "displaced")
          /\ load.bytes = Missing
  /\ load.status = "Missing" => load.bytes = Missing /\ \A f \in Files : ~Has(load.fs, f)
  /\ load.status = "Recovered"
       => /\ fs["temp"] \in Versions /\ load.bytes = fs["temp"]
          /\ load.fs["primary"] = fs["temp"] /\ ~Has(load.fs, "displaced")
  /\ ~Has(fs, "primary") /\ Spare(fs) = Missing /\ ~Has(fs, "displaced")
       => /\ fs["temp"] \in Versions
               => /\ \/ ~Has(load.fs, "primary") /\ load.fs["temp"] = fs["temp"]
                     \/ load.fs["primary"] = fs["temp"]
                  /\ load.status \in {"Recovered", "Unavailable"}
                  /\ load.clean => load.status = "Recovered"
          /\ ~Has(fs, "temp")
               => /\ ~Has(load.fs, "primary") /\ ~Has(load.fs, "temp")
                  /\ load.status \in {"Missing", "Unavailable"}
                  /\ load.clean => load.status = "Missing"

\* The load that ends like the outcome o.
LoadOf(load, o, status, bytes, source) ==
  /\ load.fs = o.fs
  /\ o.ok => /\ load.clean = TRUE /\ load.status = status
             /\ load.bytes = bytes /\ load.source = source
  /\ ~o.ok => /\ load.clean = o.clean /\ load.status = "Unavailable"
              /\ load.bytes = Missing /\ load.source = "primary"

LEMMA LoadedSteps ==
  ASSUME NEW outcomes, NEW status, NEW bytes, NEW source,
         NEW load \in Loaded(outcomes, status, bytes, source)
  PROVE  \E o \in outcomes : LoadOf(load, o, status, bytes, source)
BY DEF Loaded, LoadOf

LEMMA LoadPrimarySteps ==
  ASSUME NEW fs \in Directories, Sane(fs), fs["primary"] \in Versions,
         NEW load \in LoadPrimary(fs)
  PROVE  load.fs \in Directories /\ Sane(load.fs) /\ FromPrimary(fs, load)
<1> USE FileOpsAssumption
<1> DEFINE Rest(f) == IF f["promote"] = Torn
                      THEN Refused(f)
                      ELSE IF \E a \in ResolverArtifacts : Has(f, a)
                      THEN ResolveStaleBakPrevious(f)
                      ELSE Done(f)
           Steps == Then(DeleteIfPresent(fs, "displaced"),
                    LAMBDA f : IF f["promote"] = Torn
                               THEN Refused(f)
                               ELSE IF \E a \in ResolverArtifacts : Has(f, a)
                               THEN ResolveStaleBakPrevious(f)
                               ELSE Done(f))
<1>0. load \in Loaded(Steps, "Valid", fs["primary"], "primary")
  BY DEF LoadPrimary
<1>1. PICK o \in Steps : LoadOf(load, o, "Valid", fs["primary"], "primary")
  <2> HIDE DEF Steps
  <2> QED  BY <1>0, LoadedSteps
<1>2. PICK a \in DeleteIfPresent(fs, "displaced") : IF a.ok THEN o \in Rest(a.fs) ELSE o = a
  BY DEF Then
<1> HIDE DEF Steps
<1> DEFINE e == Put(fs, "displaced", Missing)
<1>3. Ends(a, {fs, e}, e)
  BY <1>2, ClearEnds, FileNames
<1>4. /\ e \in Directories /\ Sane(e) /\ ~Has(e, "displaced") /\ Spare(e) = Spare(fs)
      /\ \A f \in {"primary", "temp", "promote"} : e[f] = fs[f]
  <2>1. e \in Directories
    BY PutInDirectories, ContentsNames, FileNames
  <2> QED  BY <2>1 DEF Sane, Spare, Has, Put, Directories, Files
<1> HIDE DEF e
<1>5. CASE ~a.ok
  BY <1>1, <1>2, <1>3, <1>4, <1>5 DEF Ends, FromPrimary, LoadOf, Has
<1>6. CASE a.ok
  <2>1. o \in Rest(e)
    BY <1>2, <1>3, <1>6 DEF Ends
  <2>2. CASE e["promote"] = Torn
    <3>1. o \in Refused(e) /\ Spare(fs) = Torn
      BY <1>4, <2>1, <2>2 DEF Sane
    <3>2. o.fs = e /\ o.ok = FALSE
      BY <3>1, RefusedOutcome
    <3> QED  BY <1>1, <1>4, <3>1, <3>2 DEF FromPrimary, LoadOf, Has
  <2>3. CASE e["promote"] # Torn /\ (\E x \in ResolverArtifacts : Has(e, x))
    <3>1. o \in ResolveStaleBakPrevious(e)
      BY <2>1, <2>3
    <3>2. Settled(e, o)
      BY <1>4, <3>1, ResolveSteps
    <3> QED  BY <1>1, <1>4, <3>2 DEF Settled, Settles, FromPrimary, LoadOf, Has
  <2>4. CASE e["promote"] # Torn /\ ~(\E x \in ResolverArtifacts : Has(e, x))
    <3>1. o \in Done(e)
      BY <2>1, <2>4
    <3>2. o.fs = e /\ o.ok = TRUE
      BY <3>1, DoneOutcome
    <3> QED  BY <1>1, <1>4, <3>2 DEF FromPrimary, LoadOf, Has
  <2> QED  BY <2>2, <2>3, <2>4
<1> QED  BY <1>3, <1>5, <1>6 DEF Ends

LEMMA SoleTempSteps ==
  ASSUME NEW fs \in Directories, Sane(fs), NoMarkers(fs), ~Has(fs, "displaced"),
         ~Has(fs, "primary"), ~Has(fs, "rollback"), ~Has(fs, "backup"),
         NEW load \in TryRecoverSoleTemp(fs)
  PROVE  load.fs \in Directories /\ Sane(load.fs) /\ FromNothing(fs, load)
<1> USE FileOpsAssumption
<1> DEFINE e == Put(fs, "tempStage", Missing)
<1>0. e \in Directories /\ Spare(fs) = Missing /\ fs["temp"] \in Contents
  BY PutInDirectories, ContentsNames, FileNames, DirectoryContents DEF Spare, Has
<1>1. CASE ~Has(fs, "temp")
  <2>1. load \in Loaded(DeleteIfPresent(fs, "tempStage"), "Missing", Missing, "primary")
    BY <1>1 DEF TryRecoverSoleTemp
  <2>2. PICK o \in DeleteIfPresent(fs, "tempStage") : LoadOf(load, o, "Missing", Missing, "primary")
    BY <2>1, LoadedSteps
  <2>3. Ends(o, {fs, e}, e)
    BY <2>2, ClearEnds, FileNames
  <2> QED
    BY <1>0, <1>1, <2>2, <2>3
    DEF Ends, LoadOf, FromNothing, NoMarkers, Sane, Spare, Has, Put, Directories, Files
<1>2. CASE fs["temp"] = Torn
  <2>1. load \in Loaded(Then(DeleteIfPresent(fs, "tempStage"), LAMBDA f : Delete(f, "temp")),
                        "CorruptPreserved", Missing, "primary")
    BY <1>2 DEF TryRecoverSoleTemp, Has
  <2>2. PICK o \in Then(DeleteIfPresent(fs, "tempStage"), LAMBDA f : Delete(f, "temp")) :
          LoadOf(load, o, "CorruptPreserved", Missing, "primary")
    BY <2>1, LoadedSteps
  <2>3. PICK a \in DeleteIfPresent(fs, "tempStage") :
          IF a.ok THEN o \in Delete(a.fs, "temp") ELSE o = a
    BY <2>2 DEF Then
  <2>4. Ends(a, {fs, e}, e)
    BY <2>3, ClearEnds, FileNames
  <2>5. Has(e, "temp")
    BY <1>2 DEF Has, Put, Directories, Files
  <2> HIDE DEF e
  <2>6. a.ok => Ends(o, {e, Put(e, "temp", Missing)}, Put(e, "temp", Missing))
    BY <1>0, <2>3, <2>4, <2>5, DeleteEnds, FileNames DEF Ends
  <2> QED
    BY <1>0, <1>2, <2>2, <2>3, <2>4, <2>6
    DEF Ends, LoadOf, FromNothing, NoMarkers, Sane, Spare, Has, Put, Directories, Files, e
<1>3. CASE fs["temp"] \in Versions
  <2>1. load \in Loaded(Then(DeleteIfPresent(fs, "tempStage"),
                        LAMBDA f : Move(f, "temp", "primary", FALSE)),
                        "Recovered", fs["temp"], "primary")
    BY <1>3 DEF TryRecoverSoleTemp, Has
  <2>2. PICK o \in Then(DeleteIfPresent(fs, "tempStage"),
                   LAMBDA f : Move(f, "temp", "primary", FALSE)) :
          LoadOf(load, o, "Recovered", fs["temp"], "primary")
    BY <2>1, LoadedSteps
  <2>3. PICK a \in DeleteIfPresent(fs, "tempStage") :
          IF a.ok THEN o \in Move(a.fs, "temp", "primary", FALSE) ELSE o = a
    BY <2>2 DEF Then
  <2>4. Ends(a, {fs, e}, e)
    BY <2>3, ClearEnds, FileNames
  <2>5. Has(e, "temp") /\ ~Has(e, "primary")
    BY <1>3 DEF Has, Put, Directories, Files
  <2> HIDE DEF e
  <2>6. a.ok => Ends(o, {e, Moved(e, "temp", "primary")}, Moved(e, "temp", "primary"))
    BY <1>0, <2>3, <2>4, <2>5, MoveFresh, FileNames DEF Ends
  <2>7. /\ load.fs \in {fs, e, Moved(e, "temp", "primary")} /\ load.fs \in Directories
        /\ \/ load.status = "Recovered" /\ load.fs = Moved(e, "temp", "primary")
           \/ load.status = "Unavailable" /\ ~load.clean
        /\ load.source = "primary" /\ load.bytes \in {fs["temp"], Missing}
        /\ load.status = "Recovered" => load.bytes = fs["temp"]
    BY <2>2, <2>3, <2>4, <2>6 DEF Ends, LoadOf
  <2>8. /\ Sane(load.fs) /\ Spare(load.fs) = Missing /\ ~Has(load.fs, "displaced")
        /\ \/ ~Has(load.fs, "primary") /\ load.fs["temp"] = fs["temp"]
           \/ load.fs["primary"] = fs["temp"]
        /\ load.fs = Moved(e, "temp", "primary") => load.fs["primary"] = fs["temp"]
    BY <1>0, <1>3, <2>7 DEF NoMarkers, Sane, Spare, Has, Put, Moved, Directories, Files, e
  <2> QED
    BY <1>0, <1>3, <2>7, <2>8 DEF FromNothing, Has
<1> QED  BY <1>0, <1>1, <1>2, <1>3 DEF Has, Contents

LEMMA NothingSteps ==
  ASSUME NEW fs \in Directories, Sane(fs), fs["primary"] \notin Versions,
         Spare(fs) \notin Versions, Spare(fs) = Missing => fs["displaced"] \notin Versions,
         NEW load \in LoadNothing(fs)
  PROVE  load.fs \in Directories /\ Sane(load.fs) /\ FromNothing(fs, load)
<1> USE FileOpsAssumption
<1> DEFINE corrupt == \E f \in {"primary", "rollback", "backup"} : fs[f] = Torn
           sole == fs["displaced"] = Torn /\ ~Has(fs, "rollback") /\ ~Has(fs, "backup")
           cleaned == IF sole THEN Delete(fs, "displaced") ELSE Done(fs)
           settled(f) == \A a \in ResolverArtifacts \cup {"displaced"} : ~Has(f, a)
           e == Put(fs, "displaced", Missing)
<1>1. PICK o \in cleaned :
        load \in IF ~o.ok \/ ~settled(o.fs)
                 THEN Loaded({[o EXCEPT !.ok = FALSE]}, "Unavailable", Missing, "primary")
                 ELSE IF corrupt \/ sole
                 THEN Loaded(ResolveWriteTempArtifacts(o.fs, FALSE),
                             "CorruptPreserved", Missing, "primary")
                 ELSE TryRecoverSoleTemp(o.fs)
  BY DEF LoadNothing
<1>2. /\ o.fs \in Directories /\ Sane(o.fs) /\ IsOutcome(o) /\ o.ok \in BOOLEAN
      /\ o.clean => o.ok
      /\ \A f \in Files \ {"displaced"} : o.fs[f] = fs[f]
      /\ o.fs["displaced"] \in {fs["displaced"], Missing}
      /\ ~sole => o.fs = fs /\ o.ok
  <2>1. CASE sole
    <3>1. o \in Delete(fs, "displaced") /\ Has(fs, "displaced")
      BY <1>1, <2>1 DEF Has
    <3>2. Ends(o, {fs, e}, e)
      BY <3>1, DeleteEnds, FileNames
    <3> QED  BY <2>1, <3>2 DEF Ends, Sane, Spare, Has, Put, Directories, Files
  <2>2. CASE ~sole
    <3>1. o \in Done(fs)
      BY <1>1, <2>2
    <3> QED  BY <2>2, <3>1, DoneOutcome, OutcomeRecords
  <2> QED  BY <2>1, <2>2
<1>3. Spare(o.fs) = Spare(fs)
  BY <1>2 DEF Spare, Has, Files
<1>4. ~Has(fs, "primary") /\ Spare(fs) = Missing /\ ~Has(fs, "displaced")
        => ~corrupt /\ ~sole /\ settled(fs)
  BY DEF Sane, Spare, Has, ResolverArtifacts
<1>5. CASE ~o.ok \/ ~settled(o.fs)
  <2>1. load \in Loaded({[o EXCEPT !.ok = FALSE]}, "Unavailable", Missing, "primary")
    BY <1>1, <1>5
  <2>2. LoadOf(load, [o EXCEPT !.ok = FALSE], "Unavailable", Missing, "primary")
    <3> DEFINE failed == [o EXCEPT !.ok = FALSE]
    <3>1. load \in Loaded({failed}, "Unavailable", Missing, "primary")
      BY <2>1
    <3> HIDE DEF failed
    <3>2. LoadOf(load, failed, "Unavailable", Missing, "primary")
      BY <3>1, LoadedSteps
    <3> QED  BY <3>2 DEF failed
  <2>3. /\ [o EXCEPT !.ok = FALSE].fs = o.fs /\ [o EXCEPT !.ok = FALSE].ok = FALSE
        /\ [o EXCEPT !.ok = FALSE].clean = o.clean
    BY <1>2 DEF IsOutcome
  <2>4. /\ load.fs = o.fs /\ load.status = "Unavailable" /\ load.source = "primary"
        /\ load.clean = o.clean
    BY <2>2, <2>3 DEF LoadOf
  <2>5. ~(~Has(fs, "primary") /\ Spare(fs) = Missing /\ ~Has(fs, "displaced"))
    BY <1>2, <1>4, <1>5
  <2>6. load.fs["primary"] = fs["primary"]
    BY <1>2, <2>4 DEF Files
  <2> QED
    BY <1>2, <1>3, <2>4, <2>5, <2>6 DEF FromNothing
<1>6. CASE o.ok /\ settled(o.fs) /\ (corrupt \/ sole)
  <2>1. load \in Loaded(ResolveWriteTempArtifacts(o.fs, FALSE),
                        "CorruptPreserved", Missing, "primary")
    BY <1>1, <1>6
  <2>2. PICK b \in ResolveWriteTempArtifacts(o.fs, FALSE) :
          LoadOf(load, b, "CorruptPreserved", Missing, "primary")
    BY <2>1, LoadedSteps
  <2>3. /\ SaneEnd(b)
        /\ \A f \in Files \ {"primary", "temp", "tempStage"} : b.fs[f] = o.fs[f]
        /\ b.fs["primary"] = o.fs["primary"]
    <3>1. FALSE \in BOOLEAN
      OBVIOUS
    <3> QED  BY <1>2, <2>2, <3>1, TempSteps
  <2>4. /\ load.fs \in Directories /\ Sane(load.fs) /\ Spare(load.fs) = Spare(fs)
        /\ load.fs["primary"] = fs["primary"] /\ ~Has(load.fs, "displaced")
        /\ load.fs["displaced"] \in {fs["displaced"], Missing}
    BY <1>2, <1>3, <1>6, <2>2, <2>3 DEF SaneEnd, LoadOf, Spare, Has, Files
  <2>5. /\ load.status \in {"CorruptPreserved", "Unavailable"} /\ load.source = "primary"
        /\ load.bytes = Missing
    BY <2>2, <2>3 DEF LoadOf, SaneEnd
  <2>6. ~(~Has(fs, "primary") /\ Spare(fs) = Missing /\ ~Has(fs, "displaced"))
    BY <1>4, <1>6
  <2> QED
    BY <2>4, <2>5, <2>6 DEF FromNothing
<1>7. CASE o.ok /\ settled(o.fs) /\ ~corrupt /\ ~sole
  <2>1. load \in TryRecoverSoleTemp(fs) /\ settled(fs)
    BY <1>1, <1>2, <1>7
  <2>2. NoMarkers(fs) /\ ~Has(fs, "displaced")
    BY <2>1 DEF NoMarkers, ResolverArtifacts
  <2>3. ~Has(fs, "primary") /\ ~Has(fs, "rollback") /\ ~Has(fs, "backup")
    BY <1>7, DirectoryContents, FileNames DEF Sane, Spare, Has, Contents
  <2> QED  BY <2>1, <2>2, <2>3, SoleTempSteps
<1> QED  BY <1>2, <1>5, <1>6, <1>7

LEMMA CopySteps ==
  ASSUME NEW fs \in Directories, Sane(fs), Spare(fs) \in Versions, NEW load \in LoadCopies(fs)
  PROVE  /\ load.fs = fs /\ load.status = "Recovered" /\ load.bytes = Spare(fs)
         /\ load.source = IF Has(fs, "rollback") THEN "rollback" ELSE "backup"
<1> USE FileOpsAssumption
<1>1. CASE Has(fs, "rollback")
  <2>1. Usable(fs, "rollback") /\ fs["rollback"] = Spare(fs)
    BY <1>1 DEF Usable, Sane, Spare
  <2>2. load \in Loaded(Done(fs), "Recovered", fs["rollback"], "rollback")
    BY <2>1 DEF LoadCopies
  <2>3. PICK o \in Done(fs) : LoadOf(load, o, "Recovered", fs["rollback"], "rollback")
    BY <2>2, LoadedSteps
  <2> QED  BY <1>1, <2>1, <2>3, DoneOutcome DEF LoadOf
<1>2. CASE ~Has(fs, "rollback")
  <2>1. Usable(fs, "backup") /\ fs["backup"] = Spare(fs) /\ ~Usable(fs, "rollback")
    BY <1>2 DEF Usable, Sane, Spare, Has
  <2>2. load \in Loaded(Done(fs), "Recovered", fs["backup"], "backup")
    BY <2>1 DEF LoadCopies
  <2>3. PICK o \in Done(fs) : LoadOf(load, o, "Recovered", fs["backup"], "backup")
    BY <2>2, LoadedSteps
  <2> QED  BY <1>2, <2>1, <2>3, DoneOutcome DEF LoadOf
<1> QED  BY <1>1, <1>2

LEMMA NoCopySteps ==
  ASSUME NEW fs \in Directories, Sane(fs), Spare(fs) \notin Versions, fs["promote"] # Torn,
         NEW load \in LoadCopies(fs)
  PROVE  load \in LoadNothing(fs)
<1> USE FileOpsAssumption
<1>1. ~Has(fs, "promote")
  <2>1. Spare(fs) \in {Missing, Torn}
    BY DirectoryContents, FileNames DEF Spare, Contents
  <2> QED  BY <2>1 DEF Sane, Has
<1>2. ~Usable(fs, "rollback") /\ ~Usable(fs, "backup")
  <2>1. fs["rollback"] \in Versions \cup {Missing, Torn}
    BY DirectoryContents, FileNames DEF Contents
  <2> QED  BY <2>1 DEF Usable, Sane, Spare, Has
<1> QED  BY <1>1, <1>2 DEF LoadCopies

LEMMA WithoutPrimarySteps ==
  ASSUME NEW fs \in Directories, Sane(fs), fs["primary"] \notin Versions,
         NEW load \in LoadWithoutPrimary(fs)
  PROVE  /\ load.fs \in Directories /\ Sane(load.fs)
         /\ Spare(fs) \in Versions => FromCopy(fs, load)
         /\ Spare(fs) = Missing /\ fs["displaced"] \in Versions => FromDisplaced(fs, load)
         /\ Spare(fs) \notin Versions /\ (Spare(fs) = Missing => fs["displaced"] \notin Versions)
              => FromNothing(fs, load)
<1> USE FileOpsAssumption
<1>1. CASE fs["promote"] = Torn
  <2>1. load \in Loaded(Refused(fs), "Unavailable", Missing, "primary")
    BY <1>1 DEF LoadWithoutPrimary
  <2>2. PICK o \in Refused(fs) : LoadOf(load, o, "Unavailable", Missing, "primary")
    BY <2>1, LoadedSteps
  <2>3. load.fs = fs /\ load.status = "Unavailable" /\ load.source = "primary"
    BY <2>2, RefusedOutcome DEF LoadOf
  <2>4. Spare(fs) = Torn
    BY <1>1 DEF Sane
  <2> QED  BY <2>3, <2>4 DEF FromNothing
<1>2. CASE fs["promote"] # Torn
  <2> DEFINE canonical == IF fs["displaced"] \in Versions /\ ~Has(fs, "promote")
                          THEN ResolveDisplacedWithoutPrimary(fs)
                          ELSE Done(fs)
  <2>1. PICK o \in canonical :
          load \in IF o.ok THEN LoadCopies(o.fs)
                   ELSE Loaded({o}, "Unavailable", Missing, "primary")
    BY <1>2 DEF LoadWithoutPrimary
  <2>2. CASE Spare(fs) = Missing /\ fs["displaced"] \in Versions
    <3> DEFINE e == Moved(fs, "displaced", "backup")
    <3>1. /\ Has(fs, "displaced") /\ ~Has(fs, "backup") /\ ~Has(fs, "rollback")
          /\ ~Has(fs, "promote")
      BY <2>2 DEF Sane, Spare, Has
    <3>2. o \in Move(fs, "displaced", "backup", FALSE)
      BY <2>1, <2>2, <3>1 DEF ResolveDisplacedWithoutPrimary
    <3>3. Ends(o, {fs, e}, e)
      BY <3>1, <3>2, MoveFresh, FileNames
    <3>4. /\ e \in Directories /\ Sane(e) /\ Spare(e) = fs["displaced"] /\ ~Has(e, "displaced")
          /\ e["primary"] = fs["primary"] /\ e["temp"] = fs["temp"] /\ ~Has(e, "rollback")
      <4>1. e \in Directories
        BY MovedInDirectories, FileNames
      <4> QED  BY <2>2, <3>1, <4>1 DEF Sane, Spare, Has, Moved, Directories, Files
    <3> HIDE DEF e
    <3>5. CASE o.ok
      <4>1. load \in LoadCopies(e)
        BY <2>1, <3>3, <3>5 DEF Ends
      <4>2. /\ load.fs = e /\ load.status = "Recovered" /\ load.bytes = fs["displaced"]
            /\ load.source = "backup"
        BY <2>2, <3>4, <4>1, CopySteps
      <4> QED  BY <2>2, <3>4, <4>2 DEF FromDisplaced
    <3>6. CASE ~o.ok
      <4>1. load \in Loaded({o}, "Unavailable", Missing, "primary")
        BY <2>1, <3>6
      <4>2. LoadOf(load, o, "Unavailable", Missing, "primary")
        BY <4>1, LoadedSteps
      <4>3. load.fs \in {fs, e} /\ load.status = "Unavailable" /\ ~load.clean
        BY <3>3, <3>6, <4>2 DEF Ends, LoadOf
      <4> QED  BY <2>2, <3>4, <4>3 DEF FromDisplaced
    <3> QED  BY <3>3, <3>5, <3>6 DEF Ends
  <2>3. CASE ~(Spare(fs) = Missing /\ fs["displaced"] \in Versions)
    <3>1. o \in Done(fs)
      BY <2>1, <2>3 DEF ResolveDisplacedWithoutPrimary, Spare, Has
    <3>2. load \in LoadCopies(fs)
      BY <2>1, <3>1, DoneOutcome
    <3>3. CASE Spare(fs) \in Versions
      BY <3>2, <3>3, CopySteps DEF FromCopy
    <3>4. CASE Spare(fs) \notin Versions
      <4>1. load \in LoadNothing(fs)
        BY <1>2, <3>2, <3>4, NoCopySteps
      <4> QED  BY <2>3, <3>4, <4>1, NothingSteps
    <3> QED  BY <3>3, <3>4
  <2> QED  BY <2>2, <2>3
<1> QED  BY <1>1, <1>2

\* What a load returns is the primary, else the copy, else what was displaced,
\* else a temporary file.
Loads(fs, load) ==
  /\ load.fs \in Directories /\ Sane(load.fs)
  /\ fs["primary"] \in Versions => FromPrimary(fs, load)
  /\ fs["primary"] \notin Versions /\ Spare(fs) \in Versions => FromCopy(fs, load)
  /\ fs["primary"] \notin Versions /\ Spare(fs) = Missing /\ fs["displaced"] \in Versions
       => FromDisplaced(fs, load)
  /\ fs["primary"] \notin Versions /\ Spare(fs) = Torn => FromNothing(fs, load)
  /\ fs["primary"] \notin Versions /\ Spare(fs) = Missing /\ fs["displaced"] \notin Versions
       => FromNothing(fs, load)

LEMMA LoadSteps ==
  ASSUME NEW fs \in Directories, Sane(fs), NEW load \in LoadLayoutWithBackupLocked(fs)
  PROVE  Loads(fs, load)
<1> USE FileOpsAssumption
<1>1. CASE load \in Loaded(Broken({fs}), "Unavailable", Missing, "primary")
  <2>1. PICK o \in Broken({fs}) : LoadOf(load, o, "Unavailable", Missing, "primary")
    BY <1>1, LoadedSteps
  <2>2. load.fs = fs /\ load.status = "Unavailable" /\ load.source = "primary" /\ ~load.clean
    <3>1. o.fs \in {fs} /\ o.ok = FALSE /\ o.clean = FALSE
      BY BrokenOutcome
    <3> QED  BY <2>1, <3>1 DEF LoadOf
  <2>3. fs["temp"] \in Contents
    BY DirectoryContents, FileNames
  <2> QED  BY <2>2, <2>3 DEF Loads, FromPrimary, FromCopy, FromDisplaced, FromNothing, Has
<1>2. CASE fs["primary"] \in Versions /\ load \in LoadPrimary(fs)
  BY <1>2, LoadPrimarySteps DEF Loads
<1>3. CASE fs["primary"] \notin Versions /\ load \in LoadWithoutPrimary(fs)
  BY <1>3, WithoutPrimarySteps DEF Loads
<1> QED  BY <1>1, <1>2, <1>3 DEF LoadLayoutWithBackupLocked

-----------------------------------------------------------------------------
(* What loads and writes do to the invariant. *)

LEMMA LoadTypes ==
  ASSUME NEW fs \in Directories, NEW load, Loads(fs, load)
  PROVE  /\ load.fs \in Directories /\ RevisionOf(load) \in Contents \cup {Elsewhere}
         /\ load.status # "Unavailable" => load.bytes \in Versions \cup {Missing}
         /\ load.status \in usable => load.bytes \in Versions
<1> USE FileOpsAssumption
<1>1. load.fs["primary"] \in Contents
  BY DirectoryContents, FileNames DEF Loads
<1>2. fs["primary"] \in Contents /\ Spare(fs) \in Contents
  BY DirectoryContents, FileNames DEF Spare
<1> QED
  BY <1>1, <1>2
  DEF Loads, FromPrimary, FromCopy, FromDisplaced, FromNothing, RevisionOf, usable, Contents

\* Where nothing was damaged, only the four cases below are left.
LEMMA LoadCases ==
  ASSUME NEW fs \in Directories, NEW load, Loads(fs, load), Whole(fs)
  PROVE  \/ fs["primary"] \in Versions /\ FromPrimary(fs, load)
         \/ fs["primary"] \notin Versions /\ Spare(fs) \in Versions /\ FromCopy(fs, load)
         \/ Bare(fs) /\ fs["displaced"] \in Versions /\ FromDisplaced(fs, load)
         \/ /\ Bare(fs) /\ ~Has(fs, "displaced") /\ fs["temp"] \in Versions \cup {Missing}
            /\ FromNothing(fs, load)
<1> USE FileOpsAssumption
<1>1. /\ fs["primary"] \in Contents /\ Spare(fs) \in Contents
      /\ fs["temp"] \in Contents /\ fs["displaced"] \in Contents
  BY DirectoryContents, FileNames DEF Spare
<1> QED  BY <1>1 DEF Loads, Whole, Bare, Has, Contents

LEMMA LoadKeeps ==
  ASSUME NEW fs \in Directories, NEW load, Loads(fs, load), Whole(fs)
  PROVE  /\ Whole(load.fs)
         /\ \A s, t, p : Known(fs, s, t, p) => Known(load.fs, s, t, p)
         /\ load.clean => load.status # "Unavailable"
         /\ Bare(fs) /\ ~Has(fs, "displaced") /\ Bare(load.fs) => ~Has(load.fs, "displaced")
<1> USE FileOpsAssumption
<1>1. CASE fs["primary"] \in Versions /\ FromPrimary(fs, load)
  BY <1>1 DEF FromPrimary, Whole, Known, Held, Bare, Has
<1>2. CASE fs["primary"] \notin Versions /\ Spare(fs) \in Versions /\ FromCopy(fs, load)
  BY <1>2 DEF FromCopy
<1>3. CASE Bare(fs) /\ fs["displaced"] \in Versions /\ FromDisplaced(fs, load)
  BY <1>3 DEF FromDisplaced, Whole, Known, Held, Bare, Has
<1>4. CASE /\ Bare(fs) /\ ~Has(fs, "displaced") /\ fs["temp"] \in Versions \cup {Missing}
           /\ FromNothing(fs, load)
  BY <1>4 DEF FromNothing, Whole, Known, Held, Bare, Has
<1> QED  BY <1>1, <1>2, <1>3, <1>4, LoadCases

LEMMA PriorToCases ==
  ASSUME TypeOK, prior # {} => stored # Missing, NEW bytes \in Versions \cup {Missing}
  PROVE  /\ stored = Missing => PriorTo(bytes) = {}
         /\ stored # Missing /\ bytes # stored => PriorTo(bytes) = ({stored} \cup tried) \ {bytes}
         /\ stored # Missing /\ bytes = stored
              => PriorTo(bytes) = IF prior = {} THEN {} ELSE (prior \cup tried) \ {bytes}
         /\ bytes = stored \/ bytes \in Versions => PriorTo(bytes) \subseteq Versions
<1> USE FileOpsAssumption DEF TypeOK
<1>1. CASE stored = Missing /\ bytes # stored
  BY <1>1 DEF PriorTo
<1>2. CASE stored = Missing /\ bytes = stored
  BY <1>2 DEF PriorTo
<1>3. CASE stored # Missing /\ bytes # stored
  BY <1>3 DEF PriorTo
<1>4. CASE stored # Missing /\ bytes = stored
  BY <1>4 DEF PriorTo
<1> QED  BY <1>1, <1>2, <1>3, <1>4

\* What is told after a load is what is held.
LEMMA LoadLearns ==
  ASSUME NEW fs \in Directories, NEW load, Loads(fs, load), Whole(fs), TypeOK,
         Known(fs, stored, tried, prior), load.status # "Unavailable"
  PROVE  /\ Known(load.fs, load.bytes, {}, IF load.bytes = stored THEN PriorTo(stored) ELSE {})
         /\ load.status = "Recovered" /\ Spare(fs) \in Versions
              => Backed(load.fs, load.bytes, {}) /\ Backed(load.fs, stored, tried)
<1> USE FileOpsAssumption
<1>0. /\ prior # {} => stored # Missing
      /\ stored # Missing => fs["primary"] \in Versions \/ Spare(fs) \in Versions
      /\ stored \in Versions \cup {Missing}
  BY DEF Known, Held, TypeOK
<1> DEFINE p == IF load.bytes = stored THEN PriorTo(stored) ELSE {}
<1>p. /\ stored = Missing => p = {}
      /\ p # {} => load.bytes = stored /\ prior # {} /\ p = (prior \cup tried) \ {stored}
  BY <1>0, PriorToCases
<1> SUFFICES /\ Known(load.fs, load.bytes, {}, p)
             /\ load.status = "Recovered" /\ Spare(fs) \in Versions
                  => Backed(load.fs, load.bytes, {}) /\ Backed(load.fs, stored, tried)
  OBVIOUS
<1> HIDE DEF p
<1>1. CASE fs["primary"] \in Versions /\ FromPrimary(fs, load)
  <2>1. /\ load.bytes = fs["primary"] /\ load.fs["primary"] = fs["primary"]
        /\ Spare(load.fs) = Spare(fs) /\ load.status = "Valid"
    BY <1>1 DEF FromPrimary
  <2>2. p # {} => Spare(fs) \in {load.bytes} \cup p
    BY <1>p DEF Known
  <2> QED  BY <1>1, <2>1, <2>2 DEF Known, Held
<1>2. CASE fs["primary"] \notin Versions /\ Spare(fs) \in Versions /\ FromCopy(fs, load)
  BY <1>0, <1>p, <1>2 DEF FromCopy, Known, Held, Backed
<1>3. CASE Bare(fs) /\ fs["displaced"] \in Versions /\ FromDisplaced(fs, load)
  BY <1>0, <1>p, <1>3 DEF FromDisplaced, Known, Held, Bare, Has
<1>4. CASE /\ Bare(fs) /\ ~Has(fs, "displaced") /\ fs["temp"] \in Versions \cup {Missing}
           /\ FromNothing(fs, load)
  <2>1. stored = Missing /\ p = {} /\ Spare(fs) \notin Versions
    BY <1>0, <1>p, <1>4 DEF Bare, Has
  <2>2. load.bytes = Missing \/ (load.bytes \in Versions /\ load.fs["primary"] = load.bytes)
    BY <1>4 DEF FromNothing, Bare, Has
  <2> QED  BY <2>1, <2>2 DEF Known, Held
<1> QED  BY <1>1, <1>2, <1>3, <1>4, LoadCases

\* A write that follows a load meets what it relies on.
LEMMA LoadFits ==
  ASSUME NEW fs \in Directories, NEW load, Loads(fs, load), load.status # "Unavailable"
  PROVE  /\ Fits(load.fs, load.status = "Recovered")
         /\ load.fs["primary"] = Torn /\ load.status # "Recovered" => Spare(load.fs) \notin Versions
         /\ load.status = "Valid" => load.fs["primary"] \in Versions
<1> USE FileOpsAssumption
<1>1. /\ fs["primary"] \in Contents /\ Spare(fs) \in Contents /\ fs["displaced"] \in Contents
  BY DirectoryContents, FileNames DEF Spare
<1>2. CASE fs["primary"] \in Versions
  BY <1>2 DEF Loads, FromPrimary, Fits, Has
<1>3. CASE fs["primary"] \notin Versions /\ Spare(fs) \in Versions
  BY <1>3 DEF Loads, FromCopy, Fits, Has
<1>4. CASE fs["primary"] \notin Versions /\ Spare(fs) = Missing /\ fs["displaced"] \in Versions
  BY <1>4 DEF Loads, FromDisplaced, Fits, Has
<1>5. CASE /\ fs["primary"] \notin Versions /\ Spare(fs) \notin Versions
           /\ ~(Spare(fs) = Missing /\ fs["displaced"] \in Versions)
  <2>1. FromNothing(fs, load)
    BY <1>1, <1>5 DEF Loads, Contents
  <2>2. load.status = "Missing" => ~Has(load.fs, "displaced") /\ ~Has(load.fs, "primary")
    BY <2>1, FileNames DEF FromNothing
  <2>3. Spare(load.fs) = Spare(fs)
    BY <2>1 DEF FromNothing
  <2> QED  BY <1>5, <2>1, <2>2, <2>3 DEF FromNothing, Fits, Has
<1> QED  BY <1>1, <1>2, <1>3, <1>4, <1>5

LEMMA WriteWhole ==
  ASSUME NEW fs \in Directories, NEW gs, NEW bytes \in Versions, NEW keep \in BOOLEAN,
         Whole(fs), Fits(fs, keep), Written(fs, gs, bytes, keep),
         fs["primary"] = Torn /\ ~keep => Spare(fs) \notin Versions
  PROVE  Whole(gs)
<1> USE FileOpsAssumption
<1>1. /\ fs["primary"] \in Contents /\ Spare(fs) \in Contents
      /\ fs["temp"] \in Contents /\ fs["displaced"] \in Contents
  BY DirectoryContents, FileNames DEF Spare
<1> QED  BY <1>1 DEF Written, Whole, Fits, Has, Contents

LEMMA WriteKeeps ==
  ASSUME NEW fs \in Directories, NEW gs \in Directories, NEW bytes \in Versions,
         NEW keep \in BOOLEAN, NEW s, NEW t, NEW p, Whole(fs), Known(fs, s, t, p), Fits(fs, keep),
         Written(fs, gs, bytes, keep), fs["primary"] = Torn /\ ~keep => Spare(fs) \notin Versions,
         keep /\ s # Missing => Backed(fs, s, t)
  PROVE  /\ Known(gs, s, t \cup {bytes}, p)
         /\ keep /\ Backed(fs, s, t) => Backed(gs, s, t \cup {bytes})
<1> USE FileOpsAssumption
<1>1. /\ fs["primary"] \in Contents /\ Spare(fs) \in Contents
      /\ fs["temp"] \in Contents /\ fs["displaced"] \in Contents
  BY DirectoryContents, FileNames DEF Spare
<1>2. s # Missing => fs["primary"] \in Versions \/ Spare(fs) \in Versions
  BY DEF Known, Held
<1>4. CASE s = Missing
  <2>1. Known(gs, s, t \cup {bytes}, p)
    BY <1>4 DEF Known
  <2>2. keep /\ Spare(fs) \in Versions => Spare(gs) = Spare(fs)
    BY DEF Written
  <2> QED  BY <1>4, <2>1, <2>2 DEF Backed
<1>5. CASE s # Missing
  <2>1. \/ gs["primary"] = fs["primary"] /\ Spare(gs) = Spare(fs)
        \/ /\ fs["primary"] \in Versions /\ ~keep
           /\ gs["primary"] \in {Missing, bytes} /\ Spare(gs) = fs["primary"]
        \/ /\ Spare(fs) # Missing /\ Spare(gs) = Spare(fs)
           /\ gs["primary"] \in {Missing, bytes} /\ (keep \/ ~Has(fs, "primary"))
    BY <1>1, <1>2, <1>5 DEF Written, Whole, Backed, Has, Contents
  <2>2. Known(gs, s, t \cup {bytes}, p)
    BY <1>2, <1>5, <2>1 DEF Known, Held, Backed, Has
  <2> QED  BY <1>5, <2>1, <2>2 DEF Backed
<1> QED  BY <1>4, <1>5

LEMMA WriteAcknowledges ==
  ASSUME NEW fs \in Directories, NEW gs \in Directories, NEW bytes \in Versions,
         NEW keep \in BOOLEAN, TypeOK, Whole(fs), Known(fs, stored, tried, prior), Fits(fs, keep),
         Written(fs, gs, bytes, keep), fs["primary"] = Torn /\ ~keep => Spare(fs) \notin Versions,
         keep /\ stored # Missing => Backed(fs, stored, tried), gs["primary"] = bytes
  PROVE  Known(gs, bytes, {}, PriorTo(bytes))
<1> USE FileOpsAssumption
<1>1. fs["primary"] \in Contents /\ Spare(fs) \in Contents
  BY DirectoryContents, FileNames DEF Spare
<1>2. /\ stored # Missing => fs["primary"] \in Versions \/ Spare(fs) \in Versions
      /\ prior # {} => stored # Missing
  BY DEF Known, Held
<1>3. CASE stored = Missing
  BY <1>2, <1>3, PriorToCases DEF Known, Held
<1>4. CASE stored # Missing
  <2>1. \/ gs["primary"] = fs["primary"] /\ Spare(gs) = Spare(fs)
        \/ /\ fs["primary"] \in Versions /\ ~keep /\ Spare(gs) = fs["primary"]
        \/ Spare(fs) # Missing /\ Spare(gs) = Spare(fs) /\ (keep \/ ~Has(fs, "primary"))
    BY <1>1, <1>2, <1>4 DEF Written, Whole, Backed, Has, Contents
  <2>2. CASE bytes # stored
    <3>1. PriorTo(bytes) = ({stored} \cup tried) \ {bytes}
      BY <1>2, <1>4, <2>2, PriorToCases
    <3>2. Spare(gs) \in {stored} \cup tried
      BY <1>4, <2>1, <2>2 DEF Known, Held, Backed, Has
    <3> QED  BY <3>1, <3>2 DEF Known, Held
  <2>3. CASE bytes = stored
    <3>1. PriorTo(bytes) = IF prior = {} THEN {} ELSE (prior \cup tried) \ {bytes}
      BY <1>2, <1>4, <2>3, PriorToCases
    <3>2. prior # {} => Spare(gs) \in {stored} \cup tried \cup prior
      BY <1>4, <2>1 DEF Known, Held, Backed, Has
    <3> QED  BY <2>3, <3>1, <3>2 DEF Known, Held
  <2> QED  BY <2>2, <2>3
<1> QED  BY <1>3, <1>4

\* A load that found a layout leaves one; that found none, nothing at all.
LEMMA LoadSettles ==
  ASSUME NEW fs \in Directories, NEW load, Loads(fs, load), Whole(fs)
  PROVE  /\ load.status # "Unavailable"
              => \/ load.fs["primary"] \in Versions \/ Spare(load.fs) \in Versions
                 \/ \A f \in Files : ~Has(load.fs, f)
         /\ (Bare(fs) => ~Has(fs, "displaced")) /\ Bare(load.fs)
              => Bare(fs) /\ ~Has(load.fs, "displaced")
<1> USE FileOpsAssumption
<1>1. CASE fs["primary"] \in Versions /\ FromPrimary(fs, load)
  BY <1>1 DEF FromPrimary, Bare, Has
<1>2. CASE fs["primary"] \notin Versions /\ Spare(fs) \in Versions /\ FromCopy(fs, load)
  BY <1>2 DEF FromCopy, Bare
<1>3. CASE Bare(fs) /\ fs["displaced"] \in Versions /\ FromDisplaced(fs, load)
  BY <1>3 DEF FromDisplaced, Bare, Has
<1>4. CASE /\ Bare(fs) /\ ~Has(fs, "displaced") /\ fs["temp"] \in Versions \cup {Missing}
           /\ FromNothing(fs, load)
  BY <1>4 DEF FromNothing, Bare, Has
<1> QED  BY <1>1, <1>2, <1>3, <1>4, LoadCases

\* A session is based on torn bytes only where no layout is left to recover.
LEMMA LoadTorn ==
  ASSUME NEW fs \in Directories, NEW load, Loads(fs, load), load.status # "Unavailable",
         RevisionOf(load) = Torn
  PROVE  /\ Spare(load.fs) \notin Versions /\ load.fs["displaced"] \notin Versions
         /\ load.status = "CorruptPreserved"
<1> USE FileOpsAssumption
<1>0. /\ fs["primary"] \in Contents /\ Spare(fs) \in Contents /\ fs["displaced"] \in Contents
      /\ Elsewhere # Torn
  BY DirectoryContents, FileNames, LayoutFileAssumption, ContentsNames DEF Spare
<1>1. load.source = "primary" /\ load.fs["primary"] = Torn
  BY <1>0 DEF RevisionOf
<1>2. fs["primary"] \notin Versions
  BY <1>1 DEF Loads, FromPrimary
<1>3. Spare(fs) \notin Versions
  BY <1>1, <1>2 DEF Loads, FromCopy
<1>4. ~(Spare(fs) = Missing /\ fs["displaced"] \in Versions)
  BY <1>1, <1>2 DEF Loads, FromDisplaced
<1>5. FromNothing(fs, load)
  BY <1>0, <1>2, <1>3, <1>4 DEF Loads, Contents
<1>6. load.status \notin {"Missing", "Recovered"}
  BY <1>1, <1>5, FileNames DEF FromNothing, Has
<1> QED  BY <1>3, <1>5, <1>6 DEF FromNothing, Has

LEMMA WriteSettles ==
  ASSUME NEW fs, NEW gs, NEW bytes \in Versions, NEW keep \in BOOLEAN,
         Written(fs, gs, bytes, keep), keep => Spare(fs) # Missing
  PROVE  Bare(gs) => Bare(fs) /\ ~Has(gs, "displaced")
BY FileOpsAssumption DEF Written, Bare, Has

-----------------------------------------------------------------------------
(* The invariant holds initially, and every action keeps it. *)

LEMMA InitInv == Init => IInv
<1> USE FileOpsAssumption
<1> SUFFICES ASSUME Init PROVE IInv
  OBVIOUS
<1>1. dir \in Directories /\ \A f \in Files : ~Has(dir, f)
  BY DEF Init, Directories, Contents, Has
<1>2. Sane(dir) /\ Spare(dir) = Missing /\ dir["primary"] = Missing /\ dir["displaced"] = Missing
      /\ dir["temp"] = Missing
  BY <1>1, FileNames DEF Sane, Spare, Has
<1>3. TypeOK
  BY <1>1 DEF Init, TypeOK, Contents
<1>4. Session /\ Undamaged
  BY <1>1, <1>2 DEF Init, Session, Undamaged, Whole, Known, Bare, Has
<1> QED  BY <1>2, <1>3, <1>4 DEF IInv

LEMMA RestartStep == IInv /\ Restart => IInv'
<1> SUFFICES ASSUME IInv, Restart PROVE IInv'
  OBVIOUS
<1> USE FileOpsAssumption
<1>1. TypeOK'
  BY DEF IInv, TypeOK, Restart, told, Contents
<1>2. Sane(dir)' /\ Session'
  BY DEF IInv, Session, Restart
<1>3. Undamaged => Undamaged'
  BY DEF Undamaged, Restart, told
<1> QED  BY <1>1, <1>2, <1>3 DEF IInv, Restart, told

\* Damage leaves the copies, and the copy is one of the layouts before.
LEMMA DamageStep == IInv /\ Damage => IInv'
<1> SUFFICES ASSUME IInv, Damage PROVE IInv'
  OBVIOUS
<1> USE FileOpsAssumption
<1>1. PICK bytes \in {Torn, Missing} : dir' = Put(dir, "primary", bytes)
  BY DEF Damage
<1>2. /\ dir' \in Directories /\ dir'["primary"] = bytes
      /\ \A f \in Files \ {"primary"} : dir'[f] = dir[f]
  BY <1>1, PutInDirectories, ContentsNames, FileNames DEF IInv, TypeOK, Put, Directories, Files
<1>3. Spare(dir') = Spare(dir) /\ (Sane(dir) => Sane(dir'))
  BY <1>2 DEF Spare, Sane, Has, Files
<1>4. TypeOK'
  BY <1>2 DEF IInv, TypeOK, Damage, memory
<1>5. Session'
  BY <1>2, <1>3, FileNames DEF IInv, Session, Damage, memory, Files
<1>6. ASSUME intact' PROVE Undamaged'
  <2>1. /\ stored # Missing /\ Spare(dir) \in {stored} \cup tried \cup prior
        /\ Spare(dir) \in Versions
    BY <1>6 DEF IInv, Undamaged, Known, Damage, TypeOK
  <2>2. Whole(dir')
    BY <1>2, <1>3, <2>1 DEF Whole
  <2>3. Known(dir', stored, tried \cup prior, {}) /\ Backed(dir', stored, tried \cup prior)
    BY <1>2, <1>3, <2>1 DEF Known, Held, Backed
  <2> QED
    BY <1>3, <2>1, <2>2, <2>3 DEF Undamaged, Damage, Bare
<1> QED  BY <1>3, <1>4, <1>5, <1>6 DEF IInv

LEMMA LoadManualStep == IInv /\ LoadManual => IInv'
<1> SUFFICES ASSUME IInv, LoadManual PROVE IInv'
  OBVIOUS
<1> USE FileOpsAssumption
<1>1. PICK load \in LoadLayoutWithBackupLocked(dir) : dir' = load.fs /\ LearnLoad(load)
  BY DEF LoadManual
<1>2. /\ kind = "manual" /\ phase = "down" /\ preserve = FALSE
      /\ UNCHANGED <<kind, legacy, memory>>
  BY DEF LoadManual, IInv, Session, TypeOK
<1>3. dir \in Directories /\ Loads(dir, load)
  BY LoadSteps DEF IInv, TypeOK
<1>4. dir' \in Directories /\ Sane(dir')
  BY <1>1, <1>3 DEF Loads
<1>5. CASE load.status = "Unavailable"
  <2>1. UNCHANGED told
    BY <1>1, <1>5 DEF LearnLoad, LearnNothing
  <2>2. TypeOK' /\ Session'
    BY <1>2, <1>4, <2>1 DEF IInv, TypeOK, Session, memory, told
  <2>3. ASSUME intact PROVE Undamaged'
    <3>1. Whole(dir') /\ Known(dir', stored, tried, prior)
      BY <1>1, <1>3, <2>3, LoadKeeps DEF IInv, Undamaged
    <3> QED  BY <1>2, <2>1, <3>1 DEF Undamaged, told, memory
  <2> QED  BY <1>4, <2>1, <2>2, <2>3 DEF IInv, told
<1>6. CASE load.status # "Unavailable"
  <2>1. /\ stored' = load.bytes /\ tried' = {} /\ intact' = intact
        /\ prior' = IF load.bytes = stored THEN PriorTo(stored) ELSE {}
    BY <1>1, <1>6 DEF LearnLoad
  <2>2. load.bytes \in Versions \cup {Missing}
    BY <1>3, <1>6, LoadTypes
  <2>3. prior' \subseteq Versions
    <3>1. stored \in Versions \cup {Missing} /\ tried \subseteq Versions /\ prior \subseteq Versions
      BY DEF IInv, TypeOK
    <3>2. PriorTo(stored) \subseteq Versions
      BY <3>1 DEF PriorTo
    <3> QED  BY <2>1, <3>2
  <2>4. TypeOK' /\ Session'
    BY <1>2, <1>4, <2>1, <2>2, <2>3 DEF IInv, TypeOK, Session, memory
  <2>5. ASSUME intact PROVE Undamaged'
    <3>1. Whole(dir') /\ Known(dir', load.bytes, {}, prior')
      BY <1>1, <1>3, <1>6, <2>1, <2>5, LoadKeeps, LoadLearns DEF IInv, Undamaged
    <3> QED  BY <1>2, <2>1, <3>1 DEF Undamaged, memory
  <2> QED  BY <1>4, <2>1, <2>4, <2>5 DEF IInv
<1> QED  BY <1>5, <1>6


LEMMA PriorToTypes ==
  ASSUME TypeOK, NEW bytes \in Versions
  PROVE  PriorTo(bytes) \subseteq Versions
<1> USE FileOpsAssumption DEF TypeOK
<1>1. CASE stored = Missing
  BY <1>1 DEF PriorTo
<1>2. CASE stored # Missing /\ bytes # stored
  BY <1>2 DEF PriorTo
<1>3. CASE stored # Missing /\ bytes = stored
  BY <1>3 DEF PriorTo
<1> QED  BY <1>1, <1>2, <1>3

\* A load that kept the told layouts, and a write that follows it.
LEMMA SaveManualStep == ASSUME NEW v \in Versions PROVE IInv /\ SaveManual(v) => IInv'
<1> SUFFICES ASSUME IInv, SaveManual(v) PROVE IInv'
  OBVIOUS
<1> USE FileOpsAssumption
<1>1. PICK load \in LoadLayoutWithBackupLocked(dir) :
          \/ /\ load.status = "Unavailable"
             /\ dir' = load.fs
             /\ LearnNothing
          \/ /\ load.status # "Unavailable"
             /\ \E write \in AtomicWriteText(load.fs, v, load.status = "Recovered") :
                   /\ dir' = write.fs
                   /\ IF write.ok THEN Acknowledge(v) ELSE Attempt(v)
  BY DEF SaveManual
<1>2. /\ kind = "manual" /\ phase = "down" /\ preserve = FALSE
      /\ UNCHANGED <<kind, legacy, memory>>
  BY DEF SaveManual, IInv, Session, TypeOK
<1>3. dir \in Directories /\ Loads(dir, load)
  BY LoadSteps DEF IInv, TypeOK
<1>4. /\ load.fs \in Directories /\ Sane(load.fs)
      /\ stored \in Versions \cup {Missing} /\ tried \in SUBSET Versions /\ prior \in SUBSET Versions
  BY <1>3 DEF Loads, IInv, TypeOK
<1>5. CASE load.status = "Unavailable"
  <2>1. dir' = load.fs /\ UNCHANGED told
    BY <1>1, <1>5 DEF LearnNothing
  <2>2. TypeOK' /\ Session'
    BY <1>2, <1>4, <2>1 DEF IInv, TypeOK, Session, memory, told
  <2>3. ASSUME intact PROVE Undamaged'
    <3>1. Whole(dir') /\ Known(dir', stored, tried, prior)
      BY <1>3, <2>1, <2>3, LoadKeeps DEF IInv, Undamaged
    <3> QED  BY <1>2, <2>1, <3>1 DEF Undamaged, told, memory
  <2> QED  BY <1>4, <2>1, <2>2, <2>3 DEF IInv, told
<1>6. CASE load.status # "Unavailable"
  <2> DEFINE keep == load.status = "Recovered"
             fs == load.fs
  <2>1. PICK write \in AtomicWriteText(fs, v, keep) :
          dir' = write.fs /\ IF write.ok THEN Acknowledge(v) ELSE Attempt(v)
    BY <1>1, <1>6
  <2>2. Fits(fs, keep) /\ (fs["primary"] = Torn /\ ~keep => Spare(fs) \notin Versions)
    BY <1>3, <1>6, LoadFits
  <2>3. keep \in BOOLEAN
    OBVIOUS
  <2>4. ASSUME intact
        PROVE  /\ Whole(fs) /\ Known(fs, stored, tried, prior)
               /\ keep /\ stored # Missing => Backed(fs, stored, tried)
    <3>1. Whole(dir) /\ Known(dir, stored, tried, prior) /\ TypeOK
      BY <2>4 DEF IInv, Undamaged
    <3>2. Whole(fs) /\ Known(fs, stored, tried, prior)
      BY <1>3, <3>1, LoadKeeps
    <3>3. keep /\ Spare(dir) \in Versions => Backed(fs, stored, tried)
      BY <1>3, <1>6, <3>1, LoadLearns
    <3>4. keep /\ stored # Missing => Spare(dir) \in Versions
      BY <1>3, <3>1 DEF Loads, FromPrimary, Known, Held
    <3> QED  BY <3>2, <3>3, <3>4
  <2>5. fs \in Directories /\ Sane(fs)
    BY <1>4
  <2> HIDE DEF keep, fs
  <2>6. /\ SaneEnd(write)
        /\ write.ok => write.fs["primary"] = v
        /\ Written(fs, write.fs, v, keep)
    BY <2>1, <2>2, <2>3, <2>5, WriteSteps
  <2>7. dir' \in Directories /\ Sane(dir')
    BY <2>1, <2>6 DEF SaneEnd
  <2>8. ASSUME intact
         PROVE  Whole(dir') /\ Known(dir', stored, tried \cup {v}, prior)
    <3> DEFINE gs == dir'
    <3>1. gs \in Directories /\ Written(fs, gs, v, keep)
      BY <2>1, <2>6, <2>7
    <3>2. Whole(fs) /\ Known(fs, stored, tried, prior)
      BY <2>4, <2>8
    <3>3. keep /\ stored # Missing => Backed(fs, stored, tried)
      BY <2>4, <2>8
    <3> HIDE DEF gs
    <3>4. Whole(gs)
      BY <2>2, <2>3, <2>5, <3>1, <3>2, WriteWhole
    <3>5. Known(gs, stored, tried \cup {v}, prior)
      BY <2>2, <2>3, <2>5, <3>1, <3>2, <3>3, WriteKeeps
    <3> QED  BY <3>4, <3>5 DEF gs
  <2>9. CASE write.ok
    <3>1. stored' = v /\ prior' = PriorTo(v) /\ tried' = {} /\ intact' = intact
      BY <2>1, <2>9 DEF Acknowledge
    <3>2. PriorTo(v) \subseteq Versions
      BY PriorToTypes DEF IInv
    <3>3. TypeOK' /\ Session'
      BY <1>2, <2>7, <3>1, <3>2 DEF IInv, TypeOK, Session, memory
    <3>4. ASSUME intact PROVE Undamaged'
      <4>1. Known(dir', v, {}, PriorTo(v))
        BY <2>1, <2>2, <2>3, <2>4, <2>5, <2>6, <2>7, <2>9, <3>4, WriteAcknowledges DEF IInv
      <4>2. Whole(dir')
        BY <2>8, <3>4
      <4> QED  BY <1>2, <3>1, <4>1, <4>2 DEF Undamaged, memory
    <3> QED  BY <2>7, <3>1, <3>3, <3>4 DEF IInv
  <2>10. CASE ~write.ok
    <3>1. stored' = stored /\ prior' = prior /\ tried' = tried \cup {v} /\ intact' = intact
      BY <2>1, <2>10 DEF Attempt
    <3>2. TypeOK' /\ Session'
      BY <1>2, <2>7, <3>1 DEF IInv, TypeOK, Session, memory
    <3>3. ASSUME intact PROVE Undamaged'
      <4>1. Whole(dir') /\ Known(dir', stored, tried \cup {v}, prior)
        BY <2>8, <3>3
      <4> QED  BY <1>2, <3>1, <4>1 DEF Undamaged, memory
    <3> QED  BY <2>7, <3>1, <3>2, <3>3 DEF IInv
  <2> QED  BY <2>9, <2>10
<1> QED  BY <1>5, <1>6

LEMMA MigrateStep == IInv /\ Migrate => IInv'
<1> SUFFICES ASSUME IInv, Migrate PROVE IInv'
  OBVIOUS
<1> USE FileOpsAssumption
<1>1. PICK load \in LoadLayoutWithBackupLocked(dir) :
          \/ /\ load.status # "Missing" \/ legacy = Missing
             /\ dir' = load.fs
             /\ phase' = IF load.status = "Unavailable" THEN "down" ELSE "migrated"
             /\ LearnNothing
             /\ UNCHANGED legacy
          \/ /\ load.status = "Missing" /\ legacy # Missing
             /\ \E write \in AtomicWriteText(load.fs, legacy, FALSE) :
                   \/ /\ ~write.ok
                      /\ dir' = write.fs
                      /\ Attempt(legacy)
                      /\ UNCHANGED <<legacy, phase>>
                   \/ /\ write.ok
                      /\ \E again \in LoadLayoutWithBackupLocked(write.fs) :
                            /\ dir' = again.fs
                            /\ Acknowledge(legacy)
                            /\ IF again.status = "Valid"
                               THEN phase' = "migrated" /\ legacy' \in {legacy, Missing}
                               ELSE UNCHANGED <<legacy, phase>>
  BY DEF Migrate
<1>2. /\ kind = "auto" /\ phase = "down" /\ preserve = FALSE /\ candidate = Missing
      /\ UNCHANGED <<kind, revision, candidate, preserve>>
  BY DEF Migrate, IInv, Session, TypeOK
<1>3. dir \in Directories /\ Loads(dir, load)
  BY LoadSteps DEF IInv, TypeOK
<1>4. /\ load.fs \in Directories /\ Sane(load.fs)
      /\ stored \in Versions \cup {Missing} /\ tried \in SUBSET Versions /\ prior \in SUBSET Versions
  BY <1>3 DEF Loads, IInv, TypeOK
<1>5. ASSUME intact
      PROVE  /\ Whole(load.fs) /\ Known(load.fs, stored, tried, prior)
             /\ Bare(load.fs) => ~Has(load.fs, "displaced")
  <2>1. /\ Whole(dir) /\ Known(dir, stored, tried, prior)
        /\ Bare(dir) => ~Has(dir, "displaced")
    BY <1>2, <1>5 DEF IInv, Undamaged
  <2> QED  BY <1>3, <2>1, LoadKeeps, LoadSettles
<1>6. CASE /\ load.status # "Missing" \/ legacy = Missing
           /\ dir' = load.fs
           /\ phase' = IF load.status = "Unavailable" THEN "down" ELSE "migrated"
           /\ LearnNothing
           /\ UNCHANGED legacy
  <2>1. TypeOK' /\ Session'
    BY <1>2, <1>4, <1>6 DEF IInv, TypeOK, Session, LearnNothing, told
  <2>2. ASSUME intact PROVE Undamaged'
    <3>1. phase' = "migrated" =>
            \/ dir'["primary"] \in Versions \/ Spare(dir') \in Versions
            \/ \A f \in Files : ~Has(dir', f)
      BY <1>3, <1>6, <2>2, LoadSettles DEF IInv, Undamaged
    <3> QED  BY <1>2, <1>5, <1>6, <2>2, <3>1 DEF Undamaged, LearnNothing, told
  <2> QED  BY <1>4, <1>6, <2>1, <2>2 DEF IInv, LearnNothing, told
<1>7. CASE /\ load.status = "Missing" /\ legacy # Missing
           /\ \E write \in AtomicWriteText(load.fs, legacy, FALSE) :
                 \/ /\ ~write.ok
                    /\ dir' = write.fs
                    /\ Attempt(legacy)
                    /\ UNCHANGED <<legacy, phase>>
                 \/ /\ write.ok
                    /\ \E again \in LoadLayoutWithBackupLocked(write.fs) :
                          /\ dir' = again.fs
                          /\ Acknowledge(legacy)
                          /\ IF again.status = "Valid"
                             THEN phase' = "migrated" /\ legacy' \in {legacy, Missing}
                             ELSE UNCHANGED <<legacy, phase>>
  <2> DEFINE fs == load.fs
  <2>1. PICK write \in AtomicWriteText(fs, legacy, FALSE) :
                 \/ /\ ~write.ok
                    /\ dir' = write.fs
                    /\ Attempt(legacy)
                    /\ UNCHANGED <<legacy, phase>>
                 \/ /\ write.ok
                    /\ \E again \in LoadLayoutWithBackupLocked(write.fs) :
                          /\ dir' = again.fs
                          /\ Acknowledge(legacy)
                          /\ IF again.status = "Valid"
                             THEN phase' = "migrated" /\ legacy' \in {legacy, Missing}
                             ELSE UNCHANGED <<legacy, phase>>
    BY <1>7
  <2> DEFINE gs == write.fs
  <2>2. /\ Fits(fs, FALSE) /\ (fs["primary"] = Torn => Spare(fs) \notin Versions)
        /\ legacy \in Versions /\ FALSE \in BOOLEAN
    <3>1. load.status # "Unavailable" /\ load.status # "Recovered"
      BY <1>7
    <3>2. Fits(fs, load.status = "Recovered")
      BY <1>3, <3>1, LoadFits
    <3>3. Fits(fs, FALSE)
      BY <3>1, <3>2
    <3> QED  BY <1>3, <1>7, <3>1, <3>3, LoadFits DEF IInv, TypeOK
  <2>3. fs \in Directories /\ Sane(fs)
    BY <1>4
  <2> HIDE DEF fs
  <2>4. /\ SaneEnd(write)
        /\ write.ok => write.fs["primary"] = legacy
        /\ Written(fs, write.fs, legacy, FALSE)
    BY <2>1, <2>2, <2>3, WriteSteps
  <2>5. /\ gs \in Directories /\ Sane(gs) /\ Written(fs, gs, legacy, FALSE)
        /\ write.ok => gs["primary"] = legacy
    BY <2>4 DEF SaneEnd
  <2>6. ASSUME intact PROVE Whole(fs) /\ Known(fs, stored, tried, prior)
    BY <1>5, <2>6 DEF fs
  <2>7. Bare(gs) => ~Has(gs, "displaced")
    <3> HIDE DEF gs
    <3> QED  BY <2>2, <2>5, WriteSettles
  <2>8. ASSUME intact
        PROVE  Whole(gs) /\ Known(gs, stored, tried \cup {legacy}, prior)
    <3> HIDE DEF gs
    <3>1. Whole(gs)
      BY <2>2, <2>3, <2>5, <2>6, <2>8, WriteWhole
    <3>2. Known(gs, stored, tried \cup {legacy}, prior)
      BY <2>2, <2>3, <2>5, <2>6, <2>8, WriteKeeps
    <3> QED  BY <3>1, <3>2
  <2>9. CASE ~write.ok
    <3>1. /\ dir' = gs /\ UNCHANGED <<legacy, phase>>
          /\ stored' = stored /\ prior' = prior /\ tried' = tried \cup {legacy} /\ intact' = intact
      BY <2>1, <2>9 DEF Attempt
    <3>2. TypeOK' /\ Session'
      BY <1>2, <2>2, <2>5, <3>1 DEF IInv, TypeOK, Session
    <3>3. ASSUME intact PROVE Undamaged'
      BY <1>2, <2>7, <2>8, <3>1, <3>3 DEF Undamaged
    <3> QED  BY <2>5, <3>1, <3>2, <3>3 DEF IInv
  <2>10. CASE write.ok
    <3>1. PICK again \in LoadLayoutWithBackupLocked(gs) :
                          /\ dir' = again.fs
                          /\ Acknowledge(legacy)
                          /\ IF again.status = "Valid"
                             THEN phase' = "migrated" /\ legacy' \in {legacy, Missing}
                             ELSE UNCHANGED <<legacy, phase>>
      BY <2>1, <2>10
    <3>2. /\ stored' = legacy /\ prior' = PriorTo(legacy) /\ tried' = {} /\ intact' = intact
          /\ phase' \in {"down", "migrated"} /\ legacy' \in {legacy, Missing}
      BY <1>2, <3>1 DEF Acknowledge
    <3>3. gs["primary"] = legacy
      BY <2>5, <2>10
    <3> HIDE DEF gs
    <3>4. Loads(gs, again)
      BY <2>5, <3>1, LoadSteps
    <3>5. /\ dir' \in Directories /\ Sane(dir') /\ dir'["primary"] = legacy
      BY <2>2, <3>1, <3>3, <3>4 DEF Loads, FromPrimary
    <3>6. PriorTo(legacy) \subseteq Versions
      BY <2>2, PriorToTypes DEF IInv
    <3>7. TypeOK' /\ Session'
      BY <1>2, <2>2, <3>2, <3>5, <3>6 DEF IInv, TypeOK, Session
    <3>8. ASSUME intact PROVE Undamaged'
      <4>1. Known(gs, legacy, {}, PriorTo(legacy))
        BY <2>2, <2>3, <2>5, <2>6, <3>3, <3>8, WriteAcknowledges DEF IInv
      <4>2. Whole(dir') /\ Known(dir', legacy, {}, PriorTo(legacy))
        BY <2>5, <2>8, <3>1, <3>4, <3>8, <4>1, LoadKeeps
      <4>3. ~Bare(dir')
        BY <2>2, <3>5 DEF Bare, Has
      <4> QED  BY <1>2, <2>2, <3>2, <3>5, <4>2, <4>3 DEF Undamaged
    <3> QED  BY <3>2, <3>5, <3>7, <3>8 DEF IInv
  <2> QED  BY <2>4, <2>9, <2>10 DEF SaneEnd
<1> QED  BY <1>1, <1>6, <1>7

LEMMA LoadAutoLayoutStep == IInv /\ LoadAutoLayout => IInv'
<1> SUFFICES ASSUME IInv, LoadAutoLayout PROVE IInv'
  OBVIOUS
<1> USE FileOpsAssumption
<1>1. PICK load \in LoadLayoutWithBackupLocked(dir) :
          /\ dir' = load.fs
          /\ LearnLoad(load)
          /\ IF load.status = "Unavailable"
             THEN phase' = "down" /\ UNCHANGED <<revision, candidate, preserve>>
             ELSE /\ phase' = "running"
                  /\ revision' = RevisionOf(load)
                  /\ candidate' = Missing
                  /\ preserve' = (load.status = "Recovered")
  BY DEF LoadAutoLayout
<1>2. /\ kind = "auto" /\ phase = "migrated" /\ preserve = FALSE /\ candidate = Missing
      /\ UNCHANGED <<kind, legacy>>
  BY DEF LoadAutoLayout, IInv, Session, TypeOK
<1>3. dir \in Directories /\ Loads(dir, load)
  BY LoadSteps DEF IInv, TypeOK
<1>4. dir' \in Directories /\ Sane(dir')
  BY <1>1, <1>3 DEF Loads
<1>5. ASSUME intact
      PROVE  /\ Whole(dir) /\ Known(dir, stored, tried, prior) /\ Whole(dir')
             /\ Bare(dir') => Bare(dir) /\ ~Has(dir', "displaced")
             /\ load.status = "Recovered" => Spare(dir) \in Versions
  <2>1. /\ Whole(dir) /\ Known(dir, stored, tried, prior)
        /\ Bare(dir) => ~Has(dir, "displaced")
        /\ \/ dir["primary"] \in Versions \/ Spare(dir) \in Versions
           \/ \A f \in Files : ~Has(dir, f)
    BY <1>2, <1>5 DEF IInv, Undamaged
  <2>2. Whole(dir') /\ (Bare(dir') => Bare(dir) /\ ~Has(dir', "displaced"))
    BY <1>1, <1>3, <2>1, LoadKeeps, LoadSettles
  <2>3. CASE dir["primary"] \in Versions
    BY <1>3, <2>1, <2>2, <2>3 DEF Loads, FromPrimary
  <2>4. CASE \A f \in Files : ~Has(dir, f)
    <3>1. /\ ~Has(dir, "primary") /\ ~Has(dir, "displaced") /\ ~Has(dir, "temp")
          /\ Spare(dir) = Missing
      BY <2>4, FileNames DEF Spare, Has
    <3>2. FromNothing(dir, load)
      BY <1>3, <3>1 DEF Loads, Has
    <3> QED  BY <2>1, <2>2, <3>1, <3>2 DEF FromNothing
  <2> QED  BY <2>1, <2>2, <2>3, <2>4
<1>6. CASE load.status = "Unavailable"
  <2>1. /\ phase' = "down" /\ UNCHANGED <<revision, candidate, preserve>>
        /\ stored' = stored /\ prior' = prior /\ tried' = tried /\ intact' = intact
    BY <1>1, <1>6 DEF LearnLoad, LearnNothing, told
  <2>2. TypeOK' /\ Session'
    BY <1>2, <1>4, <2>1 DEF IInv, TypeOK, Session
  <2>3. ASSUME intact PROVE Undamaged'
    <3>1. Whole(dir') /\ Known(dir', stored, tried, prior)
      BY <1>1, <1>3, <1>5, <2>3, LoadKeeps
    <3> QED  BY <1>2, <1>5, <2>1, <2>3, <3>1 DEF Undamaged
  <2> QED  BY <1>4, <2>1, <2>2, <2>3 DEF IInv
<1>7. CASE load.status # "Unavailable"
  <2>1. /\ stored' = load.bytes /\ tried' = {} /\ intact' = intact
        /\ prior' = IF load.bytes = stored THEN PriorTo(stored) ELSE {}
        /\ phase' = "running" /\ revision' = RevisionOf(load) /\ candidate' = Missing
        /\ preserve' = (load.status = "Recovered")
    BY <1>1, <1>7 DEF LearnLoad
  <2>2. load.bytes \in Versions \cup {Missing} /\ RevisionOf(load) \in Contents \cup {Elsewhere}
    BY <1>3, <1>7, LoadTypes
  <2>3. prior' \subseteq Versions
    <3>1. stored \in Versions \cup {Missing} /\ tried \subseteq Versions /\ prior \subseteq Versions
      BY DEF IInv, TypeOK
    <3>2. PriorTo(stored) \subseteq Versions
      BY <3>1 DEF PriorTo
    <3> QED  BY <2>1, <3>2
  <2>4. TypeOK'
    BY <1>2, <1>4, <2>1, <2>2, <2>3 DEF IInv, TypeOK
  <2>5. Session'
    <3>1. revision' = Torn
            => Spare(dir') \notin Versions /\ dir'["displaced"] \notin Versions /\ ~preserve'
      BY <1>1, <1>3, <1>7, <2>1, LoadTorn
    <3> QED  BY <1>2, <2>1, <3>1 DEF Session
  <2>6. ASSUME intact PROVE Undamaged'
    <3>1. Known(dir', load.bytes, {}, prior')
      BY <1>1, <1>3, <1>5, <1>7, <2>1, <2>6, LoadLearns DEF IInv
    <3>2. preserve' => Backed(dir', load.bytes, {})
      BY <1>1, <1>3, <1>5, <1>7, <2>1, <2>6, LoadLearns DEF IInv
    <3>3. Bare(dir') => revision' = Missing /\ ~Has(dir', "displaced")
      <4>1. SUFFICES ASSUME Bare(dir') PROVE revision' = Missing
        BY <1>5, <2>6
      <4>2. Bare(dir) /\ dir["primary"] \notin Versions
        BY <1>5, <2>6, <4>1 DEF Bare, Has
      <4>3. ~Has(dir, "displaced")
        BY <1>2, <2>6, <4>2 DEF IInv, Undamaged
      <4>4. FromNothing(dir, load)
        BY <1>3, <4>2, <4>3 DEF Loads, Bare, Has
      <4> QED  BY <1>1, <2>1, <4>1, <4>4 DEF FromNothing, RevisionOf, Bare, Has
    <3> QED  BY <1>2, <1>5, <2>1, <2>6, <3>1, <3>2, <3>3 DEF Undamaged
  <2> QED  BY <1>4, <2>1, <2>4, <2>5, <2>6 DEF IInv
<1> QED  BY <1>6, <1>7

\* What the write of a running session starts from.
LEMMA RebaseSteps ==
  ASSUME IInv, kind = "auto", phase = "running", NEW base \in Rebase
  PROVE  /\ base.fs \in Directories /\ Sane(base.fs)
         /\ base.revision \in Contents \cup {Elsewhere} /\ base.preserve \in BOOLEAN
         /\ base.go /\ base.fs["primary"] = Torn /\ ~base.preserve
              => Spare(base.fs) \notin Versions
         /\ base.go /\ base.revision = Torn
              => /\ Spare(base.fs) \notin Versions /\ base.fs["displaced"] \notin Versions
                 /\ ~base.preserve /\ base.fs["primary"] = Torn
         /\ ~base.go /\ revision = Torn
              => Spare(base.fs) \notin Versions /\ base.fs["displaced"] \notin Versions
         /\ intact
              => /\ Whole(base.fs) /\ Known(base.fs, stored, tried, prior)
                 /\ base.preserve => Backed(base.fs, stored, tried)
                 /\ preserve => base.preserve
                 /\ Bare(base.fs)
                      => base.go /\ base.revision = Missing /\ ~Has(base.fs, "displaced")
                 /\ base.clean => base.go
<1> USE FileOpsAssumption
<1>0. /\ TypeOK /\ Sane(dir) /\ Session /\ dir \in Directories /\ dir["primary"] \in Contents
      /\ preserve \in BOOLEAN
  BY DirectoryContents, FileNames DEF IInv, TypeOK
<1>1. CASE dir["primary"] = revision \/ (candidate # Missing /\ dir["primary"] = candidate)
  <2>1. base = [fs |-> dir, clean |-> TRUE, go |-> TRUE, revision |-> dir["primary"],
                preserve |-> preserve]
    BY <1>1 DEF Rebase
  <2>2. /\ base.fs = dir /\ base.go = TRUE /\ base.revision = dir["primary"]
        /\ base.preserve = preserve
    BY <2>1
  <2>3. dir["primary"] = Torn => revision = Torn
    BY <1>0, <1>1 DEF TypeOK
  <2>4. dir["primary"] = Torn
          => Spare(dir) \notin Versions /\ dir["displaced"] \notin Versions /\ ~preserve
    BY <1>0, <2>3 DEF Session
  <2>5. intact => /\ Whole(dir) /\ Known(dir, stored, tried, prior)
                  /\ preserve => Backed(dir, stored, tried)
                  /\ Bare(dir) => dir["primary"] = Missing /\ ~Has(dir, "displaced")
    BY DEF IInv, Undamaged, Bare, Has
  <2> QED  BY <1>0, <2>2, <2>4, <2>5
<1>2. CASE ~(dir["primary"] = revision \/ (candidate # Missing /\ dir["primary"] = candidate))
  <2>1. PICK load \in LoadLayoutWithBackupLocked(dir) :
          base = [fs |-> load.fs, clean |-> load.clean, go |-> load.status \in usable,
                  revision |-> RevisionOf(load),
                  preserve |-> preserve \/ load.status = "Recovered"]
    BY <1>2 DEF Rebase
  <2>2. /\ base.fs = load.fs /\ base.clean = load.clean /\ base.go = (load.status \in usable)
        /\ base.revision = RevisionOf(load)
        /\ base.preserve = (preserve \/ load.status = "Recovered")
    BY <2>1
  <2>3. Loads(dir, load)
    BY <1>0, LoadSteps
  <2>4. /\ base.fs \in Directories /\ Sane(base.fs)
        /\ base.revision \in Contents \cup {Elsewhere} /\ base.preserve \in BOOLEAN
    BY <1>0, <2>2, <2>3, LoadTypes DEF Loads
  <2>5. base.go => load.status \in {"Valid", "Recovered"}
    BY <2>2 DEF usable
  <2>6. base.go /\ base.fs["primary"] = Torn /\ ~base.preserve => Spare(base.fs) \notin Versions
    BY <1>0, <2>2, <2>3, <2>5, LoadFits
  <2>7. base.go => base.revision # Torn
    BY <1>0, <2>2, <2>3, <2>5, LoadTorn
  <2>8. revision = Torn => Spare(base.fs) \notin Versions /\ base.fs["displaced"] \notin Versions
    <3>1. SUFFICES ASSUME revision = Torn
                   PROVE  Spare(base.fs) \notin Versions /\ base.fs["displaced"] \notin Versions
      OBVIOUS
    <3>2. Spare(dir) \notin Versions /\ dir["displaced"] \notin Versions
      BY <1>0, <3>1 DEF Session
    <3>3. Spare(dir) \in Contents
      BY <1>0, DirectoryContents, FileNames DEF Spare
    <3>4. FromPrimary(dir, load) \/ FromNothing(dir, load)
      BY <2>3, <3>2, <3>3 DEF Loads, Contents
    <3> QED  BY <2>2, <3>2, <3>4 DEF FromPrimary, FromNothing
  <2>9. ASSUME intact
        PROVE  /\ Whole(base.fs) /\ Known(base.fs, stored, tried, prior)
               /\ base.preserve => Backed(base.fs, stored, tried)
               /\ ~Bare(base.fs) /\ (base.clean => base.go)
    <3>1. /\ Whole(dir) /\ Known(dir, stored, tried, prior) /\ ~Bare(dir)
          /\ preserve => Backed(dir, stored, tried)
      BY <1>2, <2>9 DEF IInv, Undamaged, Bare, Has
    <3>2. /\ Whole(base.fs) /\ Known(base.fs, stored, tried, prior) /\ ~Bare(base.fs)
          /\ load.clean => load.status # "Unavailable"
      BY <1>0, <2>2, <2>3, <3>1, LoadKeeps, LoadSettles
    <3>3. \/ dir["primary"] \in Versions /\ FromPrimary(dir, load)
          \/ Spare(dir) \in Versions /\ FromCopy(dir, load)
      BY <1>0, <2>3, <3>1, LoadCases
    <3>4. base.preserve => Backed(base.fs, stored, tried)
      <4>1. preserve => Backed(base.fs, stored, tried)
        BY <2>2, <3>1, <3>3 DEF FromPrimary, FromCopy, Backed
      <4>2. load.status = "Recovered" => Backed(base.fs, stored, tried)
        <5>1. load.status = "Recovered" => Spare(dir) \in Versions
          BY <3>3 DEF FromPrimary
        <5> QED  BY <1>0, <2>2, <2>3, <3>1, <5>1, LoadLearns
      <4> QED  BY <2>2, <4>1, <4>2
    <3>5. load.status # "Unavailable" => load.status \in usable
      BY <3>3 DEF FromPrimary, FromCopy, usable
    <3> QED  BY <2>2, <3>2, <3>4, <3>5
  <2> QED  BY <2>2, <2>4, <2>6, <2>7, <2>8, <2>9
<1> QED  BY <1>1, <1>2

LEMMA PersistStep == ASSUME NEW v \in Versions PROVE IInv /\ PersistAutoLayout(v) => IInv'
<1> SUFFICES ASSUME IInv, PersistAutoLayout(v) PROVE IInv'
  OBVIOUS
<1> USE FileOpsAssumption
<1>1. /\ kind = "auto" /\ phase = "running" /\ UNCHANGED <<kind, legacy, phase>>
      /\ stored \in Versions \cup {Missing} /\ tried \in SUBSET Versions /\ prior \in SUBSET Versions
  BY DEF PersistAutoLayout, IInv, TypeOK
<1>2. PICK base \in Rebase :
          \/ /\ ~base.go
             /\ dir' = base.fs
             /\ candidate' = Missing
             /\ LearnNothing
             /\ UNCHANGED <<revision, preserve>>
          \/ /\ base.go
             /\ dir' = base.fs
             /\ candidate' = Missing
             /\ revision' = base.revision
             /\ preserve' = base.preserve
             /\ LearnNothing
          \/ /\ base.go
             /\ \E write \in AtomicWriteText(base.fs, v, base.preserve) :
                   /\ dir' = write.fs
                   /\ IF write.ok
                      THEN /\ revision' = v
                           /\ candidate' = Missing
                           /\ preserve' = FALSE
                           /\ Acknowledge(v)
                      ELSE /\ revision' = base.revision
                           /\ candidate' = v
                           /\ preserve' = base.preserve
                           /\ Attempt(v)
  BY DEF PersistAutoLayout
<1> DEFINE fs == base.fs
           keep == base.preserve
<1>3. /\ fs \in Directories /\ Sane(fs)
      /\ base.revision \in Contents \cup {Elsewhere} /\ keep \in BOOLEAN
      /\ base.go /\ fs["primary"] = Torn /\ ~keep => Spare(fs) \notin Versions
      /\ base.go /\ base.revision = Torn
           => /\ Spare(fs) \notin Versions /\ fs["displaced"] \notin Versions
              /\ ~keep /\ fs["primary"] = Torn
      /\ ~base.go /\ revision = Torn => Spare(fs) \notin Versions /\ fs["displaced"] \notin Versions
  BY <1>1, RebaseSteps
<1>4. ASSUME intact
      PROVE  /\ Whole(fs) /\ Known(fs, stored, tried, prior)
             /\ keep => Backed(fs, stored, tried)
             /\ preserve => keep
             /\ Bare(fs) => base.go /\ base.revision = Missing /\ ~Has(fs, "displaced")
  BY <1>1, <1>4, RebaseSteps
<1> HIDE DEF fs, keep
<1>5. CASE /\ ~base.go
           /\ dir' = fs
           /\ candidate' = Missing
           /\ LearnNothing
           /\ UNCHANGED <<revision, preserve>>
  <2>1. TypeOK'
    BY <1>1, <1>3, <1>5 DEF IInv, TypeOK, LearnNothing, told
  <2>2. Session'
    BY <1>1, <1>3, <1>5 DEF IInv, Session
  <2>3. ASSUME intact PROVE Undamaged'
    BY <1>1, <1>4, <1>5, <2>3 DEF Undamaged, LearnNothing, told
  <2> QED  BY <1>3, <1>5, <2>1, <2>2, <2>3 DEF IInv, LearnNothing, told
<1>6. CASE /\ base.go
           /\ dir' = fs
           /\ candidate' = Missing
           /\ revision' = base.revision
           /\ preserve' = keep
           /\ LearnNothing
  <2>1. TypeOK'
    BY <1>1, <1>3, <1>6 DEF IInv, TypeOK, LearnNothing, told
  <2>2. Session'
    BY <1>1, <1>3, <1>6 DEF IInv, Session
  <2>3. ASSUME intact PROVE Undamaged'
    BY <1>1, <1>4, <1>6, <2>3 DEF Undamaged, LearnNothing, told
  <2> QED  BY <1>3, <1>6, <2>1, <2>2, <2>3 DEF IInv, LearnNothing, told
<1>7. ASSUME base.go, NEW write \in AtomicWriteText(fs, v, keep), dir' = write.fs,
             IF write.ok
             THEN /\ revision' = v
                  /\ candidate' = Missing
                  /\ preserve' = FALSE
                  /\ Acknowledge(v)
             ELSE /\ revision' = base.revision
                  /\ candidate' = v
                  /\ preserve' = keep
                  /\ Attempt(v)
      PROVE  IInv'
  <2> DEFINE gs == dir'
  <2>1. /\ SaneEnd(write)
        /\ write.ok => write.fs["primary"] = v
        /\ ~keep /\ Has(fs, "primary") => write.fs["displaced"] \in {fs["displaced"], Missing}
        /\ Fits(fs, keep) => Written(fs, write.fs, v, keep)
    BY <1>3, <1>7, WriteSteps
  <2>2. /\ gs \in Directories /\ Sane(gs) /\ write.ok \in BOOLEAN
        /\ write.ok => gs["primary"] = v
        /\ ~keep /\ Has(fs, "primary") => gs["displaced"] \in {fs["displaced"], Missing}
        /\ Fits(fs, keep) => Written(fs, gs, v, keep)
    BY <1>7, <2>1 DEF SaneEnd
  <2>3. base.revision = Torn => /\ Spare(gs) \notin Versions /\ gs["displaced"] \notin Versions
                                /\ ~keep
    <3>1. SUFFICES ASSUME base.revision = Torn
                   PROVE  Spare(gs) \notin Versions /\ gs["displaced"] \notin Versions /\ ~keep
      OBVIOUS
    <3>2. /\ Spare(fs) \notin Versions /\ fs["displaced"] \notin Versions
          /\ ~keep /\ fs["primary"] = Torn
      BY <1>3, <1>7, <3>1
    <3> HIDE DEF gs
    <3>3. Written(fs, gs, v, keep)
      BY <2>2, <3>2 DEF Fits, Has
    <3> QED  BY <2>2, <3>2, <3>3 DEF Written, Has
  <2>4. ASSUME intact
        PROVE  /\ Whole(gs) /\ Known(gs, stored, tried \cup {v}, prior)
               /\ keep => Backed(gs, stored, tried \cup {v})
               /\ Bare(gs) => base.revision = Missing /\ ~Has(gs, "displaced")
               /\ write.ok => Known(gs, v, {}, PriorTo(v))
    <3>1. Whole(fs) /\ Known(fs, stored, tried, prior)
      BY <1>4, <2>4
    <3>2. /\ keep => Backed(fs, stored, tried) /\ Spare(fs) # Missing
          /\ fs["primary"] = Torn /\ ~keep => Spare(fs) \notin Versions
      BY <1>3, <1>4, <1>7, <2>4 DEF Backed
    <3>3. Fits(fs, keep)
      BY <1>4, <2>4, <3>2 DEF Fits, Bare
    <3>4. keep /\ stored # Missing => Backed(fs, stored, tried)
      BY <3>2
    <3> HIDE DEF gs
    <3>5. Written(fs, gs, v, keep)
      BY <2>2, <3>3
    <3>6. Whole(gs)
      BY <1>3, <3>1, <3>2, <3>3, <3>5, WriteWhole
    <3>7. /\ Known(gs, stored, tried \cup {v}, prior)
          /\ keep => Backed(gs, stored, tried \cup {v})
      <4>1. /\ Known(gs, stored, tried \cup {v}, prior)
            /\ keep /\ Backed(fs, stored, tried) => Backed(gs, stored, tried \cup {v})
        BY <1>3, <2>2, <3>1, <3>2, <3>3, <3>4, <3>5, WriteKeeps
      <4> QED  BY <3>2, <4>1
    <3>8. Bare(gs) => base.revision = Missing /\ ~Has(gs, "displaced")
      BY <1>3, <1>4, <2>4, <3>2, <3>5, WriteSettles
    <3>9. write.ok => Known(gs, v, {}, PriorTo(v))
      BY <1>3, <2>2, <3>1, <3>2, <3>3, <3>4, <3>5, WriteAcknowledges DEF IInv
    <3> QED  BY <3>6, <3>7, <3>8, <3>9
  <2>5. CASE write.ok
    <3>1. /\ stored' = v /\ prior' = PriorTo(v) /\ tried' = {} /\ intact' = intact
          /\ revision' = v /\ candidate' = Missing /\ preserve' = FALSE
      BY <1>7, <2>5 DEF Acknowledge
    <3>2. PriorTo(v) \subseteq Versions
      BY PriorToTypes DEF IInv
    <3>3. TypeOK' /\ Session'
      BY <1>1, <2>2, <3>1, <3>2 DEF IInv, TypeOK, Session, Contents
    <3>4. ASSUME intact PROVE Undamaged'
      <4>1. ~Bare(dir')
        BY <2>2, <2>5 DEF Bare, Has
      <4> QED  BY <1>1, <2>4, <2>5, <3>1, <3>4, <4>1 DEF Undamaged
    <3> QED  BY <2>2, <3>1, <3>3, <3>4 DEF IInv
  <2>6. CASE ~write.ok
    <3>1. /\ stored' = stored /\ prior' = prior /\ tried' = tried \cup {v} /\ intact' = intact
          /\ revision' = base.revision /\ candidate' = v /\ preserve' = keep
      BY <1>7, <2>6 DEF Attempt
    <3>2. TypeOK'
      BY <1>1, <1>3, <2>2, <3>1 DEF IInv, TypeOK
    <3>3. Session'
      BY <1>1, <2>3, <3>1 DEF Session
    <3>4. ASSUME intact PROVE Undamaged'
      BY <1>1, <2>4, <3>1, <3>4 DEF Undamaged
    <3> QED  BY <2>2, <3>1, <3>2, <3>3, <3>4 DEF IInv
  <2> QED  BY <2>2, <2>5, <2>6
<1>8. CASE /\ base.go
           /\ \E write \in AtomicWriteText(fs, v, keep) :
                   /\ dir' = write.fs
                   /\ IF write.ok
                      THEN /\ revision' = v
                           /\ candidate' = Missing
                           /\ preserve' = FALSE
                           /\ Acknowledge(v)
                      ELSE /\ revision' = base.revision
                           /\ candidate' = v
                           /\ preserve' = keep
                           /\ Attempt(v)
  BY <1>7, <1>8
<1> QED  BY <1>2, <1>5, <1>6, <1>8 DEF fs, keep

\* The invariant of the layout file: what the program was told is in the
\* primary, or in the copy that a load falls back to, whatever has failed.
THEOREM LayoutFileInvariant == Spec => []IInv
<1>1. Init => IInv
  BY InitInv
<1>2. IInv /\ [Next]_vars => IInv'
  <2> SUFFICES ASSUME IInv, [Next]_vars PROVE IInv'
    OBVIOUS
  <2>1. CASE Migrate
    BY <2>1, MigrateStep
  <2>2. CASE LoadAutoLayout
    BY <2>2, LoadAutoLayoutStep
  <2>3. CASE \E v \in Versions : PersistAutoLayout(v)
    BY <2>3, PersistStep
  <2>4. CASE Restart
    BY <2>4, RestartStep
  <2>5. CASE \E v \in Versions : SaveManual(v)
    BY <2>5, SaveManualStep
  <2>6. CASE LoadManual
    BY <2>6, LoadManualStep
  <2>7. CASE Damage
    BY <2>7, DamageStep
  <2>8. CASE UNCHANGED vars
    BY <2>8 DEF vars, memory, told, IInv, TypeOK, Session, Undamaged, Sane, Spare, Whole, Known,
                Held, Backed, Bare, Has
  <2> QED  BY <2>1, <2>2, <2>3, <2>4, <2>5, <2>6, <2>7, <2>8 DEF Next
<1> QED  BY <1>1, <1>2, PTL DEF Spec

-----------------------------------------------------------------------------
(* What the invariant is for. *)

\* Whatever failed or crashed in a write, a load or a migration, the next load
\* that meets no fault returns the layout last acknowledged or one tried since.
THEOREM AcknowledgedSurvivesAlways == Spec => []AcknowledgedSurvives
<1>1. IInv => AcknowledgedSurvives
  <2> SUFFICES ASSUME IInv, intact, stored # Missing,
                      NEW load \in Faultless(LoadLayoutWithBackupLocked(dir))
               PROVE  load.status \in usable /\ load.bytes \in Acceptable
    BY DEF AcknowledgedSurvives
  <2>1. load \in LoadLayoutWithBackupLocked(dir) /\ load.clean
    BY DEF Faultless
  <2>2. Loads(dir, load)
    BY <2>1, LoadSteps DEF IInv, TypeOK
  <2>3. Held(dir) \in Versions /\ Held(dir) \in {stored} \cup tried /\ Spare(dir) # Torn
    BY DEF IInv, Undamaged, Known, Whole
  <2>4. CASE dir["primary"] \in Versions
    BY <2>1, <2>2, <2>3, <2>4 DEF Loads, FromPrimary, Held, usable, Acceptable
  <2>5. CASE dir["primary"] \notin Versions
    BY <2>1, <2>2, <2>3, <2>5 DEF Loads, FromCopy, Held, usable, Acceptable
  <2> QED  BY <2>4, <2>5
<1> QED  BY <1>1, LayoutFileInvariant, PTL

\* Where two layouts were acknowledged, a torn or lost primary costs the
\* newest of them at most: a load then recovers from the copy.
THEOREM PrimaryLossIsSurvivedAlways == Spec => []PrimaryLossIsSurvived
<1>1. IInv => PrimaryLossIsSurvived
  <2> USE FileOpsAssumption
  <2> SUFFICES ASSUME IInv, intact, prior # {}, NEW bytes \in {Torn, Missing},
                      NEW load \in Faultless(LoadLayoutWithBackupLocked(Put(dir, "primary", bytes)))
               PROVE  load.status = "Recovered" /\ load.bytes \in Acceptable \cup prior
    BY DEF PrimaryLossIsSurvived
  <2> DEFINE fs == Put(dir, "primary", bytes)
  <2>1. load \in LoadLayoutWithBackupLocked(fs) /\ load.clean
    BY DEF Faultless
  <2>2. /\ fs \in Directories /\ fs["primary"] = bytes
        /\ \A f \in Files \ {"primary"} : fs[f] = dir[f]
    BY PutInDirectories, ContentsNames, FileNames DEF IInv, TypeOK, Put, Directories, Files
  <2> HIDE DEF fs
  <2>3. Spare(fs) = Spare(dir) /\ Sane(fs)
    BY <2>2 DEF IInv, Spare, Sane, Has, Files
  <2>4. Spare(dir) \in {stored} \cup tried \cup prior /\ Spare(dir) \in Versions
    BY DEF IInv, Undamaged, Known, TypeOK
  <2>5. Loads(fs, load)
    BY <2>1, <2>2, <2>3, LoadSteps
  <2> QED  BY <2>1, <2>2, <2>3, <2>4, <2>5 DEF Loads, FromCopy, Acceptable
<1> QED  BY <1>1, LayoutFileInvariant, PTL

\* A failure costs the save it hit and no other, and no artifact of it is left
\* after the next save: of the session that goes on, and of the one that starts
\* after a crash.
THEOREM SavingGoesOnAlways == Spec => []SavingGoesOn
<1>1. IInv => SessionKeepsSaving
  <2> SUFFICES ASSUME IInv, intact, phase = "running", NEW base \in Faultless(Rebase),
                      NEW bytes \in Versions
               PROVE  /\ base.go
                      /\ \A write \in Faultless(AtomicWriteText(base.fs, bytes, base.preserve)) :
                            write.ok
    BY DEF SessionKeepsSaving
  <2>1. kind = "auto" /\ base \in Rebase /\ base.clean
    BY DEF IInv, Session, TypeOK, Faultless
  <2>2. /\ base.go /\ base.fs \in Directories /\ Sane(base.fs) /\ base.preserve \in BOOLEAN
        /\ base.fs["primary"] = Torn /\ ~base.preserve => Spare(base.fs) \notin Versions
    BY <2>1, RebaseSteps
  <2>3. ASSUME NEW write \in Faultless(AtomicWriteText(base.fs, bytes, base.preserve))
        PROVE  write.ok
    <3>1. write \in AtomicWriteText(base.fs, bytes, base.preserve) /\ write.clean
      BY <2>3 DEF Faultless
    <3>2. SaneEnd(write)
      BY <2>2, <3>1, WriteSteps
    <3> QED  BY <3>1, <3>2 DEF SaneEnd
  <2> QED  BY <2>2, <2>3
<1>2. IInv => NeverWedged
  <2> SUFFICES ASSUME IInv, intact, NEW load \in LoadWithRetry(dir), NEW bytes \in Versions
               PROVE  /\ load.status # "Unavailable"
                      /\ \A write \in Faultless(AtomicWriteText(load.fs, bytes,
                                                                load.status = "Recovered")) :
                            /\ write.ok
                            /\ write.fs["primary"] = bytes
                            /\ \A a \in TransactionArtifacts : ~Has(write.fs, a)
    BY DEF NeverWedged
  <2>1. PICK first \in Faultless(LoadLayoutWithBackupLocked(dir)) :
          load \in IF first.status = "Unavailable"
                   THEN Faultless(LoadLayoutWithBackupLocked(first.fs))
                   ELSE {first}
    BY DEF LoadWithRetry
  <2>2. first \in LoadLayoutWithBackupLocked(dir) /\ first.clean
    BY DEF Faultless
  <2>3. /\ dir \in Directories /\ Loads(dir, first)
    BY <2>2, LoadSteps DEF IInv, TypeOK
  <2>4. first.status # "Unavailable"
    BY <2>2, <2>3, LoadKeeps DEF IInv, Undamaged
  <2>5. load = first
    BY <2>1, <2>4
  <2>6. /\ load.fs \in Directories /\ Sane(load.fs)
        /\ load.fs["primary"] = Torn /\ ~(load.status = "Recovered")
             => Spare(load.fs) \notin Versions
    BY <2>3, <2>4, <2>5, LoadFits DEF Loads
  <2>7. ASSUME NEW write \in Faultless(AtomicWriteText(load.fs, bytes, load.status = "Recovered"))
        PROVE  /\ write.ok
               /\ write.fs["primary"] = bytes
               /\ \A a \in TransactionArtifacts : ~Has(write.fs, a)
    <3> DEFINE keep == load.status = "Recovered"
    <3>1. write \in AtomicWriteText(load.fs, bytes, keep) /\ write.clean /\ keep \in BOOLEAN
      BY <2>7 DEF Faultless
    <3>2. load.fs["primary"] = Torn /\ ~keep => Spare(load.fs) \notin Versions
      BY <2>6
    <3> HIDE DEF keep
    <3>3. /\ SaneEnd(write)
          /\ write.ok => /\ write.fs["primary"] = bytes
                         /\ \A a \in TransactionArtifacts : ~Has(write.fs, a)
      BY <2>6, <3>1, <3>2, WriteSteps
    <3> QED  BY <3>1, <3>3 DEF SaneEnd
  <2> QED  BY <2>4, <2>5, <2>7
<1>3. IInv => SavingGoesOn
  BY <1>1, <1>2 DEF SavingGoesOn, IInv
<1> QED  BY <1>3, LayoutFileInvariant, PTL

-----------------------------------------------------------------------------
(* Which layout the copy is. *)

LEMMA LoadedDone ==
  ASSUME NEW fs, NEW status, NEW bytes, NEW source
  PROVE  [fs |-> fs, clean |-> TRUE, status |-> status, bytes |-> bytes, source |-> source]
           \in Loaded(Done(fs), status, bytes, source)
<1>1. PICK o \in Done(fs) : o.ok = TRUE /\ o.fs = fs
  BY DEF Done
<1>2. (IF o.ok
       THEN [fs |-> o.fs, clean |-> TRUE, status |-> status, bytes |-> bytes, source |-> source]
       ELSE [fs |-> o.fs, clean |-> o.clean, status |-> "Unavailable", bytes |-> Missing,
             source |-> "primary"]) \in Loaded(Done(fs), status, bytes, source)
  BY DEF Loaded
<1> QED  BY <1>1, <1>2

\* A load without the primary returns the copy, if it is a layout.
LEMMA FallbackIsSpare ==
  ASSUME NEW fs \in Directories, Sane(fs)
  PROVE  Fallback(fs) = {Spare(fs)} \cap Versions
<1> USE FileOpsAssumption
<1> DEFINE lost == [fs EXCEPT !["primary"] = Missing, !["displaced"] = Missing]
<1>1. /\ lost \in Directories /\ lost["primary"] = Missing /\ lost["displaced"] = Missing
      /\ \A f \in Files \ {"primary", "displaced"} : lost[f] = fs[f]
  BY DEF Directories, Contents, Files
<1>2. Fallback(fs) = {load.bytes : load \in {l \in Faultless(LoadWithoutPrimary(lost)) :
                                                l.source \in {"rollback", "backup"}}}
  BY DEF Fallback
<1> HIDE DEF lost
<1>3. Sane(lost) /\ Spare(lost) = Spare(fs)
  BY <1>1 DEF Sane, Spare, Has, Files
<1>4. ASSUME NEW load \in Faultless(LoadWithoutPrimary(lost)), load.source \in {"rollback", "backup"}
      PROVE  load.bytes \in {Spare(fs)} \cap Versions
  <2>1. load \in LoadWithoutPrimary(lost) /\ load.clean
    BY <1>4 DEF Faultless
  <2>2. Spare(lost) \in Versions => FromCopy(lost, load)
    BY <1>1, <1>3, <2>1, WithoutPrimarySteps
  <2>3. Spare(lost) \notin Versions => FromNothing(lost, load)
    BY <1>1, <1>3, <2>1, WithoutPrimarySteps
  <2> QED  BY <1>3, <1>4, <2>1, <2>2, <2>3 DEF FromCopy, FromNothing
<1>5. ASSUME Spare(fs) \in Versions
      PROVE  \E load \in Faultless(LoadWithoutPrimary(lost)) :
                load.source \in {"rollback", "backup"} /\ load.bytes = Spare(fs)
  <2>1. lost["promote"] # Torn /\ lost["promote"] \in {Missing, Spare(lost)}
    BY <1>3, <1>5 DEF Sane
  <2>2. Done(lost) = {[fs |-> lost, ok |-> TRUE, clean |-> TRUE]}
    BY DEF Done
  <2>3. LoadCopies(lost) \subseteq LoadWithoutPrimary(lost)
    <3>1. ~(lost["displaced"] \in Versions /\ ~Has(lost, "promote"))
      BY <1>1
    <3>2. LoadWithoutPrimary(lost) =
            UNION {IF o.ok THEN LoadCopies(o.fs)
                   ELSE Loaded({o}, "Unavailable", Missing, "primary") : o \in Done(lost)}
      BY <2>1, <3>1 DEF LoadWithoutPrimary
    <3>3. PICK o \in Done(lost) : o.ok = TRUE /\ o.fs = lost
      BY <2>2
    <3> QED  BY <3>2, <3>3
  <2>4. \E source \in {"rollback", "backup"} :
          [fs |-> lost, clean |-> TRUE, status |-> "Recovered", bytes |-> Spare(fs),
           source |-> source] \in LoadCopies(lost)
    <3>1. CASE Has(lost, "rollback")
      <4>1. Usable(lost, "rollback") /\ lost["rollback"] = Spare(fs)
        BY <1>3, <1>5, <2>1, <3>1 DEF Usable, Spare
      <4> QED  BY <4>1, LoadedDone DEF LoadCopies
    <3>2. CASE ~Has(lost, "rollback")
      <4>1. Usable(lost, "backup") /\ lost["backup"] = Spare(fs) /\ ~Usable(lost, "rollback")
        BY <1>3, <1>5, <2>1, <3>2 DEF Usable, Spare, Has
      <4> QED  BY <4>1, LoadedDone DEF LoadCopies
    <3> QED  BY <3>1, <3>2
  <2>5. PICK source \in {"rollback", "backup"} :
          [fs |-> lost, clean |-> TRUE, status |-> "Recovered", bytes |-> Spare(fs),
           source |-> source] \in LoadWithoutPrimary(lost)
    BY <2>3, <2>4
  <2> DEFINE load == [fs |-> lost, clean |-> TRUE, status |-> "Recovered", bytes |-> Spare(fs),
                      source |-> source]
  <2>6. load \in Faultless(LoadWithoutPrimary(lost))
    BY <2>5 DEF Faultless
  <2>7. load.source \in {"rollback", "backup"} /\ load.bytes = Spare(fs)
    OBVIOUS
  <2> HIDE DEF load
  <2> QED  BY <2>6, <2>7
<1>6. Fallback(fs) \subseteq {Spare(fs)} \cap Versions
  BY <1>2, <1>4
<1>7. {Spare(fs)} \cap Versions \subseteq Fallback(fs)
  BY <1>2, <1>5
<1> QED  BY <1>6, <1>7

\* A step that leaves the primary and the copy, or makes the one the other.
Rotates(fs, gs) ==
  \/ gs["primary"] = fs["primary"] /\ Spare(gs) = Spare(fs)
  \/ gs["primary"] # fs["primary"] /\ Spare(gs) = fs["primary"]

LEMMA LoadRotates ==
  ASSUME IInv, dir["primary"] \in Versions, NEW load \in LoadLayoutWithBackupLocked(dir)
  PROVE  /\ load.fs \in Directories /\ Sane(load.fs)
         /\ load.fs["primary"] = dir["primary"] /\ Spare(load.fs) = Spare(dir)
         /\ load.status \in {"Valid", "Unavailable"}
<1>1. Loads(dir, load)
  BY LoadSteps DEF IInv, TypeOK
<1> QED  BY <1>1 DEF Loads, FromPrimary

LEMMA WriteRotates ==
  ASSUME NEW fs \in Directories, Sane(fs), fs["primary"] \in Versions, NEW bytes \in Versions,
         NEW write \in AtomicWriteText(fs, bytes, FALSE)
  PROVE  Rotates(fs, write.fs)
<1> USE FileOpsAssumption
<1>1. Fits(fs, FALSE) /\ fs["primary"] # Torn /\ FALSE \in BOOLEAN
  BY DEF Fits, Has
<1>2. Written(fs, write.fs, bytes, FALSE)
  BY <1>1, WriteSteps
<1> QED  BY <1>2 DEF Written, Rotates, Has

LEMMA CopyStep ==
  ASSUME IInv, Next, ~Damage, dir["primary"] \in Versions, ~preserve
  PROVE  Rotates(dir, dir')
<1> USE FileOpsAssumption
<1>1. CASE Migrate
  <2>1. PICK load \in LoadLayoutWithBackupLocked(dir) :
          dir' = load.fs \/ load.status = "Missing"
    BY <1>1 DEF Migrate
  <2> QED  BY <2>1, LoadRotates DEF Rotates
<1>2. CASE LoadAutoLayout
  BY <1>2, LoadRotates DEF LoadAutoLayout, Rotates
<1>3. ASSUME NEW v \in Versions, PersistAutoLayout(v) PROVE Rotates(dir, dir')
  <2>1. PICK base \in Rebase :
          \/ dir' = base.fs
          \/ \E write \in AtomicWriteText(base.fs, v, base.preserve) : dir' = write.fs
    BY <1>3 DEF PersistAutoLayout
  <2>2. /\ base.fs \in Directories /\ Sane(base.fs) /\ base.preserve = FALSE
        /\ base.fs["primary"] = dir["primary"] /\ Spare(base.fs) = Spare(dir)
    <3>1. CASE dir["primary"] = revision \/ (candidate # Missing /\ dir["primary"] = candidate)
      BY <3>1 DEF Rebase, IInv, TypeOK
    <3>2. CASE ~(dir["primary"] = revision \/ (candidate # Missing /\ dir["primary"] = candidate))
      <4>1. PICK load \in LoadLayoutWithBackupLocked(dir) :
              base = [fs |-> load.fs, clean |-> load.clean, go |-> load.status \in usable,
                      revision |-> RevisionOf(load),
                      preserve |-> preserve \/ load.status = "Recovered"]
        BY <3>2 DEF Rebase
      <4>2. base.fs = load.fs /\ base.preserve = (preserve \/ load.status = "Recovered")
        BY <4>1
      <4>3. load.status # "Recovered"
        BY LoadRotates
      <4>4. (preserve \/ load.status = "Recovered") = FALSE
        BY <4>3
      <4>5. base.preserve = FALSE
        BY <4>2, <4>4
      <4> QED  BY <4>2, <4>5, LoadRotates
    <3> QED  BY <3>1, <3>2
  <2>3. CASE dir' = base.fs
    BY <2>2, <2>3 DEF Rotates
  <2>4. ASSUME NEW write \in AtomicWriteText(base.fs, v, base.preserve), dir' = write.fs
        PROVE  Rotates(dir, dir')
    <3>1. write \in AtomicWriteText(base.fs, v, FALSE)
      BY <2>2, <2>4
    <3>2. Rotates(base.fs, write.fs)
      BY <2>2, <3>1, WriteRotates
    <3> QED  BY <2>2, <2>4, <3>2 DEF Rotates
  <2> QED  BY <2>1, <2>3, <2>4
<1>4. CASE Restart
  BY <1>4 DEF Restart, Rotates
<1>5. ASSUME NEW v \in Versions, SaveManual(v) PROVE Rotates(dir, dir')
  <2>1. PICK load \in LoadLayoutWithBackupLocked(dir) :
          \/ dir' = load.fs
          \/ \E write \in AtomicWriteText(load.fs, v, load.status = "Recovered") : dir' = write.fs
    BY <1>5 DEF SaveManual
  <2>2. CASE dir' = load.fs
    BY <2>2, LoadRotates DEF Rotates
  <2>3. ASSUME NEW write \in AtomicWriteText(load.fs, v, load.status = "Recovered"),
               dir' = write.fs
        PROVE  Rotates(dir, dir')
    <3>1. (load.status = "Recovered") = FALSE
      BY LoadRotates
    <3>2. write \in AtomicWriteText(load.fs, v, FALSE)
      BY <2>3, <3>1
    <3>3. Rotates(load.fs, write.fs)
      BY <3>2, LoadRotates, WriteRotates
    <3> QED  BY <2>3, <3>3, LoadRotates DEF Rotates
  <2> QED  BY <2>1, <2>2, <2>3
<1>6. CASE LoadManual
  BY <1>6, LoadRotates DEF LoadManual, Rotates
<1> QED  BY <1>1, <1>2, <1>3, <1>4, <1>5, <1>6 DEF Next

\* A write that replaces a layout the program loaded turns it into the copy,
\* even when the write fails; what leaves the primary leaves the copy.
THEOREM CopyIsPriorAlways == Spec => CopyIsPrior
<1> DEFINE Kept == ~Damage /\ dir["primary"] \in Versions /\ ~preserve =>
                      IF dir'["primary"] = dir["primary"]
                      THEN Fallback(dir) \subseteq Fallback(dir')
                      ELSE Fallback(dir') = {dir["primary"]}
<1>1. IInv /\ IInv' /\ [Next]_vars => [Kept]_vars
  <2> SUFFICES ASSUME IInv, IInv', Next, ~Damage, dir["primary"] \in Versions, ~preserve
               PROVE  IF dir'["primary"] = dir["primary"]
                      THEN Fallback(dir) \subseteq Fallback(dir')
                      ELSE Fallback(dir') = {dir["primary"]}
    OBVIOUS
  <2>1. Rotates(dir, dir')
    BY CopyStep
  <2>2. Fallback(dir) = {Spare(dir)} \cap Versions
    BY FallbackIsSpare DEF IInv, TypeOK
  <2>3. Fallback(dir') = {Spare(dir')} \cap Versions
    <3>1. dir' \in Directories /\ Sane(dir')
      BY DEF IInv, TypeOK
    <3> QED  BY <3>1, FallbackIsSpare
  <2> QED  BY <2>1, <2>2, <2>3 DEF Rotates
<1>2. [][Kept]_vars => CopyIsPrior
  BY DEF CopyIsPrior
<1> QED  BY <1>1, <1>2, LayoutFileInvariant, PTL DEF Spec
=============================================================================
