----------------------------- MODULE AutoLayout -----------------------------
(***************************************************************************)
(* The rolling automatic layout of the tray program: how what it sees of   *)
(* the windows of one browser becomes pending changes, when those are      *)
(* flushed to the layout file, and what happens when another process has   *)
(* written the file or the storage fails.  The checkpoints of a shutdown,  *)
(* a settings change and a heartbeat, the start of the automatic runtime   *)
(* and its loss by a crash are actions of it.                              *)
(*                                                                         *)
(* The program's user interface thread runs one handler at a time, so an   *)
(* action is a whole handler; the other process and the clock take steps   *)
(* in between.  The file itself (its crash-safe writes, backup and         *)
(* recovery) is the subject of LayoutFile; here it has a revision and      *)
(* records, and reading or writing it may fail.                            *)
(***************************************************************************)
EXTENDS LayoutRecords, FiniteSets

CONSTANTS Wins,          \* windows of the browser
          Closed,        \* "the window is not open"
          NoId,          \* "the window is bound to no record"
          InitRecords,   \* the records of the file at first
          InitWhere,     \* where the windows are at first
          MaxClock,      \* bound: readings of the UTC clock
          MaxEvents      \* bound: failures, writes of the other process, moves,
                         \* openings and closings of windows, and restarts

(* The parser and the writer of the file refuse a record that was never     *)
(* seen (layout.hpp 877, 1037); one that is missing is so since it was      *)
(* last seen.                                                               *)
ASSUME AutoLayoutAssumption ==
  /\ IsFiniteSet(Ids) /\ MaxClock \in Nat \ {0} /\ MaxEvents \in Nat
  /\ Closed \notin Places /\ NoId \notin Ids
  /\ NoRec \notin [place : Places, seen : Nat, missing : Nat]
  /\ InitWhere \in [Wins -> Places \cup {Closed}]
  /\ InitRecords \in UNION {[D -> [place : Places, seen : {1}, missing : {0, 1}]] :
                              D \in SUBSET Ids}

VARIABLES
  clock,    \* UtcNowSeconds
  file,     \* layout-auto.txt: its revision, records and last writer
  where,    \* the desktop each window is on
  bound,    \* g_recordByRuntime: the record each window is bound to
  journal,  \* g_autoRecords, g_dirtyRecordDeltas, g_validatedTouches, g_deferredRecordConflicts
  revision, \* g_autoRevision: the revision the records in memory come from
  dead,     \* history: the known records another process deleted
  armed,    \* g_pendingAutoPublishCandidate: the content of an unsettled write
  flush,    \* g_autoDirty and g_dirtyFlush: dirty, and whether it is due
  timer,    \* g_flushTimerArmed
  life,     \* the lifecycle's view of the windows: any open, a restore pending, layout saved
  started,  \* g_autoLoadRetry: the stages of the automatic runtime that are up
  phase,    \* the process: "up", "exited" by its tray menu, "ended"
  events    \* what is left of the bound on events

vars == <<clock, file, where, bound, dead, journal, revision, armed, flush, timer,
          life, started, phase, events>>

Stages == {"monitor", "layout", "heartbeat", "initialized"}
Loaded == phase = "up" /\ started = Stages

Open == {w \in Wins : where[w] # Closed}
BoundIds == {bound[w] : w \in Wins} \ {NoId}
Conflicted == journal.conflicts # <<>>

(* A record id no one has used yet. *)
Fresh(r) == r \notin DOMAIN journal.records \cup DOMAIN journal.deltas
              \cup DOMAIN journal.touches \cup DOMAIN journal.conflicts
              \cup DOMAIN file.recs \cup BoundIds \cup dead

MayFail(fault) == fault # "none" => events > 0
Spend(fault) == IF fault = "none" THEN events ELSE events - 1

(* ------------------------------ dirty, due, timer ---------------------- *)

MarkDirty(fl) == [dirty |-> TRUE, due |-> IF fl.dirty THEN fl.due ELSE FALSE]

(* ScheduleAutoFlush: SetTimer may fail, a timer that is armed stays so. *)
Scheduled(fl, fault) ==
  IF started = Stages /\ fl.dirty THEN timer \/ fault # "timer" ELSE timer

(* ------------------------------ the write ------------------------------ *)
StorageFaults ==
  {"none",         \* nothing fails
   "unreadable",   \* the lock or the file's revision cannot be had
   "unusable",     \* the records of a new revision cannot be read
   "desktops",     \* the desktops cannot be listed
   "unwritten",    \* the write fails
   "unconfirmed",  \* the write fails, the file has the new content all the same
   "unsettled"}    \* the content is confirmed, the clean-up after it fails

Unarmed == [set |-> FALSE, recs |-> <<>>]

(* A revision unlike every one the program remembers; it remembers none    *)
(* after a write that succeeds, so revisions are counted from 1 again.     *)
NewRevision(J, rev, current) ==
  LET known == {J.deltas[r].baseRev : r \in DOMAIN J.deltas}
                 \cup {J.conflicts[r].rev : r \in DOMAIN J.conflicts}
                 \cup {rev, current}
  IN  CHOOSE n \in 1 .. 2 * Cardinality(Ids) + 3 :
        n \notin known /\ \A k \in 1 .. n - 1 : k \in known

WriteState(J) == [J |-> J, rev |-> revision, armed |-> armed, file |-> file,
                  saved |-> FALSE]

(* An armed candidate found in the file is the program's own last write. *)
ObserveCandidate(S) ==
  IF ~S.armed.set THEN S
  ELSE [S EXCEPT !.rev = IF S.armed.recs = S.file.recs THEN S.file.rev ELSE @,
                 !.armed = Unarmed]

(* The file is at another revision than the records in memory. *)
AdoptRevision(S) ==
  IF S.rev = S.file.rev THEN S
  ELSE [S EXCEPT !.J = RebasedJournal(S.J, S.file.recs, S.file.rev, clock),
                 !.rev = S.file.rev]

Publish(S, fault) ==
  LET new == [rev |-> NewRevision(S.J, S.rev, S.file.rev),
                  recs |-> S.J.records, by |-> "vde"]
      candidate == [set |-> TRUE, recs |-> S.J.records]
  IN  CASE fault = "desktops"    -> S
        [] fault = "unwritten"   -> [S EXCEPT !.armed = candidate]
        [] fault = "unconfirmed" -> [S EXCEPT !.armed = candidate, !.file = new]
        [] fault = "unsettled"   -> [S EXCEPT !.file = new, !.rev = new.rev]
        [] OTHER -> [S EXCEPT !.file = [new EXCEPT !.rev = 1], !.rev = 1,
                              !.saved = TRUE, !.J = EmptyJournal(S.J.records)]

PublishAdopted(S, fault) ==
  IF S.J.conflicts # <<>> THEN S ELSE Publish(S, fault)

PublishObserved(S, fault) ==
  IF \/ ConflictsBlockPublish(S.J, S.file.rev)
     \/ S.rev # S.file.rev /\ fault = "unusable"
  THEN S
  ELSE PublishAdopted(AdoptRevision(S), fault)

PersistAutoLayout(S, fault) ==
  IF fault = "unreadable" THEN S ELSE PublishObserved(ObserveCandidate(S), fault)

FlushOutcome(S) ==
  [state |-> S, clean |-> S.saved, flush |-> [dirty |-> ~S.saved, due |-> FALSE]]

(* FlushAutoLayout(force) on the journal J, dirtied to fl. *)
Flushed(J, fl, force, fault) ==
  IF ~fl.dirty \/ (~force /\ (J.conflicts # <<>> \/ ~fl.due))
  THEN [state |-> WriteState(J), flush |-> fl, clean |-> ~fl.dirty]
  ELSE FlushOutcome(PersistAutoLayout(WriteState(J), fault))

Write(F) ==
  /\ journal' = F.state.J
  /\ revision' = F.state.rev
  /\ armed' = F.state.armed
  /\ file' = F.state.file
  /\ flush' = F.flush

(* TIMER_AUTO_FLUSH: the timer is gone, and set again while dirty. *)
FlushTimer ==
  /\ Loaded /\ timer
  /\ \E fault \in StorageFaults \cup {"timer"} :
       /\ MayFail(fault)
       /\ fault # "none" => flush.dirty
       /\ \E F \in {Flushed(journal, flush, Conflicted, fault)} :
            /\ Write(F)
            /\ timer' = (F.flush.dirty /\ fault # "timer")
       /\ events' = Spend(fault)
  /\ UNCHANGED <<clock, where, bound, dead, life, started, phase>>

(* The 500 ms of a change, or of a failed write, are over. *)
FlushComesDue ==
  /\ flush.dirty /\ ~flush.due
  /\ flush' = [flush EXCEPT !.due = TRUE]
  /\ UNCHANGED <<clock, file, where, bound, dead, journal, revision, armed, timer,
                 life, started, phase, events>>

\* Mutant: the tick leaves a flush timer that could not be set.
MaintainNothing ==
  /\ Loaded /\ flush.dirty /\ ~timer
  /\ UNCHANGED vars

(* The monitor tick sets a flush timer that could not be set. *)
MaintainAutoFlushTimer ==
  /\ Loaded /\ flush.dirty /\ ~timer
  /\ timer' = TRUE
  /\ UNCHANGED <<clock, file, where, bound, dead, journal, revision, armed, flush,
                 life, started, phase, events>>

(* ------------------------------ what is seen --------------------------- *)

(* The records take the values "seen" has for them: a delta where more     *)
(* than the time changes, a touch in any case; a record in conflict stays. *)
UpsertAutoRecords(J, seen) ==
  LET changes == {r \in DOMAIN seen :
                    r \in DOMAIN J.records => ~SameSemantic(J.records[r], seen[r])}
      delta(r) == Delta("runtime", seen[r], RecAt(J.records, r), revision, clock)
      staged == {r \in changes : MayStage(J, r, delta(r))}
      same == DOMAIN seen \ changes
      J1 == StageRecordDeltas(J, [r \in staged |-> delta(r)])
      J2 == [J1 EXCEPT !.records = Over([r \in same |-> seen[r]], @)]
  IN  [J |-> RememberTouches(J2, staged \cup same, clock),
       done |-> staged \cup same, dirty |-> changes # {}]

(* Windows that are gone lose their binding, and its generation with it. *)
Pruned(b) == [w \in Wins |-> IF w \in Open THEN b[w] ELSE NoId]
PrunedJournal(J, b) ==
  OutdateGenerations(J, {b[w] : w \in Wins \ Open} \ {NoId})

(* The browser is gone: its records are missing since they were last seen. *)
MarkAppMissing(J, rev) ==
  LET after(r) == MarkMissing(J.records[r], clock)
      gone == {r \in DOMAIN J.records : IsExpired(after(r), clock)}
      turned == {r \in DOMAIN J.records \ gone : ~SameSemantic(J.records[r], after(r))}
      delta(r) == IF r \in gone
                  THEN Delta("expire", J.records[r], J.records[r], rev, clock)
                  ELSE Delta("missing", after(r), J.records[r], rev, clock)
      accepted == {r \in gone \cup turned : MayStage(J, r, delta(r))}
      staged == StageRecordDeltas(J, [r \in accepted |-> delta(r)])
  IN  [J |-> [staged EXCEPT !.touches = Without(@, gone \cap accepted)],
       dirty |-> gone \cup turned # {}, done |-> TRUE]

(* SaveObservedApp: all of the bound windows or, when one record refuses, *)
(* none.  A window on a desktop is seen there.                            *)
SaveObserved(J) ==
  LET seen == [r \in {bound[w] : w \in Open} \cap DOMAIN J.records |->
                 SeenAt(where[CHOOSE w \in Open : bound[w] = r], clock)]
      S == UpsertAutoRecords(OutdateGenerations(J, DOMAIN seen), seen)
      done == S.done = DOMAIN seen
  IN  [J |-> IF done THEN S.J ELSE J, dirty |-> done /\ S.dirty, done |-> done]

(* The lifecycle is settled: the windows it knows are open, and no others. *)
Settled ==
  /\ life.present /\ ~life.pending
  /\ \A w \in Wins : (w \in Open) <=> (life.saved[w] # Closed)

MovedSinceSaved == Settled /\ life.saved # where

Seen(J) ==
  IF Open = {} /\ life.present THEN MarkAppMissing(J, revision)
  ELSE IF MovedSinceSaved THEN SaveObserved(J)
  ELSE [J |-> J, dirty |-> FALSE, done |-> FALSE]

(* ObserveFastSnapshots: the bindings of closed windows are dropped, and   *)
(* the browser's windows are missing, or saved where they were moved to.   *)
Observe ==
  /\ Loaded
  /\ bound' = Pruned(bound)
  /\ \E fault \in {"none", "timer"} :
       /\ MayFail(fault)
       /\ \E S \in {Seen(PrunedJournal(journal, bound))} :
            LET fl == IF S.dirty THEN MarkDirty(flush) ELSE flush
                saved == S.done /\ \A w \in Open : bound[w] # NoId
            IN  /\ journal' = S.J
                /\ flush' = fl
                /\ timer' = IF S.dirty THEN Scheduled(fl, fault) ELSE timer
                /\ life' = [present |-> Open # {},
                            pending |-> Open # {} /\ (~Settled \/ (MovedSinceSaved /\ ~saved)),
                            saved |-> IF saved THEN where ELSE life.saved]
       /\ events' = Spend(fault)
  /\ UNCHANGED <<clock, file, where, dead, revision, armed, started, phase>>

(* A window that stays unknown while its browser is settled is recorded    *)
(* where it is (RecordLingeringUnboundWindows, before the tick's decision). *)
RecordWindowInPlace(w) ==
  /\ Loaded /\ w \in Open /\ bound[w] = NoId /\ life.saved[w] = where[w]
  /\ \E r \in Ids :
       /\ Fresh(r)
       /\ LET S == UpsertAutoRecords(PrunedJournal(journal, bound),
                                    [x \in {r} |-> SeenAt(where[w], clock)])
          IN  /\ journal' = S.J
              /\ flush' = MarkDirty(flush)
              /\ timer' = Scheduled(flush', "none")
       /\ bound' = [Pruned(bound) EXCEPT ![w] = r]
  /\ UNCHANGED <<clock, file, where, dead, revision, armed, life, started, phase, events>>

(* A restore pass is committed: bound windows are refreshed where they     *)
(* are; a window without a record is matched with one and stands where the *)
(* record says, or was not moved and stays unbound; or it gets a new one.  *)
(* The layout counted as saved is the one from before the moves.  A pass   *)
(* follows when the windows have changed, or the browser's session file.   *)
RestorePass ==
  /\ Loaded /\ Open # {}
  /\ ~life.pending => events > 0
  /\ events' = IF life.pending THEN events ELSE events - 1
  /\ \E m \in [Open -> Ids] :
       LET kept == {w \in Open : bound[w] \in DOMAIN journal.records}
           matched == {w \in Open \ kept : m[w] \in DOMAIN journal.records}
           place(w) == IF w \in matched THEN journal.records[m[w]].place
                       ELSE where[w]
           seen == [r \in {m[w] : w \in Open} |->
                      SeenAt(place(CHOOSE w \in Open : m[w] = r), clock)]
           J == PrunedJournal(journal, bound)
           refused == {m[w] : w \in kept} \ UpsertAutoRecords(J, seen).done
           S == UpsertAutoRecords(OutdateGenerations(J, DOMAIN seen \ refused), seen)
           fl == IF S.dirty THEN MarkDirty(flush) ELSE flush
       IN  /\ \A v, w \in Open : m[v] = m[w] => v = w
           /\ \A w \in kept : m[w] = bound[w]
           /\ \A w \in Open \ (kept \cup matched) : Fresh(m[w])
           /\ journal' = S.J
           /\ flush' = fl
           /\ timer' = IF S.dirty THEN Scheduled(fl, "none") ELSE timer
           /\ \E failed \in SUBSET matched :
                /\ bound' = [w \in Wins |-> IF w \in Open \ failed THEN m[w] ELSE NoId]
                /\ where' = [w \in Wins |-> IF w \in Open \ failed THEN place(w)
                                           ELSE where[w]]
  /\ life' = [present |-> TRUE, pending |-> FALSE, saved |-> where]
  /\ UNCHANGED <<clock, file, dead, revision, armed, started, phase>>

(* SavePopupMovedWindow: a verified move of the picker is saved at once.   *)
PopupSave(w) ==
  /\ Loaded /\ w \in Open /\ events > 0
  /\ \E p \in Places \ {where[w]}, r \in Ids, fault \in StorageFaults :
       LET J == OutdateGenerations(journal, {r})
           d == Delta("explicit", SeenAt(p, clock), RecAt(journal.records, r),
                      revision, clock)
           touched == [StageRecordDeltas(J, [x \in {r} |-> d]) EXCEPT
                         !.touches = Over([x \in {r} |-> [seen |-> clock, current |-> TRUE]], @)]
       IN  /\ fault # "none" => events > 1
           /\ IF bound[w] # NoId THEN r = bound[w] ELSE Fresh(r)
           /\ where' = [where EXCEPT ![w] = p]
           /\ IF MayStage(journal, r, d)
              THEN \E F \in {Flushed(touched, MarkDirty(flush), TRUE, fault)} :
                     /\ Write(F)
                     /\ timer' = Scheduled(F.flush, fault)
                     /\ bound' = [bound EXCEPT ![w] = r]
                     /\ dead' = IF r \in DOMAIN journal.records THEN dead ELSE dead \ {r}
              ELSE /\ fault = "none"
                   /\ UNCHANGED <<bound, dead, journal, revision, armed, file, flush, timer>>
           /\ events' = Spend(fault) - 1
  /\ UNCHANGED <<clock, life, started, phase>>

(* ------------------------------ checkpoints ---------------------------- *)

(* CommitFinalSnapshotRecords and BuildFinalCheckpointMutation: the records *)
(* as the windows are now.  "m" is the record each window without one is    *)
(* matched with by its title (it is seen, and stays where the record says), *)
(* or the new one it gets; "adopted" are the windows of new records that    *)
(* are bound to them.                                                       *)
FinalRecords(m) ==
  LET J == journal
      boundRec == {w \in Open : bound[w] \in DOMAIN J.records}
      id(w) == IF w \in boundRec THEN bound[w] ELSE m[w]
      seenBy(r) == CHOOSE w \in Open : id(w) = r
      seen == [r \in {id(w) : w \in Open} |->
                 IF seenBy(r) \notin boundRec /\ r \in DOMAIN J.records
                 THEN SeenAt(J.records[r].place, clock)
                 ELSE SeenAt(where[seenBy(r)], clock)]
      unseen == [r \in DOMAIN J.records \ DOMAIN seen |-> MarkMissing(J.records[r], clock)]
  IN  Over(seen, Without(unseen, {r \in DOMAIN unseen : IsExpired(unseen[r], clock)}))

FinalDeltas(final) ==
  LET before == journal.records
      gone == DOMAIN before \ DOMAIN final
      changed == {r \in DOMAIN final :
                    r \in DOMAIN before => ~SameSemantic(before[r], final[r])}
      kind(r) == IF r \in gone THEN "expire"
                 ELSE IF r \in DOMAIN before /\ before[r].missing = 0
                         /\ final[r].missing # 0 THEN "missing"
                 ELSE "explicit"
  IN  [r \in gone \cup changed |->
         Delta(kind(r), IF r \in gone THEN before[r] ELSE final[r],
               RecAt(before, r), revision, clock)]

(* One refused change fails the whole checkpoint. *)
FinalAccepted(final) ==
  \A r \in DOMAIN FinalDeltas(final) : MayStage(journal, r, FinalDeltas(final)[r])

RaiseTouches(J, R) ==
  LET newer == {r \in R : r \in DOMAIN J.touches =>
                            J.touches[r].seen < J.records[r].seen}
  IN  [J EXCEPT !.touches =
         Over([r \in newer |-> [seen |-> J.records[r].seen, current |-> TRUE]], @)]

FinalJournal(final) ==
  LET staged == StageRecordDeltas(journal, FinalDeltas(final))
      J == [records |-> final, deltas |-> staged.deltas,
            touches |-> Without(journal.touches, DOMAIN journal.records \ DOMAIN final),
            conflicts |-> staged.conflicts]
  IN  PrunedJournal(RaiseTouches(J, BoundIds \cap DOMAIN final), bound)

(* The matches a checkpoint may find for its windows. *)
FinalMatches ==
  LET unbound == {w \in Open : bound[w] \notin DOMAIN journal.records}
  IN  {m \in [unbound -> Ids] :
         /\ \A v, w \in unbound : m[v] = m[w] => v = w
         /\ \A w \in unbound : \/ m[w] \in DOMAIN journal.records \ BoundIds
                               \/ Fresh(m[w])}

(* CommitFinalSnapshots and FlushAutoLayout(true); an enumeration of the    *)
(* windows that is not complete leaves the records alone.                   *)
Checkpointed(final, fault) ==
  IF fault = "desktops" \/ ~FinalAccepted(final)
  THEN [state |-> WriteState(journal), flush |-> flush, clean |-> FALSE]
  ELSE Flushed(FinalJournal(final), MarkDirty(flush), TRUE, fault)

(* What is left when the automatic runtime is gone. *)
Unloaded ==
  /\ journal' = EmptyJournal(<<>>)
  /\ revision' = 0
  /\ armed' = Unarmed
  /\ flush' = [dirty |-> FALSE, due |-> FALSE]
  /\ timer' = FALSE
  /\ life' = [present |-> FALSE, pending |-> FALSE, saved |-> [w \in Wins |-> Closed]]
  /\ started' = {}

(* WM_QUERYENDSESSION and the heartbeat go on whatever became of it, and   *)
(* so do the two below when it was not saved.                              *)
CheckpointOnly(F, fault) ==
  /\ Write(F)
  /\ timer' = Scheduled(F.flush, fault)
  /\ UNCHANGED <<life, started, phase>>

(* WM_ENDSESSION and WM_DESTROY end the process whatever became of it. *)
EndSession(F) == file' = F.state.file /\ Unloaded /\ phase' = "ended"

(* The tray's Exit and turning the automatic layout off go through only    *)
(* when the checkpoint was saved.                                          *)
TrayExit(F) == F.clean /\ file' = F.state.file /\ Unloaded /\ phase' = "exited"
TurnOff(F) == F.clean /\ file' = F.state.file /\ Unloaded /\ phase' = "off"

(* CheckpointAutoLayout, and what its caller does after it. *)
Checkpoint ==
  /\ Loaded
  /\ \E complete \in BOOLEAN, fault \in StorageFaults \cup {"timer"} :
       /\ MayFail(fault)
       /\ fault = "timer" => ~timer
       /\ \E m \in IF complete THEN FinalMatches ELSE {<<>>} :
          \E final \in {IF complete THEN FinalRecords(m) ELSE journal.records} :
          \E F \in {Checkpointed(final, fault)} :
            LET committed == complete /\ fault # "desktops" /\ FinalAccepted(final)
                newly == {w \in DOMAIN m : m[w] \notin DOMAIN journal.records}
            IN  /\ \E adopted \in SUBSET (IF committed THEN newly ELSE {}) :
                     bound' = [w \in Wins |-> IF w \in adopted THEN m[w]
                                             ELSE IF committed THEN Pruned(bound)[w]
                                             ELSE bound[w]]
                /\ \/ CheckpointOnly(F, fault)
                   \/ EndSession(F)
                   \/ TrayExit(F)
                   \/ TurnOff(F)
       /\ events' = Spend(fault)
  /\ UNCHANGED <<clock, where, dead>>

(* Before the layout is loaded, and while it is off, nothing is saved. *)
LeaveUnloaded ==
  /\ phase = "off" \/ (phase = "up" /\ ~Loaded)
  /\ phase' \in {"exited", "ended"}
  /\ Unloaded
  /\ UNCHANGED <<clock, file, where, bound, dead, events>>

(* ------------------------------ the start ------------------------------ *)

(* What LoadAutoLayout makes of the file: nothing is pending but the       *)
(* deletion of the records that have expired.                              *)
LoadAutoLayout ==
  LET expired == {r \in DOMAIN file.recs : IsExpired(file.recs[r], clock)}
      J == EmptyJournal(Without(file.recs, expired))
      delete(r) == Delta("expire", file.recs[r], file.recs[r], file.rev, clock)
  IN  [J |-> StageRecordDeltas(J, [r \in expired |-> delete(r)]),
       dirty |-> expired # {}]

(* The windows that the bindings file still knows get their record back,   *)
(* unless it cannot be read.                                               *)
RebindPersistedIdentities(recs) ==
  {[w \in Wins |-> NoId],
   [w \in Wins |-> IF w \in Open /\ bound[w] \in DOMAIN recs THEN bound[w] ELSE NoId]}

StartedBefore(stop) ==
  CASE stop = "monitor" -> {}
    [] stop = "layout" -> {"monitor"}
    [] stop = "heartbeat" -> {"monitor", "layout"}
    [] stop = "initialized" -> {"monitor", "layout", "heartbeat"}
    [] stop = "none" -> Stages

(* One attempt to start the automatic runtime: stage after stage until one *)
(* fails; the next attempt goes on from there.                             *)
AdvanceAutoRuntimeStart ==
  /\ phase = "up" /\ started # Stages
  /\ \E stop \in {"none"} \cup (Stages \ started) :
       LET loads == "layout" \in StartedBefore(stop) \ started
           rev == IF loads THEN file.rev ELSE revision
           L == IF loads THEN LoadAutoLayout ELSE [J |-> journal, dirty |-> flush.dirty]
           missing == stop = "none" /\ Open = {}
           I == IF missing THEN MarkAppMissing(L.J, rev) ELSE [J |-> L.J, dirty |-> FALSE]
           dirty == L.dirty \/ I.dirty
       IN  /\ MayFail(stop)
           /\ started' = StartedBefore(stop)
           /\ journal' = I.J
           /\ revision' = rev
           /\ flush' = [dirty |-> dirty, due |-> flush.dirty /\ flush.due /\ ~loads]
           /\ timer' = (stop = "none" /\ dirty)
           /\ IF stop = "none"
              THEN /\ bound' \in RebindPersistedIdentities(I.J.records)
                   /\ life' = [present |-> Open # {}, pending |-> Open # {}, saved |-> where]
              ELSE UNCHANGED <<bound, life>>
           /\ events' = Spend(stop)
  /\ UNCHANGED <<clock, file, where, armed, dead, phase>>

(* The automatic layout is turned on again. *)
TurnOn ==
  /\ phase = "off"
  /\ phase' = "up"
  /\ UNCHANGED <<clock, file, where, bound, dead, journal, revision, armed, flush,
                 timer, life, started, events>>

(* ------------------------------ the world ------------------------------ *)

(* The process dies between two handlers. *)
Crash ==
  /\ phase \in {"up", "off"}
  /\ phase' = "ended"
  /\ Unloaded
  /\ UNCHANGED <<clock, file, where, bound, dead, events>>

StartProgram ==
  /\ phase \in {"exited", "ended"} /\ events > 0
  /\ phase' = "up"
  /\ events' = events - 1
  /\ UNCHANGED <<clock, file, where, bound, dead, journal, revision, armed, flush,
                 timer, life, started>>

Tick ==
  /\ clock < MaxClock
  /\ clock' = clock + 1
  /\ UNCHANGED <<file, where, bound, dead, journal, revision, armed, flush, timer,
                 life, started, phase, events>>

(* The program does not know yet that its new record has reached the file. *)
NeverConfirmed(r) == r \in DOMAIN journal.deltas /\ journal.deltas[r].base = NoRec

(* A write whose result is unknown leaves the record out: the program       *)
(* takes a file without it for its own.                                     *)
TakenForOwnWrite(r) == armed.set /\ r \notin DOMAIN armed.recs

(* Another process writes one record of the file, or deletes it. *)
OtherWrites ==
  /\ events > 0
  /\ \E r \in Ids :
       LET written == {[file.recs EXCEPT ![r] = SeenAt(p, clock)] : p \in Places}
                        \cup {[file.recs EXCEPT ![r] = MarkMissing(@, clock)]}
           added == {Over([x \in {r} |-> SeenAt(p, clock)], file.recs) : p \in Places}
       IN  /\ r \in DOMAIN file.recs \/ Fresh(r)
           /\ \E recs \in IF r \in DOMAIN file.recs
                          THEN written \cup {Without(file.recs, {r})} ELSE added :
                /\ recs # file.recs
                /\ file' = [rev |-> NewRevision(journal, revision, file.rev),
                            recs |-> recs, by |-> "other"]
                /\ dead' = IF \/ r \in DOMAIN recs
                              \/ NeverConfirmed(r) \/ TakenForOwnWrite(r)
                           THEN dead ELSE dead \cup {r}
  /\ events' = events - 1
  /\ UNCHANGED <<clock, where, bound, journal, revision, armed, flush, timer, life,
                 started, phase>>

MoveWindow(w, p) ==
  /\ w \in Open /\ p # where[w]
  /\ where' = [where EXCEPT ![w] = p]
  /\ UNCHANGED <<bound, life>>

(* A window that comes up again is another window. *)
OpenWindow(w, p) ==
  /\ w \notin Open /\ bound[w] = NoId
  /\ where' = [where EXCEPT ![w] = p]
  /\ life' = [life EXCEPT !.saved[w] = Closed]
  /\ UNCHANGED bound

CloseWindow(w) ==
  /\ w \in Open
  /\ where' = [where EXCEPT ![w] = Closed]
  /\ bound' = IF Loaded THEN bound ELSE [bound EXCEPT ![w] = NoId]
  /\ UNCHANGED life

WindowsChange ==
  /\ events > 0
  /\ \E w \in Wins :
       \/ CloseWindow(w)
       \/ \E p \in Places : MoveWindow(w, p) \/ OpenWindow(w, p)
  /\ events' = events - 1
  /\ UNCHANGED <<clock, file, dead, journal, revision, armed, flush, timer, started,
                 phase>>

(* ------------------------------ the system ----------------------------- *)

Init ==
  /\ clock = 1
  /\ file = [rev |-> 1, recs |-> InitRecords, by |-> "vde"]
  /\ where = InitWhere
  /\ bound = [w \in Wins |-> NoId]
  /\ dead = {}
  /\ journal = EmptyJournal(<<>>)
  /\ revision = 0
  /\ armed = Unarmed
  /\ flush = [dirty |-> FALSE, due |-> FALSE]
  /\ timer = FALSE
  /\ life = [present |-> FALSE, pending |-> FALSE, saved |-> [w \in Wins |-> Closed]]
  /\ started = {}
  /\ phase = "up"
  /\ events = MaxEvents

Next ==
  \/ FlushTimer \/ FlushComesDue \/ MaintainAutoFlushTimer
  \/ Observe \/ RestorePass
  \/ \E w \in Wins : RecordWindowInPlace(w) \/ PopupSave(w)
  \/ Checkpoint \/ LeaveUnloaded \/ AdvanceAutoRuntimeStart \/ TurnOn \/ Crash \/ StartProgram
  \/ Tick \/ OtherWrites \/ WindowsChange

Spec == Init /\ [][Next]_vars

(* The window system delivers a timer that is armed, time passes, and the  *)
(* monitor's tick comes every five seconds: WF_vars of the three actions,  *)
(* with the enabling condition of the first written out.                   *)
LiveSpec ==
  /\ Spec
  /\ []<>~(Loaded /\ timer /\ flush.due) \/ []<><<FlushTimer>>_vars
  /\ WF_vars(FlushComesDue) /\ WF_vars(MaintainAutoFlushTimer)

(* ------------------------------ properties ----------------------------- *)

Times == 0 .. MaxClock
Records == [place : Places, seen : Times, missing : Times]
Revisions == 0 .. 2 * Cardinality(Ids) + 3

(* The variables have their types, and a record is in conflict only over a *)
(* change or a touch that is still in the journal.                         *)
TypeOK ==
  /\ clock \in Times
  /\ file.rev \in Revisions /\ file.by \in {"vde", "other"}
  /\ IsPartial(file.recs, Ids, Records)
  /\ where \in [Wins -> Places \cup {Closed}]
  /\ bound \in [Wins -> Ids \cup {NoId}]
  /\ dead \subseteq Ids
  /\ IsPartial(journal.records, Ids, Records)
  /\ IsPartial(journal.deltas, Ids,
       [kind : Kinds, rec : Records, base : Records \cup {NoRec},
        baseRev : Revisions, changed : Times, current : BOOLEAN])
  /\ IsPartial(journal.touches, Ids, [seen : Times, current : BOOLEAN])
  /\ IsPartial(journal.conflicts, Ids, [rev : Revisions, rec : Records \cup {NoRec}])
  /\ DOMAIN journal.conflicts \subseteq DOMAIN journal.deltas \cup DOMAIN journal.touches
  /\ revision \in Revisions
  /\ armed.set \in BOOLEAN /\ IsPartial(armed.recs, Ids, Records)
  /\ flush \in [dirty : BOOLEAN, due : BOOLEAN]
  /\ timer \in BOOLEAN
  /\ life \in [present : BOOLEAN, pending : BOOLEAN, saved : [Wins -> Places \cup {Closed}]]
  /\ started \subseteq Stages
  /\ phase \in {"up", "off", "exited", "ended"}

(* While the file is the one the records in memory come from, whatever     *)
(* they say differently is in the journal: a rebase, an adopted write of   *)
(* the program's own or a failed one leaves no change that would never be  *)
(* written (PersistAutoLayout, BuildRebasedResidualJournal).               *)
JournalExplainsMemory ==
  Loaded /\ revision = file.rev =>
    \A r \in Ids \ (DOMAIN journal.deltas \cup DOMAIN journal.touches) :
      LET mine == RecAt(journal.records, r)
          disk == RecAt(file.recs, r)
      IN  mine = disk \/ (mine # NoRec /\ disk # NoRec /\ SameSemantic(mine, disk))

(* Pending changes keep the layout dirty, so that the flush timer or a     *)
(* checkpoint comes back to them.                                          *)
PendingIsDirty ==
  Loaded /\ journal.deltas # <<>> => flush.dirty

OwnWrite == file' # file /\ file'.by = "vde"

(* A write of the program never takes back what the file knows of a later  *)
(* time, whoever wrote it, and removes no record but an expired one.       *)
LaterKnowledgeStays ==
  [][OwnWrite =>
       \A r \in DOMAIN file.recs :
         IF r \in DOMAIN file'.recs
         THEN RecordSemanticTimestamp(file'.recs[r]) >=
                RecordSemanticTimestamp(file.recs[r])
         ELSE IsExpired(MarkMissing(file.recs[r], clock), clock)]_vars

(* A record another process has deleted is not brought back by a change    *)
(* that was made to it before: of a record the program knew to be in the   *)
(* file and was not deleting itself, until a move by the picker records    *)
(* the window anew.                                                        *)
DeletedStaysDeleted == dead \cap DOMAIN file.recs = {}

(* A change leaves the journal only when the file has it, or knows better, *)
(* or the record has expired; a process that ends without its checkpoint   *)
(* is the one exception.                                                   *)
NothingIsForgotten ==
  [][phase' # "ended" =>
       \A r \in DOMAIN journal.deltas \ DOMAIN journal'.deltas :
         \/ /\ r \in DOMAIN file'.recs
            /\ RecordSemanticTimestamp(file'.recs[r]) >=
                 RecordSemanticTimestamp(journal.deltas[r].rec)
         \/ /\ r \notin DOMAIN file'.recs
            /\ IsExpired(MarkMissing(journal.deltas[r].rec, clock), clock)]_vars

(* Only what another process wrote conflicts with a change: the program's  *)
(* own write is recognised, also one whose success was never confirmed.    *)
OwnWriteNeverConflicts ==
  [][DOMAIN journal'.conflicts \ DOMAIN journal.conflicts # {} =>
       file.by = "other"]_vars

(* What is in memory and not in the file is in the journal and will be     *)
(* written, and nothing in it brings back what another process deleted.    *)
JournalIsSound ==
  TypeOK /\ JournalExplainsMemory /\ PendingIsDirty /\ DeletedStaysDeleted

(* Two writers and the failures of one: no write takes back what is known  *)
(* of a later time, no change is dropped before it is in the file, and the *)
(* program is never in conflict with itself.                               *)
KnowledgeIsKept ==
  LaterKnowledgeStays /\ NothingIsForgotten /\ OwnWriteNeverConflicts

(* A change is written, although flush timers and writes fail, unless it   *)
(* conflicts with what another process wrote.                              *)
DirtyIsWritten ==
  (Loaded /\ flush.dirty) ~> (~flush.dirty \/ Conflicted \/ ~Loaded)

(* vde.cpp:14679: an Exit that could not be completed can be retried.  So  *)
(* with a storage that works and a file that stays as it is, it goes       *)
(* through.  It does not hold (see README.md, "Known disagreements").      *)
ExitNeedsOnlyStorage ==
  Loaded /\ revision = file.rev =>
    \E m \in FinalMatches : Checkpointed(FinalRecords(m), "none").clean
=============================================================================
