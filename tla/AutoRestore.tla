----------------------------- MODULE AutoRestore -----------------------------
(***************************************************************************)
(* Automatic restore of one browser's windows: the heartbeat that observes *)
(* the windows, the lifecycle it feeds (module Lifecycle), the one restore *)
(* operation it may have under way, the records of where windows belong,   *)
(* the bindings of open windows to records and the gate that decides       *)
(* whether a window may still be moved back (src/src/vde.cpp).             *)
(*                                                                         *)
(* The user, the browser and the machine are the environment: they open,   *)
(* close, move and retitle windows, write the session file, make it        *)
(* unreadable, let a call fail or time out, and kill the program.  Each    *)
(* such step uses up one of MaxDisturbances.  The session and reconcile    *)
(* workers and the move engine are seen only through their results (they   *)
(* are the modules SessionPipeline and MoveEngine).                        *)
(***************************************************************************)
EXTENDS Lifecycle, FiniteSets, Functions

CONSTANTS Record,          \* record identities
          Page,            \* what each window shows: [Window -> pages]
          Started,         \* where the windows may be at the start
          Saved,           \* what the layout file may hold at the start
          NoRecord,        \* not a record
          RecordDelay,     \* WARM_RECORD_DELAY_MS
          Grace,           \* RESTORE_GRACE_MS
          MaxDisturbances  \* bound on the environment's steps

VARIABLES
  at,          \* where each window is
  born,        \* identities that were ever used
  titles,      \* what the title bars say, as one value
  stamp,       \* version of the browser's session file
  readable,    \* the session file can be decoded
  calm,        \* disturbances used up
  records,     \* g_autoRecords: [Record -> record or Nothing]
  bound,       \* g_recordByRuntime
  persisted,   \* bindings.txt
  held,        \* windows in g_pendingRecordByRuntime
  unbound,     \* g_unboundSinceMs as the age of its entries; Never if none
  gate,        \* g_restoreGates: time since warm; Never if cold
  spent,       \* g_restoreBudgets: exhausted <<record, window, destination>>
  decoded,     \* the session worker's cache holds a decoded file
  fresh,       \* g_lastFreshSessionSignature
  probing,     \* a metadata probe is under way
  lc,          \* g_lifecycleByApp
  op           \* the pending automatic operation, g_pendingAutoOperations

env == <<born, titles, stamp, readable, calm>>
store == <<records, bound, held, spent>>
clocks == <<unbound, gate>>
session == <<decoded, fresh, probing>>
vars == <<at, env, store, persisted, clocks, session, lc, op>>

Never == [kind |-> "never"]
Since(n) == [kind |-> "since", age |-> n]
Ages(limit) == {Never} \cup {Since(n) : n \in 0..limit}
AtLeast(a, delay) == a # Never /\ a.age >= delay
Older(a, limit) == IF a = Never \/ AtLeast(a, limit) THEN a
                                                     ELSE Since(a.age + 1)

Nothing == [kind |-> "none"]
Kept(page, desk, missing) ==
  [kind |-> "kept", page |-> page, desk |-> desk, missing |-> missing]
Pages == {Page[w] : w \in Window}
Placement == {Nothing} \cup
             {Kept(p, d, m) : p \in Pages, d \in Desktop, m \in BOOLEAN}

Present == Open(at)
BoundWindows(b) == {w \in Window : b[w] # NoRecord}
BoundRecords(b) == {b[w] : w \in BoundWindows(b)}
Known(recs) == {r \in Record : recs[r] # Nothing}

\* New identities for the windows of S, none of them taken.  A GUID never
\* collides; Record is what a model has of them.
Fits(S, taken) == Cardinality(S) <= Cardinality(Record \ taken)
NewRecordIds(S, taken) ==
  CHOOSE ids \in [S -> Record \ taken] : IsInjective(ids)
Creates(recs, ids, places) ==
  [r \in Record |->
     IF \E w \in DOMAIN ids : ids[w] = r
     THEN LET w == CHOOSE w \in DOMAIN ids : ids[w] = r
          IN Kept(Page[w], places[w], FALSE)
     ELSE recs[r]]
Binds(b, ids) == [w \in Window |-> IF w \in DOMAIN ids THEN ids[w] ELSE b[w]]

\* Every open bound window is recorded where it is.
Refreshed(recs, b) ==
  [r \in Record |->
     IF \E w \in Present : b[w] = r
     THEN LET w == CHOOSE w \in Present : b[w] = r
          IN [recs[r] EXCEPT !.desk = at[w], !.missing = FALSE]
     ELSE recs[r]]

----------------------------------------------------------------------------
(***************************************************************************)
(* The operation.  "session": the session file is being read; "prepare":   *)
(* the live windows are being fingerprinted; "plan": the unbound windows   *)
(* are being matched; "moves": the matched windows are being moved.        *)
(* looked is what the snapshot taken with the session result showed, stale *)
(* whether a later snapshot differed from it.                              *)
(***************************************************************************)
Idle == [phase |-> "idle"]
Phase(p) == op.phase = p
Looked == <<at, titles>>
Current == op.looked = Looked /\ ~op.stale

\* Windows with a queued job hold a g_reservedAutoIdentities entry.
Reserved == IF Phase("moves") THEN op.queue ELSE {}

\* Identities of windows that show the same come in order.
InOrder(used) ==
  \A v \in Window, w \in used : Page[v] = Page[w] /\ v < w => v \in used

ASSUME AutoRestoreAssumption ==
  /\ Window \subseteq Nat /\ IsFiniteSet(Window) /\ IsFiniteSet(Record)
  /\ NoRecord \notin Record /\ 1 \in Stamp
  /\ DOMAIN Page = Window
  /\ Started \subseteq Layout
  /\ \A places \in Started : InOrder(Open(places))
  /\ Saved \subseteq [Record -> Placement]
  /\ RecordDelay \in Nat /\ Grace \in Nat \ {0}
  /\ MaxDisturbances \in Nat

Init ==
  /\ at \in Started
  /\ born = Open(at)
  /\ titles = 0
  /\ stamp = 1
  /\ readable \in BOOLEAN
  /\ calm = 0
  /\ records \in Saved
  /\ bound \in [Window -> Known(records) \cup {NoRecord}]
  /\ IsInjective(Restrict(bound, BoundWindows(bound)))
  /\ \A w \in BoundWindows(bound) :
        w \in Present /\ records[bound[w]].page = Page[w]
  /\ persisted = bound
  /\ held = {}
  /\ unbound = [w \in Window |-> Never]
  /\ gate = Never
  /\ spent = {}
  /\ decoded = FALSE /\ fresh = 0 /\ probing = FALSE
  /\ lc = LcNew
  /\ op = Idle

----------------------------------------------------------------------------
(***************************************************************************)
(* The environment.                                                        *)
(***************************************************************************)
Disturb == calm < MaxDisturbances /\ calm' = calm + 1

OpenWindow(w, d) ==
  /\ Disturb
  /\ w \notin born
  /\ at' = [at EXCEPT ![w] = d]
  /\ born' = born \cup {w} /\ InOrder(born')
  /\ UNCHANGED <<titles, stamp, readable, store, persisted, clocks, session,
                 lc, op>>

CloseWindow(w) ==
  /\ Disturb
  /\ w \in Present
  /\ at' = [at EXCEPT ![w] = Away]
  /\ UNCHANGED <<born, titles, stamp, readable, store, persisted, clocks,
                 session, lc, op>>

UserMoves(w, d) ==
  /\ Disturb
  /\ w \in Present /\ at[w] # d
  /\ at' = [at EXCEPT ![w] = d]
  /\ UNCHANGED <<born, titles, stamp, readable, store, persisted, clocks,
                 session, lc, op>>

TitlesChange ==
  /\ Disturb
  /\ titles' \in Titles \ {titles}
  /\ UNCHANGED <<at, born, stamp, readable, store, persisted, clocks,
                 session, lc, op>>

\* The browser writes its session file, well or badly.
BrowserSaves ==
  /\ Disturb
  /\ stamp + 1 \in Stamp /\ stamp' = stamp + 1
  /\ readable' \in BOOLEAN
  /\ UNCHANGED <<at, born, titles, store, persisted, clocks, session, lc, op>>

TimePasses ==
  /\ lc' = LcElapse(lc)
  /\ gate' = Older(gate, Grace)
  /\ unbound' = [w \in Window |-> Older(unbound[w], RecordDelay)]
  /\ UNCHANGED <<at, env, store, persisted, session, op>>

\* The program is killed and started again: only the files survive.  Of the
\* bindings read back, those of windows that are still open are adopted.
Restart ==
  /\ Disturb
  /\ bound' = [w \in Window |->
       IF w \in Present /\ persisted[w] \in Known(records)
       THEN persisted[w] ELSE NoRecord]
  /\ held' = {} /\ spent' = {}
  /\ unbound' = [w \in Window |-> Never] /\ gate' = Never
  /\ decoded' = FALSE /\ fresh' = 0 /\ probing' = FALSE
  /\ lc' = LcNew
  /\ op' = Idle
  /\ UNCHANGED <<at, born, titles, stamp, readable, records, persisted>>

----------------------------------------------------------------------------
(***************************************************************************)
(* The heartbeat.                                                          *)
(***************************************************************************)
\* PruneStaleRuntimeState: a window that is gone keeps nothing.
Living == Present \cup Reserved
PrunedBindings == [w \in Window |-> IF w \in Living THEN bound[w]
                                                    ELSE NoRecord]

\* ObserveRestoreGates: an app is cold while no open window is bound.
ObservedGate(b) == IF BoundWindows(b) = {} THEN Never
                   ELSE IF gate = Never THEN Since(0) ELSE gate
RecordOnly(g) == AtLeast(g, Grace)

\* Seeded fault: a window that waits for its move is recorded in place.
OnlyHeld == held \ Reserved

\* RecordLingeringUnboundWindows passes over these.
Overlooked == Reserved \cup held
Lingering(b) == Present \ (BoundWindows(b) \cup Overlooked)
\* Records the operation under way will still create.
Claimed == IF Phase("moves") THEN Cardinality(op.creates) ELSE 0
RecordedInPlace(b, g) ==
  LET due == {w \in Lingering(b) : AtLeast(unbound[w], RecordDelay)}
      room == Cardinality(Record \ Known(records))
  IN IF RecordOnly(g) /\ Cardinality(due) + Claimed <= room THEN due ELSE {}

NextUnbound(b, inPlace, whole) ==
  [w \in Window |->
     IF ~whole \/ w \notin Present \/ w \in BoundWindows(b) \cup inPlace
     THEN Never
     ELSE IF w \in Lingering(b) /\ unbound[w] = Never THEN Since(0)
     ELSE unbound[w]]

AllMissing(recs) ==
  [r \in Record |-> IF recs[r] = Nothing THEN Nothing
                    ELSE [recs[r] EXCEPT !.missing = TRUE]]

(***************************************************************************)
(* ObserveFastSnapshots.  trouble is "partial" when a window's desktop     *)
(* could not be read, "refused" when no session request could be queued.   *)
(***************************************************************************)
Observe(trouble) ==
  LET whole == trouble # "partial"
      kept == PrunedBindings
      gated == ObservedGate(kept)
      inPlace == IF whole THEN RecordedInPlace(kept, gated) ELSE {}
      ids == NewRecordIds(inPlace, Known(records))
      binds == Binds(kept, ids)
      recs == Creates(records, ids, at)
      decision == LcObserve(lc, at, titles, fresh)
      begins == decision.action = "BeginRestore" /\ trouble = "none"
      saves == decision.action = "SaveLayout"
      allBound == Present \subseteq BoundWindows(binds)
  IN /\ IF trouble = "none" THEN UNCHANGED calm ELSE Disturb
     /\ bound' = binds
     /\ persisted' = binds
     /\ gate' = gated
     /\ unbound' = NextUnbound(kept, inPlace, whole)
     /\ spent' = {s \in spent : s[2] \in Living}
     /\ held' = IF saves /\ whole
                THEN (held \cap Living) \ BoundWindows(binds)
                ELSE held \cap Living
     /\ records' = CASE decision.action = "MarkMissing" -> AllMissing(recs)
                     [] saves /\ whole -> Refreshed(recs, binds)
                     [] OTHER -> recs
     /\ lc' = CASE saves -> IF whole /\ allBound
                            THEN LcExplicitSaveCompleted(decision.lc, at)
                            ELSE LcExplicitSaveNeedsReconcile(decision.lc, at)
                [] decision.action = "BeginRestore" /\ ~begins ->
                     LcCancelRestore(decision.lc)
                [] OTHER -> decision.lc
     /\ op' = IF begins
              THEN [phase |-> "session", windows |-> Present, layout |-> at]
              ELSE IF Phase("prepare") \/ Phase("plan")
              THEN [op EXCEPT !.stale = @ \/ op.looked # Looked]
              ELSE op
     /\ probing' = (probing \/ (/\ trouble # "refused" /\ Present # {}
                                /\ ~lc'.pending /\ ~lc'.inFlight))
     /\ UNCHANGED <<at, born, titles, stamp, readable, decoded, fresh>>

----------------------------------------------------------------------------
(***************************************************************************)
(* The results an operation waits for.                                     *)
(***************************************************************************)

\* CancelAutoOperation(..., rearm = true) before any move is queued.
CancelAutoOperation ==
  /\ lc' = LcCancelRestore(lc)
  /\ op' = Idle

\* CompleteAutoDeferred, and a deferred plan.
CompleteAutoDeferred(layout, source) ==
  /\ lc' = LcRestoreCompleted(lc, "Deferred", layout, source)
  /\ op' = Idle

\* A superseded request, a worker that failed, a route or a reconcile that
\* ran out of time, a snapshot that could not be taken.
Abandon ==
  /\ Disturb
  /\ op.phase \in {"session", "prepare", "plan"}
  /\ CancelAutoOperation
  /\ UNCHANGED <<at, born, titles, stamp, readable, store, persisted, clocks,
                 session>>

SessionUnavailable ==
  /\ Phase("session")
  /\ ~readable
  /\ CompleteAutoDeferred(op.layout, stamp)
  /\ UNCHANGED <<at, env, store, persisted, clocks, session>>

\* HandleAutoSessionResult with usable data, just decoded or from the cache.
SessionUsable ==
  /\ Phase("session")
  /\ readable \/ decoded
  /\ decoded' = TRUE
  /\ IF Present # op.windows
     THEN CancelAutoOperation /\ UNCHANGED fresh
     ELSE /\ op' = [phase |-> "prepare", looked |-> Looked, layout |-> at,
                    source |-> stamp, fresh |-> readable, stale |-> FALSE]
          /\ fresh' = IF readable THEN stamp ELSE fresh
          /\ UNCHANGED lc
  /\ UNCHANGED <<at, env, store, persisted, clocks, probing>>

\* HandleMetadataProbeSessionResult; it is dropped when the windows changed
\* since the probe was sent.
ProbeResult ==
  /\ probing /\ probing' = FALSE
  /\ decoded' = (decoded \/ readable)
  /\ fresh' \in {fresh} \cup (IF readable THEN {stamp} ELSE {})
  /\ UNCHANGED <<at, env, store, persisted, clocks, lc, op>>

\* The windows the plan is made for: a row of a fresh read that carries no
\* usable fingerprint is omitted, and the plan is then made as from a cache.
PlanRows(rows) == rows \in SUBSET (Present \ BoundWindows(bound))
                  /\ (~op.fresh => rows = Present \ BoundWindows(bound))

\* HandleReconcileResult, PrepareLiveOnly.
Prepared(rows) ==
  /\ Phase("prepare")
  /\ PlanRows(rows)
  /\ IF ~Current
     THEN CancelAutoOperation /\ UNCHANGED <<records, held>>
     ELSE /\ records' = Refreshed(records, bound)
          /\ held' = held \ BoundWindows(bound)
          /\ op' = [phase |-> "plan", looked |-> op.looked,
                    layout |-> op.layout, source |-> op.source,
                    stale |-> op.stale, base |-> records', rows |-> rows,
                    reserved |-> BoundRecords(bound),
                    fresh |-> op.fresh /\ rows = Present \ BoundWindows(bound)]
          /\ UNCHANGED lc
  /\ UNCHANGED <<at, env, bound, spent, persisted, clocks, session>>

----------------------------------------------------------------------------
(***************************************************************************)
(* The plan.  A window is matched to a record of what it shows, when its   *)
(* pages are recognised (the scores of MatchOneToOne are not modelled, nor *)
(* splits and merges of windows).                                          *)
(***************************************************************************)
\* Seeded fault: records of windows that are open and bound may be matched.
AnyRecord == Known(op.base)

Eligible == Known(op.base) \ op.reserved

Matchings ==
  UNION {{m \in [rows -> Eligible] :
            /\ IsInjective(m)
            /\ \A w \in rows : op.base[m[w]].page = Page[w]}
           : rows \in SUBSET op.rows}

NewRecords(m) == IF op.fresh THEN op.rows \ DOMAIN m ELSE {}
MissingRecords(m) == IF op.fresh THEN Eligible \ Range(m) ELSE {}
Destination(m, w) == op.base[m[w]].desk
Restores(m) == {w \in DOMAIN m : Destination(m, w) # op.layout[w]}
\* A row without counts may not be moved on its title alone.
Unread(rows, m) == rows \in SUBSET Restores(m) /\ (op.fresh => rows = {})
Budget(m, w) == <<m[w], w, Destination(m, w)>>

\* Seeded fault: a record takes the place its window was seen in, moved back
\* or not.
CommittedInPlace(m) ==
  [r \in Record |->
     IF r \in Range(m)
     THEN LET w == CHOOSE w \in DOMAIN m : m[w] = r
          IN [op.base[r] EXCEPT !.desk = op.layout[w], !.missing = FALSE]
     ELSE records[r]]

\* CommitAppReconcile over the records the plan was made from, applied to
\* the records of now.
Committed(m) ==
  [r \in Record |->
     IF r \in Range(m) THEN [op.base[r] EXCEPT !.missing = FALSE]
     ELSE IF r \in MissingRecords(m) THEN [op.base[r] EXCEPT !.missing = TRUE]
     ELSE records[r]]

\* FinishAutoOperation: done are the restores that succeeded.
FinishAutoOperation(m, done, waiting) ==
  LET succeeded == {w \in DOMAIN m : w \in Restores(m) => w \in done}
      ids == NewRecordIds(NewRecords(m), Known(records))
      placed == [w \in succeeded \cup NewRecords(m) |->
                   IF w \in succeeded THEN m[w] ELSE ids[w]]
  IN /\ records' = Creates(Committed(m), ids, op.layout)
     /\ bound' = Binds(bound, placed)
     /\ held' = (waiting \cup Restores(m)) \ DOMAIN placed
     /\ lc' = LcRestoreCompleted(lc, "Success", op.layout, op.source)
     /\ op' = Idle

PlanDeferred ==
  /\ Phase("plan")
  /\ Current
  /\ CompleteAutoDeferred(op.layout, op.source)
  /\ UNCHANGED <<at, env, store, persisted, clocks, session>>

PlanOutdated ==
  /\ Phase("plan")
  /\ ~Current
  /\ CancelAutoOperation
  /\ UNCHANGED <<at, env, store, persisted, clocks, session>>

\* HandleReconcileResult, Plan.
Planned(m, unread) ==
  LET allowed == ~RecordOnly(gate)
      tried == IF allowed THEN Restores(m) \ unread ELSE {}
      queue == {w \in tried : Budget(m, w) \notin spent}
  IN /\ Phase("plan")
     /\ Current
     /\ m \in Matchings
     /\ Unread(unread, m)
     /\ Fits(NewRecords(m), Known(records))
     /\ IF queue = {}
        THEN FinishAutoOperation(m, {}, held \cup tried)
        ELSE /\ held' = held \cup tried
             /\ op' = [phase |-> "moves", layout |-> op.layout,
                       source |-> op.source, base |-> op.base,
                       rows |-> op.rows, reserved |-> op.reserved,
                       fresh |-> op.fresh, matches |-> m, queue |-> queue,
                       done |-> {}, creates |-> NewRecords(m)]
             /\ UNCHANGED <<records, bound, lc>>
     /\ UNCHANGED <<at, env, spent, persisted, clocks, session>>

\* DispatchMoveOwnerResult: the move engine is done with one window.
MoveEnded(w, outcome) ==
  LET m == op.matches
      done == IF outcome = "Succeeded" THEN op.done \cup {w} ELSE op.done
  IN /\ Phase("moves")
     /\ w \in op.queue
     /\ outcome = "Succeeded" => w \in Present
     /\ at' = IF outcome = "Succeeded"
              THEN [at EXCEPT ![w] = Destination(m, w)] ELSE at
     /\ spent' = CASE outcome = "Succeeded" -> spent \ {Budget(m, w)}
                   [] outcome = "Exhausted" -> spent \cup {Budget(m, w)}
                   [] OTHER -> spent
     /\ IF op.queue = {w}
        THEN FinishAutoOperation(m, done, held)
        ELSE /\ op' = [op EXCEPT !.queue = @ \ {w}, !.done = done]
             /\ UNCHANGED <<records, bound, held, lc>>
     /\ UNCHANGED <<env, persisted, clocks, session>>

----------------------------------------------------------------------------
Environment ==
  \/ \E w \in Window, d \in Desktop : OpenWindow(w, d) \/ UserMoves(w, d)
  \/ \E w \in Window : CloseWindow(w)
  \/ TitlesChange
  \/ BrowserSaves
  \/ Restart
  \/ Abandon
  \/ \E trouble \in {"partial", "refused"} : Observe(trouble)

SessionAnswers == SessionUnavailable \/ SessionUsable
PrepareAnswers == \E rows \in SUBSET Window : Prepared(rows)
PlanAnswers ==
  \/ PlanDeferred
  \/ PlanOutdated
  \/ /\ Phase("plan")
     /\ \E m \in Matchings, unread \in SUBSET Window : Planned(m, unread)
MoveAnswers ==
  \E w \in Window, outcome \in {"Succeeded", "Exhausted", "Failed"} :
     MoveEnded(w, outcome)

Next ==
  \/ Environment
  \/ TimePasses
  \/ Observe("none")
  \/ ProbeResult
  \/ SessionAnswers
  \/ PrepareAnswers
  \/ PlanAnswers
  \/ MoveAnswers

\* The next heartbeat takes the lifecycle a step further.
HeartbeatDue ==
  LET decision == LcObserve(lc, at, titles, fresh)
  IN decision.lc # lc /\ decision.action # "SaveLayout"

\* The monitor timer fires every 5 s, and each worker and the move engine
\* answers what it was asked: nobody waits for an answer for ever.  This is
\* weak fairness of each action with its enabling condition written out; of
\* the heartbeat it is asked only for when one is due.
Fairness ==
  /\ WF_vars(TimePasses)
  /\ []<>~HeartbeatDue \/ []<><<Observe("none")>>_vars
  /\ []<>~probing
  /\ \A p \in {"session", "prepare", "plan", "moves"} : []<>~Phase(p)

Spec == Init /\ [][Next]_vars
FairSpec == Spec /\ Fairness
----------------------------------------------------------------------------
(***************************************************************************)
(* Properties.                                                             *)
(***************************************************************************)
Operation ==
  {Idle} \cup
  [phase : {"session"}, windows : SUBSET Window, layout : Layout] \cup
  [phase : {"prepare"}, looked : Layout \X Titles, layout : Layout,
   source : Stamp, fresh : BOOLEAN, stale : BOOLEAN] \cup
  [phase : {"plan"}, looked : Layout \X Titles, layout : Layout,
   source : Stamp, stale : BOOLEAN, base : [Record -> Placement],
   rows : SUBSET Window, reserved : SUBSET Record, fresh : BOOLEAN] \cup
  [phase : {"moves"}, layout : Layout, source : Stamp,
   base : [Record -> Placement], rows : SUBSET Window,
   reserved : SUBSET Record, fresh : BOOLEAN,
   matches : UNION {[ws -> Record] : ws \in SUBSET Window},
   queue : SUBSET Window, done : SUBSET Window, creates : SUBSET Window]

TypeOK ==
  /\ at \in Layout /\ born \subseteq Window
  /\ titles \in Titles /\ stamp \in Stamp /\ readable \in BOOLEAN
  /\ calm \in 0..MaxDisturbances
  /\ records \in [Record -> Placement]
  /\ bound \in [Window -> Record \cup {NoRecord}]
  /\ persisted \in [Window -> Record \cup {NoRecord}]
  /\ held \subseteq Window
  /\ unbound \in [Window -> Ages(RecordDelay)] /\ gate \in Ages(Grace)
  /\ spent \subseteq Record \X Window \X Desktop
  /\ decoded \in BOOLEAN /\ fresh \in Stamp /\ probing \in BOOLEAN
  /\ lc \in LcState
  /\ op \in Operation

\* A restore the lifecycle waits for is under way, and the other way round:
\* a lost operation would keep the app from ever being saved again.
FlightHasOperation == lc.inFlight <=> op # Idle

\* The state has its type, and every binding is to a record that exists and no other window has, so
\* that two windows never take turns in overwriting one place.
BindingsAreOneToOne ==
  /\ TypeOK
  /\ \A w \in BoundWindows(bound) : records[bound[w]] # Nothing
  /\ \A v, w \in BoundWindows(bound) : bound[v] = bound[w] => v = w

Relocated(r) == records[r] # Nothing /\ records'[r] # Nothing
                /\ records'[r].desk # records[r].desk
\* Where a window belongs is rewritten only by that window: a record takes a
\* new desktop only from the open window bound to it, which is there, and
\* never from where a restarted browser happened to put its windows.
PlacementsSurvive ==
  [][\A r \in Record : Relocated(r) =>
       \E w \in Window : /\ bound[w] = r /\ bound'[w] = r
                         /\ at[w] = records'[r].desk]_vars

MovedBack(w) == w \in Reserved /\ w \notin Reserved' /\ at'[w] # at[w]
\* A window VDE knows is the user's: while it is open it stays bound, unless
\* the program is killed, and it is never moved.
BoundWindowsAreLeftAlone ==
  [][\A w \in BoundWindows(bound) \cap Present :
        /\ bound'[w] # NoRecord \/ w \notin Present' \/ Restart
        /\ ~MovedBack(w)]_vars

\* A restore the lifecycle waits for is always under way, and once nothing
\* disturbs the app any more, restores stop.
RestoresStop == []FlightHasOperation /\ <>[](~lc.inFlight /\ ~lc.pending)

\* What the README of the program says: a window that stays open next to
\* windows VDE knows is the user's; once it has waited WARM_RECORD_DELAY_MS, the
\* next heartbeat records it where it is (RecordLingeringUnboundWindows), unless
\* it is being moved.  It does not hold (see README.md, "Known disagreements").
LongOpen == {w \in Present \ Reserved : AtLeast(unbound[w], RecordDelay)}
WarmWindowsAreRecorded ==
  [][/\ Observe("none")
     /\ RecordOnly(ObservedGate(PrunedBindings))
     /\ Fits(LongOpen, Known(records))
     => LongOpen \subseteq BoundWindows(bound')]_vars
=============================================================================
