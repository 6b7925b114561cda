--------------------------- MODULE SessionPipeline ---------------------------
(***************************************************************************)
(* How win-vde obtains browser-session data and a window matching for an   *)
(* operation: the request routes and deadlines the UI thread keeps         *)
(* (RequestSessionWork, AsyncSessionRouteGate, AsyncReconcileDeadlineGate, *)
(* the WM_SESSION_RESULT and WM_RECONCILE_RESULT handlers, the monitor     *)
(* timer that expires both), and the two worker threads behind them        *)
(* (SessionWorker, ReconcileWorker): a pending slot per application, a     *)
(* condition variable, results posted to the UI thread, and Stop.          *)
(*                                                                         *)
(* The UI thread runs one window message at a time.  A handler's effect on *)
(* the state only the UI thread touches is one operator on `ui'; what it   *)
(* does after it has released a worker's mutex (post a superseded result,  *)
(* notify the condition variable, ask for the next application) is left on *)
(* `stack', so that the workers may run in between.                        *)
(*                                                                         *)
(* An operation asks for each of its applications once, so a request is    *)
(* named by its operation and application; request ids only tell requests  *)
(* apart.  The 60 s lifetimes are abstracted to "may have passed".  The    *)
(* limits of 16 routes, 32 operations and 4096 requests are out of reach   *)
(* of three applications and left out.                                     *)
(***************************************************************************)
EXTENDS Naturals, Sequences, FiniteSets, FiniteSetsExt, SequencesExt

CONSTANTS
    Apps,         \* browsers with windows
    AppOrder,     \* the applications, sorted by name
    OpIds,        \* operations, each begun at most once
    KindOf,       \* "save", "restore", "auto", "search" or "probe"
    AppsOf,       \* the applications an operation asks for
    MaxChanges,   \* bound of the model: changes of the windows
    Faults,       \* which calls may fail: allocation in a result handler or
                  \* worker, PostMessage, and SetTimer, Request or a snapshot
    MayQuit,      \* the program may be told to exit
    NoOp

Kinds == {"save", "restore", "auto", "search", "probe"}
Workers == {"session", "reconcile"}
Modes == {"none", "PrepareLiveOnly", "Plan"}
FaultKinds == {"alloc", "post", "refuse"}

ASSUME PipelineAssumption ==
    /\ AppOrder \in Seq(Apps) /\ ToSet(AppOrder) = Apps
    /\ IsInjective(AppOrder)
    /\ KindOf \in [OpIds -> Kinds]
    /\ AppsOf \in [OpIds -> (SUBSET Apps) \ {{}}]
    /\ \A o \in OpIds : KindOf[o] \in {"auto", "probe"} =>
            Cardinality(AppsOf[o]) = 1
    /\ MaxChanges \in Nat /\ Faults \subseteq FaultKinds
    /\ MayQuit \in BOOLEAN /\ NoOp \notin OpIds

VARIABLES
    ui,        \* operations, routes and deadlines of the UI thread
    world,     \* the windows of each application, as CollectFastSnapshots sees them
    autoFix,   \* automatic restore is switched on
    quit,      \* RuntimeQuiescenceState
    pending,   \* pending_ of each worker: one slot per application
    order,     \* the session worker's applications, in queue order
    thread,    \* what each worker thread is doing
    stopping,  \* stopping_ of each worker
    msgs,      \* results posted to the UI thread and not handled
    stack      \* what the running handler still has to do

uiVars == <<ui, world, autoFix, quit>>
workerVars == <<pending, order, thread, stopping>>
vars == <<uiVars, workerVars, msgs, stack>>

Requests == [op : OpIds, app : Apps, mode : Modes]
Request(o, a, mode) == [op |-> o, app |-> a, mode |-> mode]
NoRequest == [op |-> NoOp, app |-> NoOp, mode |-> "none"]
Snapshots == [set : 0..MaxChanges, content : 0..MaxChanges]

Unseen == [a \in Apps |-> [set |-> 0, content |-> 0]]

\* What a save has of an application: nothing yet, the records prepared for it,
\* or the answer for which it is skipped.
Gains == {"nothing", "Prepared", "Superseded", "CachedStale", "Unavailable"}
Ungot == [a \in Apps |-> "nothing"]

Init ==
    /\ ui = [phase |-> [o \in OpIds |-> "new"],
             captured |-> [o \in OpIds |-> Unseen],
             session |-> [o \in OpIds |-> {}],    \* session results awaited
             matching |-> [o \in OpIds |-> {}],   \* waitingReconcileApps
             mode |-> [o \in OpIds |-> "none"],   \* reconcileMode
             gate |-> [a \in Apps |-> NoOp],      \* AsyncSessionRouteGate::byApp_
             routes |-> {},                       \* g_sessionRoutes
             due |-> [o \in OpIds |-> 0],         \* AsyncReconcileDeadlineGate
             monitor |-> TRUE,                    \* TIMER_MONITOR is set
             got |-> [o \in OpIds |-> Ungot],     \* preparedLive, skippedApps
             writing |-> {},                      \* the save about to be written
             published |-> {}]                    \* saves that reached the file
    /\ world = Unseen
    /\ autoFix = TRUE /\ quit = "running"
    /\ pending = [w \in Workers |-> [a \in Apps |-> NoRequest]] /\ order = <<>>
    /\ thread = [w \in Workers |-> [pc |-> "awake", req |-> NoRequest, status |-> "none"]]
    /\ stopping = [w \in Workers |-> FALSE]
    /\ msgs = <<>> /\ stack = <<>>

Priority(o) == CASE KindOf[o] \in {"save", "restore"} -> 4
                 [] KindOf[o] = "auto" -> 3
                 [] KindOf[o] = "search" -> 2
                 [] OTHER -> 1

-----------------------------------------------------------------------------
(* The operations, as the UI thread keeps them. *)

Live(u, o) == u.phase[o] = "live"
Outstanding(u, o) == u.session[o] \cup u.matching[o]

Current(u, o, a) == u.captured[o][a] = world[a]

\* The operations `ops' are independent of one another, so that a loop which
\* ends each of them is one update.
RetireSessionRoutesForOperation(u, ops) ==
    [u EXCEPT !.gate = [a \in Apps |-> IF @[a] \in ops THEN NoOp ELSE @[a]],
              !.routes = {r \in @ : r[1] \notin ops}]

Reset(f, ops, value) == [o \in OpIds |-> IF o \in ops THEN value ELSE f[o]]

Close(u, ops) ==
    [u EXCEPT !.phase = Reset(@, ops, "ended"), !.captured = Reset(@, ops, Unseen),
              !.mode = Reset(@, ops, "none"), !.session = Reset(@, ops, {}),
              !.matching = Reset(@, ops, {}), !.due = Reset(@, ops, 0),
              !.got = Reset(@, ops, Ungot)]

Cancel(u, ops) == Close(RetireSessionRoutesForOperation(u, ops), ops)

\* Ends the operation when nothing it asked for is outstanding.
Settle(u, o) == IF Outstanding(u, o) = {} THEN Close(u, {o}) ELSE u

\* An operation goes on without an application, for each <<o, a>> of `given'.
Leave(u, given) ==
    LET minus(f) == [o \in OpIds |-> {a \in f[o] : <<o, a>> \notin given}]
    IN [u EXCEPT !.session = minus(@), !.matching = minus(@)]

Gain(u, o, a, what) == [u EXCEPT !.got[o][a] = what]

\* Up to the check of the windows: what is left is to take the lock and write.
\* A save that is refused for another reason (desktops that changed, nothing to
\* save) is one whose write fails; that each browser has an answer, which the
\* code checks once more, is what SaveIsComplete says.
FinishManualSave(u, o) ==
    IF Outstanding(u, o) # {} THEN u
    ELSE [Close(u, {o}) EXCEPT !.writing =
            IF \A a \in Apps : Current(u, o, a)
            THEN @ \cup {[op |-> o, windows |-> u.captured[o], got |-> u.got[o]]}
            ELSE @]

\* The routes `old' are gone: a search does without these applications, any
\* other operation ends.
RetireAsyncSessionOperation(u, old) ==
    LET losers == {o \in OpIds : Live(u, o) /\ \E a \in Apps : <<o, a>> \in old}
        over == {o \in losers : KindOf[o] = "search" =>
                                  \A a \in Outstanding(u, o) : <<o, a>> \in old}
        cancelled == {o \in losers : KindOf[o] \in {"auto", "save", "restore"}}
    IN Close(Leave(RetireSessionRoutesForOperation(u, cancelled), old), over)

Unroute(u, old) ==
    [u EXCEPT !.gate = [a \in Apps |-> IF <<@[a], a>> \in old THEN NoOp ELSE @[a]],
              !.routes = @ \ old]

\* Seeded fault: the operation that loses its route is not told.
DisplaceSilently(u, a) == Unroute(u, {<<u.gate[a], a>>})

\* A new route for the application retires the one it replaces.
Displace(u, a) ==
    LET old == {<<u.gate[a], a>>}
    IN RetireAsyncSessionOperation(Unroute(u, old), old)

Admits(u, o, a) ==
    u.gate[a] # NoOp => Priority(o) >= Priority(u.gate[a])

\* Seeded fault: the matching work still outstanding is forgotten.
IgnoresMatching(u) == u.routes = {}

NothingOutstanding(u) == u.routes = {} /\ \A o \in OpIds : u.due[o] = 0

KillMonitorIfIdle(u) ==
    IF NothingOutstanding(u) THEN [u EXCEPT !.monitor = FALSE] ELSE u

-----------------------------------------------------------------------------
(* The pending slot of a worker: Request, up to the end of its critical    *)
(* section.  The session worker keeps the more important of two requests   *)
(* for an application, the reconcile worker the newer one.                 *)

Idle == stack = <<>>
Running == quit = "running"
Calling(fn) == stack # <<>> /\ Head(stack).fn = fn
Rest == Tail(stack)
Ask(o, apps) == [fn |-> "Ask", op |-> o, apps |-> apps]
PostSuperseded(w, req) == [fn |-> "PostSuperseded", worker |-> w, req |-> req]
Notify(w) == [fn |-> "Notify", worker |-> w]
Stop(w) == [fn |-> "Stop", worker |-> w]
Join(w) == [fn |-> "Join", worker |-> w]
Drain == [fn |-> "Drain"]

Before(line, a, b) ==
    \E i, j \in DOMAIN line : i < j /\ line[i] = a /\ line[j] = b
HasWork(w) == \E a \in Apps : pending[w][a] # NoRequest
Slot(w, req) == pending[w][req.app]

\* Seeded fault: a request no more important than the queued one loses.
RejectsEqual(w, req) ==
    /\ w = "session" /\ Slot(w, req) # NoRequest
    /\ Priority(req.op) <= Priority(Slot(w, req).op)

Rejects(w, req) ==
    /\ w = "session" /\ Slot(w, req) # NoRequest
    /\ Priority(req.op) < Priority(Slot(w, req).op)

Supersedes(w, req) ==
    IF Rejects(w, req) THEN <<PostSuperseded(w, req)>>
    ELSE IF Slot(w, req) = NoRequest THEN <<>>
    ELSE <<PostSuperseded(w, Slot(w, req))>>

\* Seeded fault: only a replaced request wakes the worker.
WakesOnReplacement(w, req) ==
    IF Slot(w, req) = NoRequest THEN <<>> ELSE <<Notify(w)>>

Wakes(w, req) == IF Rejects(w, req) THEN <<>> ELSE <<Notify(w)>>

Without(a) ==
    IF a \in ToSet(order)
    THEN RemoveAt(order, CHOOSE i \in DOMAIN order : order[i] = a) ELSE order

EnqueueRequest(w, req, rest) ==
    /\ IF Rejects(w, req) THEN UNCHANGED <<pending, order>>
       ELSE /\ pending' = [pending EXCEPT ![w][req.app] = req]
            /\ order' = IF w = "session" THEN Append(Without(req.app), req.app)
                        ELSE order
    /\ stack' = Supersedes(w, req) \o Wakes(w, req) \o rest

Result(w, req, status) == [worker |-> w, req |-> req, status |-> status]

Post(result) ==
    \/ msgs' = Append(msgs, result)
    \/ "post" \in Faults /\ UNCHANGED msgs

\* PostIfRunning on the UI thread: Stop cannot be running.
PostsSuperseded ==
    /\ Calling("PostSuperseded")
    /\ Post(Result(Head(stack).worker, Head(stack).req, "Superseded"))
    /\ stack' = Rest
    /\ UNCHANGED <<uiVars, workerVars>>

\* The end of FinishManualSave.  The lock may be taken or the layout of before
\* not be readable, and the write may fail; the windows are not looked at again.
WritesSave ==
    /\ Running /\ Idle
    /\ \E s \in ui.writing : \E done \in {{}, {s.op}} :
          ui' = [ui EXCEPT !.writing = @ \ {s}, !.published = @ \cup done]
    /\ UNCHANGED <<world, autoFix, quit, workerVars, msgs, stack>>

WakeUp(w) ==
    thread' = [thread EXCEPT ![w].pc = IF @ = "asleep" THEN "awake" ELSE @]

Notifies ==
    /\ Calling("Notify") /\ WakeUp(Head(stack).worker)
    /\ stack' = Rest
    /\ UNCHANGED <<uiVars, pending, order, stopping, msgs>>

-----------------------------------------------------------------------------
(* A worker thread. *)

\* Choose: the most important and then the oldest request; by name.
Chosen(w, a) ==
    LET line == IF w = "session" THEN order ELSE AppOrder
        above(x, y) == w = "session" /\
                       Priority(pending[w][x].op) > Priority(pending[w][y].op)
    IN /\ pending[w][a] # NoRequest
       /\ \A b \in Apps \ {a} : pending[w][b] # NoRequest =>
            above(a, b) \/ (~above(b, a) /\ Before(line, a, b))

Becomes(w, pc, req, status) ==
    thread' = [thread EXCEPT ![w] = [pc |-> pc, req |-> req, status |-> status]]

\* The wait of RunLoop and, when it is over, Choose.
TakeRequest(w) ==
    /\ thread[w].pc = "awake"
    /\ \/ /\ stopping[w] \/ ~HasWork(w)
          /\ Becomes(w, IF stopping[w] THEN "ended" ELSE "asleep", NoRequest, "none")
          /\ UNCHANGED <<pending, order>>
       \/ /\ ~stopping[w] /\ HasWork(w)
          /\ \E a \in Apps :
                /\ Chosen(w, a)
                /\ Becomes(w, "busy", pending[w][a], "none")
                /\ pending' = [pending EXCEPT ![w][a] = NoRequest]
                /\ order' = IF w = "session" THEN Without(a) ELSE order
    /\ UNCHANGED <<uiVars, stopping, msgs, stack>>

Outcomes(w) ==
    IF w = "session" THEN {"Fresh", "CachedStale", "Unavailable"}
    ELSE {"Completed", "Failed"}

\* ProcessQueued, up to the critical section of PostIfRunning.
ProcessRequest(w) ==
    /\ thread[w].pc = "busy"
    /\ \/ /\ ~stopping[w]
          /\ \E status \in Outcomes(w) :
                Becomes(w, "posting", thread[w].req, status)
       \/ /\ stopping[w] \/ (w = "session" /\ "alloc" \in Faults)
          /\ Becomes(w, "awake", NoRequest, "none")
    /\ UNCHANGED <<uiVars, pending, order, stopping, msgs, stack>>

PostResult(w) ==
    /\ thread[w].pc = "posting"
    /\ Post(Result(w, thread[w].req, thread[w].status))
    /\ Becomes(w, "awake", NoRequest, "none")
    /\ UNCHANGED <<uiVars, pending, order, stopping, stack>>

-----------------------------------------------------------------------------
(* Asking for a session result: the loops of StartManualSave,              *)
(* StartManualRestore and EnsureTabSearch, BeginAutoRestore and            *)
(* BeginMetadataProbe, with RequestSessionWork.                            *)

Handler == Running /\ Idle /\ ui.writing = {}

MayBegin(o) ==
    LET others == {p \in OpIds : Live(ui, p) /\ AppsOf[p] \cap AppsOf[o] # {}}
    IN CASE KindOf[o] = "auto" ->
              autoFix /\ \A p \in others : KindOf[p] # "auto"
         [] KindOf[o] = "probe" ->
              /\ autoFix /\ \A p \in others : KindOf[p] \notin {"auto", "probe"}
              /\ \A r \in ui.routes : r[2] \notin AppsOf[o]
         [] OTHER -> TRUE

\* A manual save or restore first cancels the one before it.
CancelOlder(u, o) ==
    Cancel(u, {p \in OpIds : /\ Live(u, p) /\ KindOf[p] = KindOf[o]
                             /\ KindOf[o] \in {"save", "restore"}})

Begin(o) ==
    /\ Handler /\ ui.phase[o] = "new" /\ MayBegin(o)
    /\ ui' = [CancelOlder(ui, o) EXCEPT !.phase[o] = "live",
                                        !.captured[o] = world]
    /\ stack' = <<Ask(o, AppsOf[o])>>
    /\ UNCHANGED <<world, autoFix, quit, workerVars, msgs>>

\* A search goes on without the application, another operation ends.
Refused(u, o, others) ==
    IF KindOf[o] = "search"
    THEN ui' = u /\ stack' = <<Ask(o, others)>> \o Rest
    ELSE ui' = Cancel(u, {o}) /\ stack' = Rest

RequestSessionWork(o, a, others) ==
    \/ /\ ~Admits(ui, o, a)
       /\ Refused(ui, o, others) /\ UNCHANGED <<pending, order>>
    \/ /\ Admits(ui, o, a) /\ "refuse" \in Faults
       /\ Refused(Displace(ui, a), o, others) /\ UNCHANGED <<pending, order>>
    \/ /\ Admits(ui, o, a)
       /\ ui' = [Displace(ui, a) EXCEPT
                     !.gate[a] = o, !.routes = @ \cup {<<o, a>>},
                     !.monitor = TRUE, !.session[o] = @ \cup {a}]
       /\ EnqueueRequest("session", Request(o, a, "none"),
                         <<Ask(o, others)>> \o Rest)

\* The loop over the applications, in the order of their names.
Asks ==
    /\ Calling("Ask")
    /\ LET o == Head(stack).op
           apps == Head(stack).apps
       IN \/ /\ apps = {} /\ ui' = Settle(ui, o) /\ stack' = Rest
             /\ UNCHANGED <<pending, order>>
          \/ \E a \in apps :
                /\ \A b \in apps \ {a} : Before(AppOrder, a, b)
                /\ RequestSessionWork(o, a, apps \ {a})
    /\ UNCHANGED <<world, autoFix, quit, thread, stopping, msgs>>

-----------------------------------------------------------------------------
(* HandleSessionResult and HandleReconcileResult. *)

\* AsyncReconcileDeadlineGate::begin and complete.
BeginDeadline(u, o) == [u EXCEPT !.due[o] = @ + 1]

CompleteDeadline(u, o) == [u EXCEPT !.due[o] = @ - 1]

\* Both handlers end with the monitor timer killed when it has no use.
Finally(u) == IF autoFix THEN u ELSE KillMonitorIfIdle(u)

MatchRefused(u, o, a) ==
    IF KindOf[o] = "search" THEN Settle(Leave(u, {<<o, a>>}), o) ELSE Cancel(u, {o})

RequestReconcileWork(u, o, a, mode) ==
    \/ /\ "refuse" \in Faults
       /\ ui' = Finally(MatchRefused(u, o, a)) /\ UNCHANGED <<pending, order, stack>>
    \/ /\ ui' = [BeginDeadline(u, o) EXCEPT
                    !.session[o] = @ \ {a}, !.matching[o] = @ \cup {a},
                    !.mode[o] = mode, !.monitor = TRUE]
       /\ EnqueueRequest("reconcile", Request(o, a, mode), <<>>)

\* The windows the result is about are those of now.
Acceptable(u, o, a, status) ==
    CASE KindOf[o] = "auto" -> /\ status \in {"Fresh", "CachedStale"}
                               /\ u.captured[o][a].set = world[a].set
      [] KindOf[o] = "save" -> status = "Fresh" /\ Current(u, o, a)
      [] KindOf[o] = "probe" -> FALSE
      [] OTHER -> status \in {"Fresh", "CachedStale"} /\ Current(u, o, a)

\* What becomes of an operation whose session result is of no use.
WithoutSession(u, o, a, status) ==
    CASE KindOf[o] = "auto" ->
            IF status = "Unavailable" THEN Close(u, {o}) ELSE Cancel(u, {o})
      [] KindOf[o] = "probe" -> Close(u, {o})
      [] KindOf[o] = "search" -> Settle(Leave(u, {<<o, a>>}), o)
      [] KindOf[o] \in {"save", "restore"} /\ ~Current(u, o, a) -> Cancel(u, {o})
      [] KindOf[o] = "save" /\ Current(u, o, a) ->
            FinishManualSave(Gain(Leave(u, {<<o, a>>}), o, a, status), o)
      [] OTHER -> Settle(Leave(u, {<<o, a>>}), o)

\* An automatic restore goes on from the windows as they are now.
Recaptured(u, o, a) ==
    IF KindOf[o] = "auto" THEN [u EXCEPT !.captured[o][a] = world[a]] ELSE u

ModeOf(o) == IF KindOf[o] = "restore" THEN "Plan" ELSE "PrepareLiveOnly"

SessionResult(u, o, a, status) ==
    IF ~Live(u, o) THEN ui' = Finally(u) /\ UNCHANGED <<pending, order, stack>>
    ELSE \/ /\ Acceptable(u, o, a, status)
            /\ RequestReconcileWork(Recaptured(u, o, a), o, a, ModeOf(o))
         \/ /\ ~Acceptable(u, o, a, status)
            /\ ui' = Finally(WithoutSession(u, o, a, status))
            /\ UNCHANGED <<pending, order, stack>>
         \/ /\ "refuse" \in Faults /\ KindOf[o] \in {"auto", "save", "restore"}
            /\ ui' = Finally(Cancel(u, {o})) /\ UNCHANGED <<pending, order, stack>>
         \/ /\ KindOf[o] = "search"    \* the picker's query has changed
            /\ ui' = Finally(Settle(Leave(u, {<<o, a>>}), o))
            /\ UNCHANGED <<pending, order, stack>>

HandleSessionResult ==
    /\ Handler /\ msgs # <<>> /\ Head(msgs).worker = "session"
    /\ msgs' = Tail(msgs)
    /\ LET o == Head(msgs).req.op
           a == Head(msgs).req.app
       IN \/ /\ <<o, a>> \notin ui.routes
             /\ ui' = Finally(ui) /\ UNCHANGED <<pending, order, stack>>
          \/ /\ <<o, a>> \in ui.routes
             /\ ui.gate[a] # o \/ "alloc" \in Faults
             /\ ui' = Finally(RetireAsyncSessionOperation(
                         [ui EXCEPT !.routes = @ \ {<<o, a>>}], {<<o, a>>}))
             /\ UNCHANGED <<pending, order, stack>>
          \/ /\ <<o, a>> \in ui.routes /\ ui.gate[a] = o
             /\ SessionResult(Unroute(ui, {<<o, a>>}), o, a, Head(msgs).status)
    /\ UNCHANGED <<world, autoFix, quit, thread, stopping>>

Awaited(u, o, a, mode) ==
    Live(u, o) /\ a \in u.matching[o] /\ u.mode[o] = mode

ReconcileResult(u, o, a, current) ==
    CASE ~current /\ KindOf[o] # "search" -> Cancel(u, {o})
      [] current /\ KindOf[o] = "save" -> FinishManualSave(Gain(u, o, a, "Prepared"), o)
      [] current /\ KindOf[o] = "auto" -> Close(u, {o})
      [] OTHER -> Settle(u, o)

HandleReconcileResult ==
    /\ Handler /\ msgs # <<>> /\ Head(msgs).worker = "reconcile"
    /\ msgs' = Tail(msgs)
    /\ LET o == Head(msgs).req.op
           a == Head(msgs).req.app
           u == CompleteDeadline([ui EXCEPT !.matching[o] = @ \ {a}], o)
           current == Head(msgs).status = "Completed" /\ Current(ui, o, a)
       IN \/ /\ ~Awaited(ui, o, a, Head(msgs).req.mode)
             /\ ui' = Finally(ui) /\ UNCHANGED <<pending, order, stack>>
          \/ /\ Awaited(ui, o, a, Head(msgs).req.mode)
             /\ IF KindOf[o] = "auto" /\ ui.mode[o] = "PrepareLiveOnly" /\ current
                THEN RequestReconcileWork(u, o, a, "Plan")
                ELSE ui' = Finally(ReconcileResult(u, o, a, current))
                     /\ UNCHANGED <<pending, order, stack>>
          \/ /\ Awaited(ui, o, a, Head(msgs).req.mode)
             /\ \/ KindOf[o] = "restore"    \* the plan is too complex
                \/ "refuse" \in Faults /\ KindOf[o] # "search"
             /\ ui' = Finally(Cancel(u, {o})) /\ UNCHANGED <<pending, order, stack>>
    /\ UNCHANGED <<world, autoFix, quit, thread, stopping>>

-----------------------------------------------------------------------------
(* The monitor timer, the settings, the end of the program, and the world. *)

CancelExpiredSessionRoutes(u, old) ==
    RetireAsyncSessionOperation(Unroute(u, old), old)

\* Seeded fault: the deadline is dropped and the operation is not told.
LateOpsForgotten(u, late) == [u EXCEPT !.due = Reset(@, late, 0)]

CancelExpiredReconcileOperations(u, late) ==
    Cancel(u, {o \in late : Live(u, o)})

InGate == {<<ui.gate[a], a>> : a \in {x \in Apps : ui.gate[x] # NoOp}}
Counted == {o \in OpIds : ui.due[o] > 0}

\* The lifetimes of the routes `old' and of the matchings of `late' are over.
RunMonitorTick(old, late) ==
    /\ Handler /\ ui.monitor
    /\ old \subseteq InGate /\ late \subseteq Counted
    /\ ui' = Finally(CancelExpiredReconcileOperations(
                        CancelExpiredSessionRoutes(ui, old), late))
    /\ UNCHANGED <<world, autoFix, quit, workerVars, msgs, stack>>

AutoOwned(u) ==
    {o \in OpIds : Live(u, o) /\ KindOf[o] \in {"auto", "probe"}}

\* ApplyAutoFix: ResetAutoRuntimeState, or the start of the monitor.
ApplyAutoFix ==
    /\ Handler
    /\ autoFix' = ~autoFix
    /\ ui' = IF autoFix
             THEN KillMonitorIfIdle(Cancel(ui, AutoOwned(ui)))
             ELSE [ui EXCEPT !.monitor = TRUE]
    /\ UNCHANGED <<world, quit, workerVars, msgs, stack>>

\* Seeded fault: the results are drained while the threads still run.
DrainsFirst ==
    <<Drain, Stop("session"), Join("session"), Stop("reconcile"), Join("reconcile")>>

StopWorkers ==
    <<Stop("session"), Join("session"), Stop("reconcile"), Join("reconcile"), Drain>>

QuiesceRuntime ==
    /\ Handler /\ MayQuit
    /\ quit' = "quiescing"
    /\ ui' = [ui EXCEPT !.monitor = FALSE]
    /\ stack' = StopWorkers
    /\ UNCHANGED <<world, autoFix, workerVars, msgs>>

AfterStopping(w) == <<Notify(w)>> \o Rest

StopsWorker ==
    /\ Calling("Stop")
    /\ LET w == Head(stack).worker
       IN /\ stopping' = [stopping EXCEPT ![w] = TRUE]
          /\ pending' = [pending EXCEPT ![w] = [a \in Apps |-> NoRequest]]
          /\ order' = IF w = "session" THEN <<>> ELSE order
          /\ stack' = AfterStopping(w)
    /\ UNCHANGED <<uiVars, thread, msgs>>

Quiesces == quit' = IF Rest = <<>> THEN "quiesced" ELSE quit

JoinsWorker ==
    /\ Calling("Join") /\ thread[Head(stack).worker].pc = "ended"
    /\ Quiesces /\ stack' = Rest
    /\ UNCHANGED <<ui, world, autoFix, workerVars, msgs>>

DrainsResults ==
    /\ Calling("Drain")
    /\ msgs' = <<>> /\ Quiesces /\ stack' = Rest
    /\ UNCHANGED <<ui, world, autoFix, workerVars>>

\* Windows open, close or change their titles.
WindowsChange(a, step) ==
    /\ \A b \in Apps : world[b].content < MaxChanges
    /\ world' = [world EXCEPT ![a].content = @ + 1, ![a].set = @ + step]
    /\ UNCHANGED <<ui, autoFix, quit, workerVars, msgs, stack>>

-----------------------------------------------------------------------------
HandlerStep == Asks \/ PostsSuperseded \/ Notifies \/ WritesSave
StopStep == StopsWorker \/ JoinsWorker \/ DrainsResults
WorkerStep(w) == TakeRequest(w) \/ ProcessRequest(w) \/ PostResult(w)

\* The program has ended.
Exited == quit = "quiesced" /\ UNCHANGED vars

Next ==
    \/ Exited
    \/ \E o \in OpIds : Begin(o)
    \/ HandlerStep \/ StopStep
    \/ HandleSessionResult \/ HandleReconcileResult
    \/ \E old \in SUBSET InGate, late \in SUBSET Counted : RunMonitorTick(old, late)
    \/ ApplyAutoFix \/ QuiesceRuntime
    \/ \E w \in Workers : WorkerStep(w)
    \/ \E a \in Apps, step \in {0, 1} : WindowsChange(a, step)

Spec == Init /\ [][Next]_vars

\* A handler runs to its end, and once the sixty seconds are over every fire
\* of the timer expires what is left.  Nothing is assumed of the workers,
\* which may hang on a file for ever.  The second conjunct is weak fairness of
\* such a fire with its enabling condition written out.
TickDue == Handler /\ ui.monitor /\ (InGate # {} \/ Counted # {})
TimeFairness ==
    /\ WF_vars(HandlerStep)
    /\ []<>~TickDue \/ []<><<RunMonitorTick(InGate, Counted)>>_vars
TimedSpec == Spec /\ TimeFairness

\* Worker threads are scheduled, and a handler runs to its end.
ThreadFairness ==
    /\ WF_vars(HandlerStep) /\ WF_vars(StopStep)
    /\ \A w \in Workers : WF_vars(WorkerStep(w))
ThreadedSpec == Spec /\ ThreadFairness

-----------------------------------------------------------------------------
(* Properties. *)

\* The state has its type, a worker has one pending slot per application
\* (the `pending_' maps), and no count of outstanding matchings is wrong
\* enough to be negative.
TypeOK ==
    /\ ui.phase \in [OpIds -> {"new", "live", "ended"}]
    /\ ui.captured \in [OpIds -> [Apps -> Snapshots]]
    /\ ui.session \in [OpIds -> SUBSET Apps]
    /\ ui.matching \in [OpIds -> SUBSET Apps]
    /\ ui.mode \in [OpIds -> Modes]
    /\ ui.gate \in [Apps -> OpIds \cup {NoOp}]
    /\ ui.routes \subseteq OpIds \X Apps
    /\ ui.due \in [OpIds -> 0..Cardinality(Apps)]
    /\ ui.published \subseteq OpIds /\ Cardinality(ui.writing) <= 1
    /\ ui.got \in [OpIds -> [Apps -> Gains]]
    /\ ui.monitor \in BOOLEAN /\ autoFix \in BOOLEAN
    /\ world \in [Apps -> Snapshots]
    /\ quit \in {"running", "quiescing", "quiesced"}
    /\ stopping \in [Workers -> BOOLEAN]
    /\ \A w \in Workers :
        /\ \A a \in Apps : pending[w][a] # NoRequest =>
                pending[w][a] \in Requests /\ pending[w][a].app = a
        /\ thread[w].req \in Requests \cup {NoRequest}
        /\ thread[w].pc \in {"awake", "asleep", "busy", "posting", "ended"}
    /\ ToSet(order) = {a \in Apps : pending["session"][a] # NoRequest}
    /\ IsInjective(order)

\* Whatever an operation still waits for can be timed out: a session result
\* by a route the gate knows, a matching by a counted deadline
\* (RequestSessionWork, RetireSessionRoutesForOperation, the two gates).
WaitingCanTimeOut ==
    Handler => \A o \in OpIds :
        /\ \A a \in ui.session[o] : <<o, a>> \in ui.routes /\ ui.gate[a] = o
        /\ ui.due[o] = Cardinality(ui.matching[o])
        /\ Live(ui, o) => Outstanding(ui, o) # {}

\* No route outlives its operation or is answered after the gate has let it
\* go, so a late result can only be dropped (HandleSessionResult).
RoutesBelong ==
    Handler => \A r \in ui.routes : Live(ui, r[1]) /\ r[2] \in ui.session[r[1]]

\* The timer that expires routes and matchings runs while there is one,
\* also when automatic restore is off (KillTimer(TIMER_MONITOR) in the
\* result handlers, RunMonitorTick and ApplyAutoFix).
MonitorRuns ==
    Handler /\ (ui.routes # {} \/ \E o \in OpIds : ui.due[o] > 0) => ui.monitor

\* No request is lost: unless a call failed, a request that is waited for is
\* pending, being processed, or its result is on the way
\* (Request, ProcessQueued, PostIfRunning).
Somewhere(w, o, a) ==
    \/ pending[w][a].op = o
    \/ thread[w].req.op = o /\ thread[w].req.app = a
    \/ \E i \in DOMAIN msgs : /\ msgs[i].worker = w
                              /\ msgs[i].req.op = o /\ msgs[i].req.app = a
NoRequestIsLost ==
    Faults = {} /\ Handler => \A o \in OpIds :
        /\ \A a \in ui.session[o] : Somewhere("session", o, a)
        /\ \A a \in ui.matching[o] : Somewhere("reconcile", o, a)

\* A thread that sleeps on the condition variable while there is work or
\* while it must stop is about to be notified (changed_.wait, notify).
NoLostWakeup ==
    \A w \in Workers :
        thread[w].pc = "asleep" /\ (HasWork(w) \/ stopping[w]) =>
            \E i \in DOMAIN stack : stack[i] = Notify(w)

\* The worker never refuses in favour of an abandoned request what a manual
\* save or restore waits for: it would silently leave that browser out
\* (HandleManualSaveSessionResult, SessionPurposePriority).
ManualWorkIsServed ==
    Running => \A i \in DOMAIN msgs :
        msgs[i].worker = "session" /\ msgs[i].status = "Superseded" /\
        <<msgs[i].req.op, msgs[i].req.app>> \in ui.routes =>
            KindOf[msgs[i].req.op] \notin {"save", "restore"}

\* "If a browser's session data can't be read right now, Save stores the other
\* browsers and keeps that browser's records from the previous manual
\* checkpoint" (README.md of the program): what a save is about to write has
\* fresh records of every browser it asked for but those whose worker answered
\* that it could not read them, however the save's requests and results and
\* those of other operations displaced each other (HandleManualSaveSessionResult,
\* HandleManualSavePreparedResult, FinishManualSave).
SaveIsComplete ==
    \A s \in ui.writing : \A a \in AppsOf[s.op] :
        s.got[a] \in {"Prepared", "CachedStale", "Unavailable"}

\* What reaches the file are the windows of that moment.  It does not hold: the
\* windows are compared before the lock is taken and the file written, not after
\* (see README.md, "Known disagreements").
SavedIsCurrent ==
    [][ui'.published # ui.published =>
            \A s \in ui.writing : s.windows = world]_vars

\* After StopWorkers no thread runs, nothing is pending and no result is left
\* that nobody would free (Stop, DrainPostedSessionResults).
StopLeavesNothing ==
    quit = "quiesced" =>
        /\ msgs = <<>>
        /\ \A w \in Workers : thread[w].pc = "ended" /\ ~HasWork(w)

\* Every operation ends, even if a worker hangs, posts nothing or the calls
\* of the UI thread fail (CancelExpiredSessionRoutes,
\* CancelExpiredReconcileOperations).
EveryOperationEnds == \A o \in OpIds : Live(ui, o) ~> ~Live(ui, o)

\* Every request is answered or can be timed out: none that is waited for is
\* lost on its way, and the timer that would expire it runs.
RequestsAreAnswered == MonitorRuns /\ NoRequestIsLost

\* Whatever is displaced, refused or late, a wait has a live route or a counted
\* deadline, and no route or deadline is without its wait.
EveryWaitIsRouted == TypeOK /\ RoutesBelong /\ WaitingCanTimeOut

\* An exit that was begun completes, since Stop never waits for a thread that
\* sleeps, and leaves nothing behind (QuiesceRuntime, StopWorkers).
ExitIsClean ==
    (quit = "quiescing") ~> [](quit = "quiesced" /\ StopLeavesNothing)
=============================================================================
