----------------------- MODULE SessionPipelineProofs -----------------------
(***************************************************************************)
(* Theorems about SessionPipeline for any number of applications and       *)
(* operations, whatever calls fail.                                        *)
(*                                                                         *)
(* The first part is about the workers.  One that sleeps although there is *)
(* work for it, or although it must stop, is owed a notification by the    *)
(* handler that is running: so the invariant `Inv' is about the            *)
(* notifications left on the handler's stack, and every action is          *)
(* considered by what it does to them.                                     *)
(*                                                                         *)
(* The second part is about what the UI thread keeps, `UiInv'.  Its core   *)
(* is `Sound': the routes, the gate, the deadlines and the operations'     *)
(* waits agree.  In the middle of a handler the pairs in `loose' have lost *)
(* their route and still wait; each operator on the state either takes     *)
(* pairs into `loose' or out of it, and a handler ends with none.  Round   *)
(* it are what the calls on the stack rely on, and where a request may be  *)
(* between the handler that asked for it and the one that takes its        *)
(* result.                                                                 *)
(*                                                                         *)
(* The third part is about what a manual save has gathered, `SavesInv':    *)
(* each application it asked for has answered, is waited for or is about   *)
(* to be asked.  `Keeps' says what no other operation's handler can take   *)
(* from a save without ending it.                                          *)
(***************************************************************************)
EXTENDS SessionPipeline, TLAPS, FiniteSetTheorems, SequenceTheorems

Slots == Requests \cup {NoRequest}
Statuses == {"none", "Superseded"} \cup Outcomes("session") \cup Outcomes("reconcile")
Threads == [pc : {"awake", "asleep", "busy", "posting", "ended"},
            req : Slots, status : Statuses]
Results == [worker : Workers, req : Requests, status : Statuses]
Frames == [fn : {"Ask"}, op : OpIds, apps : SUBSET Apps]
          \cup [fn : {"PostSuperseded"}, worker : Workers, req : Requests]
          \cup [fn : {"Notify", "Stop", "Join"}, worker : Workers]
          \cup [fn : {"Drain"}]

WorkersTyped ==
    /\ pending \in [Workers -> [Apps -> Slots]]
    /\ thread \in [Workers -> Threads]
    /\ \A w \in Workers : thread[w].pc \in {"busy", "posting"} =>
                            thread[w].req \in Requests
    /\ stopping \in [Workers -> BOOLEAN]
    /\ msgs \in Seq(Results)
    /\ stack \in Seq(Frames)

\* The workers a stack of calls will still notify.
Owed(s) == {w \in Workers : \E i \in DOMAIN s : s[i] = Notify(w)}
\* The workers that sleep and should not.
Oversleeping ==
    {w \in Workers : thread[w].pc = "asleep" /\ (HasWork(w) \/ stopping[w])}

Inv == WorkersTyped /\ Oversleeping \subseteq Owed(stack)

-----------------------------------------------------------------------------
(* What a stack of calls owes. *)

\* A call that has been made is off the stack, and nothing else is.
LEMMA OwedRest ==
    ASSUME NEW s \in Seq(Frames), s # <<>>
    PROVE  /\ Tail(s) \in Seq(Frames)
           /\ Head(s) \in Frames
           /\ \A w \in Owed(s) : Head(s) = Notify(w) \/ w \in Owed(Tail(s))
<1>1. Tail(s) \in Seq(Frames) /\ Head(s) \in Frames  OBVIOUS
<1>2. ASSUME NEW w \in Owed(s), Head(s) # Notify(w)
      PROVE  w \in Owed(Tail(s))
  <2>1. PICK i \in DOMAIN s : s[i] = Notify(w)  BY <1>2 DEF Owed
  <2>2. i \in 2..Len(s)  BY <1>2, <2>1
  <2>3. i - 1 \in DOMAIN Tail(s) /\ Tail(s)[i - 1] = s[i]  BY <2>2
  <2> QED  BY <2>1, <2>3, <1>2 DEF Owed
<1> QED  BY <1>1, <1>2

\* A stack on another one owes what both owe.
LEMMA OwedConcat ==
    ASSUME NEW s \in Seq(Frames), NEW t \in Seq(Frames)
    PROVE  /\ s \o t \in Seq(Frames)
           /\ Owed(s) \subseteq Owed(s \o t)
           /\ Owed(t) \subseteq Owed(s \o t)
<1>1. s \o t \in Seq(Frames)  OBVIOUS
<1>2. ASSUME NEW w \in Owed(s)  PROVE w \in Owed(s \o t)
  <2>1. PICK i \in DOMAIN s : s[i] = Notify(w)  BY DEF Owed
  <2>2. i \in DOMAIN (s \o t) /\ (s \o t)[i] = s[i]  BY <2>1
  <2> QED  BY <2>1, <2>2 DEF Owed
<1>3. ASSUME NEW w \in Owed(t)  PROVE w \in Owed(s \o t)
  <2>1. PICK i \in DOMAIN t : t[i] = Notify(w)  BY DEF Owed
  <2>2. Len(s) + i \in DOMAIN (s \o t) /\ (s \o t)[Len(s) + i] = t[i]  BY <2>1
  <2> QED  BY <2>1, <2>2 DEF Owed
<1> QED  BY <1>1, <1>2, <1>3

\* A call that is about to be made.
LEMMA OwedOne ==
    ASSUME NEW f \in Frames
    PROVE  /\ <<f>> \in Seq(Frames)
           /\ \A w \in Workers : f = Notify(w) => w \in Owed(<<f>>)
<1>1. <<f>> \in Seq(Frames) /\ 1 \in DOMAIN <<f>> /\ <<f>>[1] = f  OBVIOUS
<1> QED  BY <1>1 DEF Owed

LEMMA CallsAreFrames ==
    /\ \A o \in OpIds, apps \in SUBSET Apps : Ask(o, apps) \in Frames
    /\ \A w \in Workers : Notify(w) \in Frames /\ Stop(w) \in Frames /\ Join(w) \in Frames
    /\ \A w \in Workers, r \in Requests : PostSuperseded(w, r) \in Frames
    /\ Drain \in Frames
BY DEF Ask, Notify, Stop, Join, PostSuperseded, Drain, Frames

-----------------------------------------------------------------------------
(* Each action keeps the invariant. *)

\* A request is enqueued: the worker it is for is notified unless the
\* request loses, and a call for the result that loses is left behind.
LEMMA EnqueueKeeps ==
    ASSUME WorkersTyped, UNCHANGED <<thread, stopping>>, msgs' \in Seq(Results),
           NEW w \in Workers, NEW req \in Requests, NEW rest \in Seq(Frames),
           Oversleeping \subseteq Owed(rest),
           EnqueueRequest(w, req, rest)
    PROVE  Inv'
<1> DEFINE lost == Supersedes(w, req)
           wake == Wakes(w, req)
<1>1. Slot(w, req) \in Slots /\ req.app \in Apps
  BY DEF WorkersTyped, Slot, Requests
<1>2. lost \in Seq(Frames)
  <2>1. PostSuperseded(w, req) \in Frames  BY CallsAreFrames
  <2>2. Slot(w, req) # NoRequest => PostSuperseded(w, Slot(w, req)) \in Frames
    BY <1>1, CallsAreFrames DEF Slots
  <2> QED  BY <2>1, <2>2 DEF Supersedes
<1>3. wake \in Seq(Frames) /\ (~Rejects(w, req) => w \in Owed(wake))
  <2>1. Notify(w) \in Frames  BY CallsAreFrames
  <2> QED  BY <2>1, OwedOne DEF Wakes
<1>4. lost \o wake \in Seq(Frames) /\ Owed(wake) \subseteq Owed(lost \o wake)
  BY <1>2, <1>3, OwedConcat
<1>5. /\ stack' \in Seq(Frames)
      /\ Owed(lost \o wake) \subseteq Owed(stack')
      /\ Owed(rest) \subseteq Owed(stack')
  <2>1. stack' = (lost \o wake) \o rest  BY <1>2, <1>3 DEF EnqueueRequest
  <2> QED  BY <2>1, <1>4, OwedConcat
<1>6. pending' \in [Workers -> [Apps -> Slots]]
  <2>1. pending[w] \in [Apps -> Slots] /\ req \in Slots
    BY DEF WorkersTyped, Slots
  <2> QED  BY <1>1, <2>1 DEF WorkersTyped, EnqueueRequest
<1>7. \A v \in Workers : v # w \/ Rejects(w, req) => pending'[v] = pending[v]
  BY <1>6 DEF WorkersTyped, EnqueueRequest
<1>8. Oversleeping' \subseteq Oversleeping \cup (IF Rejects(w, req) THEN {} ELSE {w})
  BY <1>7 DEF Oversleeping, HasWork
<1>9. Oversleeping' \subseteq Owed(stack)'
  BY <1>3, <1>4, <1>5, <1>8 DEF Owed
<1> QED  BY <1>5, <1>6, <1>9 DEF Inv, WorkersTyped

\* The workers and the stack stay as they are.
LEMMA UntouchedKeeps ==
    ASSUME Inv, UNCHANGED <<pending, thread, stopping, stack>>, msgs' \in Seq(Results)
    PROVE  Inv'
<1>1. WorkersTyped'  BY DEF Inv, WorkersTyped
<1>2. Oversleeping' = Oversleeping  BY DEF Oversleeping, HasWork
<1> QED  BY <1>1, <1>2 DEF Inv, Owed

\* A call other than a notification has been made, or another is to be made.
LEMMA CallKeeps ==
    ASSUME Inv, stack # <<>>, NEW top \in Seq(Frames),
           \A w \in Workers : Head(stack) # Notify(w),
           stack' = top \o Tail(stack),
           UNCHANGED <<pending, thread, stopping>>, msgs' \in Seq(Results)
    PROVE  Inv'
<1>1. Tail(stack) \in Seq(Frames) /\ Owed(stack) \subseteq Owed(Tail(stack))
  BY OwedRest DEF Inv, WorkersTyped, Owed
<1>2. stack' \in Seq(Frames) /\ Owed(Tail(stack)) \subseteq Owed(stack)'
  <2> SUFFICES top \o Tail(stack) \in Seq(Frames) /\
               Owed(Tail(stack)) \subseteq Owed(top \o Tail(stack))
    BY DEF Owed
  <2> QED  BY <1>1, OwedConcat
<1>3. Oversleeping' = Oversleeping  BY DEF Oversleeping, HasWork
<1> QED  BY <1>1, <1>2, <1>3 DEF Inv, WorkersTyped

LEMMA PostTyped ==
    ASSUME WorkersTyped, NEW w \in Workers, NEW r \in Requests, NEW status \in Statuses,
           Post(Result(w, r, status))
    PROVE  msgs' \in Seq(Results)
<1>1. Result(w, r, status) \in Results  BY DEF Result, Results
<1> QED  BY <1>1 DEF Post, WorkersTyped

\* The head of the stack, when a handler makes a call.
LEMMA CallTyped ==
    ASSUME WorkersTyped, NEW fn, Calling(fn)
    PROVE  /\ stack # <<>> /\ Head(stack) \in Frames /\ Head(stack).fn = fn
           /\ Rest = Tail(stack) /\ Rest \in Seq(Frames)
           /\ fn # "Notify" => \A w \in Workers : Head(stack) # Notify(w)
           /\ fn = "Ask" => Head(stack).op \in OpIds /\ Head(stack).apps \in SUBSET Apps
           /\ fn = "PostSuperseded" => Head(stack).worker \in Workers
                                       /\ Head(stack).req \in Requests
           /\ fn \in {"Notify", "Stop", "Join"} => Head(stack).worker \in Workers
           /\ fn = "Notify" => Head(stack) = Notify(Head(stack).worker)
<1>1. stack # <<>> /\ Head(stack) \in Frames /\ Head(stack).fn = fn
  BY DEF Calling, WorkersTyped
<1>2. Rest = Tail(stack) /\ Rest \in Seq(Frames)  BY <1>1 DEF Rest, WorkersTyped
<1> QED  BY <1>1, <1>2 DEF Frames, Notify

\* A handler starts with nothing to do, so no worker oversleeps.
LEMMA IdleOwesNothing ==
    ASSUME Inv, Idle  PROVE Oversleeping = {}
BY DEF Inv, Idle, Owed

LEMMA AskKeeps == ASSUME Inv, Asks  PROVE Inv'
<1> DEFINE o == Head(stack).op
           apps == Head(stack).apps
<1>1. WorkersTyped /\ Calling("Ask")  BY DEF Inv, Asks
<1>2. /\ stack # <<>> /\ o \in OpIds /\ apps \in SUBSET Apps
      /\ Rest = Tail(stack) /\ Rest \in Seq(Frames)
      /\ \A w \in Workers : Head(stack) # Notify(w)
  BY <1>1, CallTyped
<1>3. UNCHANGED <<thread, stopping, msgs>> /\ msgs' \in Seq(Results)
  BY <1>1 DEF Asks, WorkersTyped
<1>4. CASE UNCHANGED pending /\ stack' = Rest
  <2>1. <<>> \in Seq(Frames) /\ stack' = <<>> \o Tail(stack)  BY <1>2, <1>4
  <2> QED  BY <1>2, <1>3, <1>4, <2>1, CallKeeps
<1>5. ASSUME NEW others \in SUBSET apps, UNCHANGED pending,
             stack' = <<Ask(o, others)>> \o Rest
      PROVE  Inv'
  <2>1. Ask(o, others) \in Frames  BY <1>2, CallsAreFrames
  <2>2. <<Ask(o, others)>> \in Seq(Frames)  BY <2>1
  <2> QED  BY <1>2, <1>3, <1>5, <2>2, CallKeeps
<1>6. ASSUME NEW a \in apps, RequestSessionWork(o, a, apps \ {a})
      PROVE  Inv'
  <2> DEFINE others == apps \ {a}
  <2>1. CASE Refused(ui, o, others) /\ UNCHANGED <<pending, order>>
    BY <1>4, <1>5, <2>1 DEF Refused
  <2>2. CASE Refused(Displace(ui, a), o, others) /\ UNCHANGED <<pending, order>>
    BY <1>4, <1>5, <2>2 DEF Refused
  <2>3. CASE EnqueueRequest("session", Request(o, a, "none"), <<Ask(o, others)>> \o Rest)
    <3>1. Ask(o, others) \in Frames  BY <1>2, CallsAreFrames
    <3>2. /\ <<Ask(o, others)>> \o Rest \in Seq(Frames)
          /\ Owed(Rest) \subseteq Owed(<<Ask(o, others)>> \o Rest)
      BY <1>2, <3>1, OwedOne, OwedConcat
    <3>3. Owed(stack) \subseteq Owed(Rest)
      BY <1>1, <1>2, OwedRest DEF WorkersTyped, Owed
    <3>4. Request(o, a, "none") \in Requests
      BY <1>2 DEF Request, Requests, Modes
    <3>5. "session" \in Workers  BY DEF Workers
    <3> QED  BY <1>1, <1>3, <2>3, <3>2, <3>3, <3>4, <3>5, EnqueueKeeps DEF Inv
  <2> QED  BY <1>6, <2>1, <2>2, <2>3 DEF RequestSessionWork
<1> QED  BY <1>4, <1>6 DEF Asks

LEMMA HandlerCallsKeep == ASSUME Inv, HandlerStep \/ StopStep  PROVE Inv'
<1>1. WorkersTyped  BY DEF Inv
<1>2. CASE Asks  BY <1>2, AskKeeps
<1>3. CASE PostsSuperseded
  <2>1. Calling("PostSuperseded")  BY <1>3 DEF PostsSuperseded
  <2>2. "Superseded" \in Statuses  BY DEF Statuses
  <2>3. msgs' \in Seq(Results)
    BY <1>1, <1>3, <2>1, <2>2, CallTyped, PostTyped DEF PostsSuperseded
  <2>4. <<>> \in Seq(Frames) /\ stack' = <<>> \o Tail(stack)
    BY <1>1, <1>3, <2>1, CallTyped DEF PostsSuperseded
  <2>5. stack # <<>> /\ \A w \in Workers : Head(stack) # Notify(w)
    BY <1>1, <2>1, CallTyped
  <2>6. UNCHANGED <<pending, thread, stopping>>  BY <1>3 DEF PostsSuperseded, workerVars
  <2> QED  BY <2>3, <2>4, <2>5, <2>6, CallKeeps
<1>4. CASE Notifies
  <2> DEFINE w == Head(stack).worker
  <2>1. /\ w \in Workers /\ stack # <<>> /\ Head(stack) = Notify(w)
        /\ stack' = Tail(stack) /\ stack' \in Seq(Frames)
    BY <1>1, <1>4, CallTyped DEF Notifies
  <2>2. thread[w] \in Threads  BY <1>1, <2>1 DEF WorkersTyped
  <2>3. /\ thread' \in [Workers -> Threads]
        /\ \A v \in Workers : /\ thread'[v].req = thread[v].req
                              /\ thread'[v].pc = thread[v].pc \/ thread'[v].pc = "awake"
        /\ thread'[w].pc # "asleep"
    BY <1>1, <1>4, <2>1, <2>2 DEF Notifies, WakeUp, WorkersTyped, Threads
  <2>4. WorkersTyped'
    BY <1>1, <1>4, <2>1, <2>3 DEF Notifies, WorkersTyped
  <2>5. Oversleeping' \subseteq Oversleeping \ {w}
    BY <1>4, <2>3 DEF Notifies, Oversleeping, HasWork
  <2>6. \A v \in Workers : v # w => Head(stack) # Notify(v)
    BY <2>1 DEF Notify
  <2>7. Owed(stack) \ {w} \subseteq Owed(Tail(stack))
    BY <1>1, <2>1, <2>6, OwedRest DEF WorkersTyped, Owed
  <2> QED  BY <2>1, <2>4, <2>5, <2>7 DEF Inv, Owed
<1>5. CASE StopsWorker
  <2> DEFINE w == Head(stack).worker
  <2>1. /\ w \in Workers /\ stack # <<>> /\ Rest = Tail(stack) /\ Rest \in Seq(Frames)
        /\ \A v \in Workers : Head(stack) # Notify(v)
        /\ stack' = <<Notify(w)>> \o Rest
    BY <1>1, <1>5, CallTyped DEF StopsWorker, AfterStopping
  <2>2. Notify(w) \in Frames  BY <2>1, CallsAreFrames
  <2>3. stack' \in Seq(Frames) /\ w \in Owed(stack)' /\ Owed(Rest) \subseteq Owed(stack)'
    <3> SUFFICES /\ <<Notify(w)>> \o Rest \in Seq(Frames)
                 /\ w \in Owed(<<Notify(w)>> \o Rest)
                 /\ Owed(Rest) \subseteq Owed(<<Notify(w)>> \o Rest)
      BY <2>1 DEF Owed
    <3> QED  BY <2>1, <2>2, OwedOne, OwedConcat
  <2>4. Owed(stack) \subseteq Owed(Rest)  BY <1>1, <2>1, OwedRest DEF WorkersTyped, Owed
  <2>5. /\ stopping' = [stopping EXCEPT ![w] = TRUE]
        /\ pending' = [pending EXCEPT ![w] = [a \in Apps |-> NoRequest]]
        /\ thread' = thread /\ msgs' = msgs
    BY <1>5 DEF StopsWorker
  <2>6. WorkersTyped'  BY <1>1, <2>1, <2>3, <2>5 DEF WorkersTyped, Slots
  <2>7. Oversleeping' \subseteq Oversleeping \cup {w}
    BY <1>1, <2>5 DEF Oversleeping, HasWork, WorkersTyped
  <2> QED  BY <2>3, <2>4, <2>6, <2>7 DEF Inv
<1>6. CASE JoinsWorker
  <2>1. Calling("Join") /\ stack' = Rest  BY <1>6 DEF JoinsWorker
  <2>2. <<>> \in Seq(Frames) /\ stack' = <<>> \o Tail(stack)  BY <1>1, <2>1, CallTyped
  <2>3. msgs' \in Seq(Results)  BY <1>1, <1>6 DEF JoinsWorker, WorkersTyped
  <2>5. stack # <<>> /\ \A w \in Workers : Head(stack) # Notify(w)
    BY <1>1, <2>1, CallTyped
  <2>6. UNCHANGED <<pending, thread, stopping>>  BY <1>6 DEF JoinsWorker, workerVars
  <2> QED  BY <2>2, <2>3, <2>5, <2>6, CallKeeps
<1>7. CASE DrainsResults
  <2>1. Calling("Drain") /\ stack' = Rest  BY <1>7 DEF DrainsResults
  <2>2. <<>> \in Seq(Frames) /\ stack' = <<>> \o Tail(stack)  BY <1>1, <2>1, CallTyped
  <2>3. msgs' \in Seq(Results)  BY <1>7 DEF DrainsResults
  <2>5. stack # <<>> /\ \A w \in Workers : Head(stack) # Notify(w)
    BY <1>1, <2>1, CallTyped
  <2>6. UNCHANGED <<pending, thread, stopping>>  BY <1>7 DEF DrainsResults, workerVars
  <2> QED  BY <2>2, <2>3, <2>5, <2>6, CallKeeps
<1>8. CASE WritesSave  BY <1>8, UntouchedKeeps DEF WritesSave, workerVars, Inv, WorkersTyped
<1> QED  BY <1>2, <1>3, <1>4, <1>5, <1>6, <1>7, <1>8 DEF HandlerStep, StopStep

\* A thread goes to sleep only when it finds no work and need not stop.
LEMMA WorkerKeeps ==
    ASSUME Inv, NEW w \in Workers, WorkerStep(w)  PROVE Inv'
<1>1. WorkersTyped /\ thread[w] \in Threads  BY DEF Inv, WorkersTyped
<1>2. stack' = stack /\ stopping' = stopping
  BY DEF WorkerStep, TakeRequest, ProcessRequest, PostResult
<1>3. ASSUME NEW pc \in {"awake", "asleep", "busy", "posting", "ended"},
             NEW r \in Slots, NEW status \in Statuses,
             pc \in {"busy", "posting"} => r \in Requests,
             pc = "asleep" => ~HasWork(w) /\ ~stopping[w] /\ UNCHANGED pending,
             Becomes(w, pc, r, status), msgs' \in Seq(Results),
             pending' \in [Workers -> [Apps -> Slots]],
             \A v \in Workers \ {w} : pending'[v] = pending[v]
      PROVE  Inv'
  <2>1. [pc |-> pc, req |-> r, status |-> status] \in Threads  BY DEF Threads
  <2>2. /\ thread' \in [Workers -> Threads]
        /\ thread'[w] = [pc |-> pc, req |-> r, status |-> status]
        /\ \A v \in Workers \ {w} : thread'[v] = thread[v]
    BY <1>1, <1>3, <2>1 DEF WorkersTyped, Becomes
  <2>3. WorkersTyped'
    <3>1. \A v \in Workers : thread'[v].pc \in {"busy", "posting"} =>
                               thread'[v].req \in Requests
      BY <1>1, <1>3, <2>2 DEF WorkersTyped
    <3> QED  BY <1>1, <1>2, <1>3, <2>2, <3>1 DEF WorkersTyped
  <2>4. Oversleeping' \subseteq Oversleeping
    BY <1>2, <1>3, <2>2 DEF Oversleeping, HasWork
  <2> QED  BY <1>2, <2>3, <2>4 DEF Inv, Owed
<1>4. "none" \in Statuses /\ Outcomes(w) \subseteq Statuses /\ NoRequest \in Slots
  BY DEF Statuses, Outcomes, Slots
<1>5. CASE TakeRequest(w)
  <2>1. msgs' \in Seq(Results)  BY <1>1, <1>5 DEF TakeRequest, WorkersTyped
  <2>2. CASE stopping[w] /\ Becomes(w, "ended", NoRequest, "none") /\ UNCHANGED pending
    BY <1>1, <1>3, <1>4, <2>1, <2>2 DEF WorkersTyped
  <2>3. CASE ~stopping[w] /\ ~HasWork(w) /\ UNCHANGED pending
             /\ Becomes(w, "asleep", NoRequest, "none")
    BY <1>1, <1>3, <1>4, <2>1, <2>3 DEF WorkersTyped
  <2>4. ASSUME NEW a \in Apps, Chosen(w, a), Becomes(w, "busy", pending[w][a], "none"),
               pending' = [pending EXCEPT ![w][a] = NoRequest]
        PROVE  Inv'
    <3>1. pending[w] \in [Apps -> Slots]  BY <1>1 DEF WorkersTyped
    <3>2. pending[w][a] \in Requests  BY <3>1, <2>4 DEF Chosen, Slots
    <3>3. pending' \in [Workers -> [Apps -> Slots]]
      BY <1>1, <1>4, <2>4, <3>1 DEF WorkersTyped
    <3> QED  BY <1>1, <1>3, <1>4, <2>1, <2>4, <3>2, <3>3 DEF WorkersTyped, Slots
  <2> QED  BY <1>5, <2>2, <2>3, <2>4 DEF TakeRequest
<1>6. CASE ProcessRequest(w)
  <2>1. /\ msgs' \in Seq(Results) /\ thread[w].req \in Requests
        /\ thread[w].req \in Slots /\ pending' = pending
    BY <1>1, <1>6 DEF ProcessRequest, WorkersTyped, Slots
  <2>2. ASSUME NEW status \in Outcomes(w), Becomes(w, "posting", thread[w].req, status)
        PROVE  Inv'
    BY <1>1, <1>3, <1>4, <2>1, <2>2 DEF WorkersTyped
  <2>3. CASE Becomes(w, "awake", NoRequest, "none")
    BY <1>1, <1>3, <1>4, <2>1, <2>3 DEF WorkersTyped
  <2> QED  BY <1>6, <2>2, <2>3 DEF ProcessRequest
<1>7. CASE PostResult(w)
  <2>1. thread[w].req \in Requests /\ thread[w].status \in Statuses
    BY <1>1, <1>7 DEF PostResult, WorkersTyped, Threads
  <2>2. msgs' \in Seq(Results)  BY <1>1, <1>7, <2>1, PostTyped DEF PostResult
  <2> QED  BY <1>1, <1>3, <1>4, <1>7, <2>2 DEF PostResult, WorkersTyped
<1> QED  BY <1>5, <1>6, <1>7 DEF WorkerStep

\* A result handler may ask for a matching; its stack is empty until then.
LEMMA MatchingKeeps ==
    ASSUME Inv, Idle, UNCHANGED <<thread, stopping>>, msgs' \in Seq(Results),
           NEW o \in OpIds, NEW a \in Apps, NEW mode \in Modes, NEW u,
           RequestReconcileWork(u, o, a, mode)
    PROVE  Inv'
<1>1. CASE UNCHANGED <<pending, order, stack>>  BY <1>1, UntouchedKeeps
<1>2. CASE EnqueueRequest("reconcile", Request(o, a, mode), <<>>)
  <2>1. Request(o, a, mode) \in Requests /\ "reconcile" \in Workers
    BY DEF Request, Requests, Workers
  <2>2. <<>> \in Seq(Frames) /\ Oversleeping \subseteq Owed(<<>>)
    BY IdleOwesNothing
  <2> QED  BY <1>2, <2>1, <2>2, EnqueueKeeps DEF Inv
<1> QED  BY <1>1, <1>2 DEF RequestReconcileWork

LEMMA ResultsKeep ==
    ASSUME Inv, HandleSessionResult \/ HandleReconcileResult  PROVE Inv'
<1> DEFINE o == Head(msgs).req.op
           a == Head(msgs).req.app
<1>1. /\ Idle /\ msgs # <<>> /\ msgs' = Tail(msgs)
      /\ UNCHANGED <<thread, stopping>>
  BY DEF HandleSessionResult, HandleReconcileResult, Handler
<1>2. msgs' \in Seq(Results) /\ Head(msgs) \in Results
  BY <1>1 DEF Inv, WorkersTyped
<1>3. o \in OpIds /\ a \in Apps  BY <1>2 DEF Results, Requests
<1>4. CASE UNCHANGED <<pending, order, stack>>
  BY <1>1, <1>2, <1>4, UntouchedKeeps
<1>5. ASSUME NEW u, NEW mode \in Modes, RequestReconcileWork(u, o, a, mode)
      PROVE  Inv'
  BY <1>1, <1>2, <1>3, <1>5, MatchingKeeps
<1>6. \A p \in OpIds : ModeOf(p) \in Modes  BY DEF ModeOf, Modes
<1>7. CASE HandleSessionResult
  <2>1. ASSUME NEW u, NEW status, SessionResult(u, o, a, status)  PROVE Inv'
    BY <1>3, <1>4, <1>5, <1>6, <2>1 DEF SessionResult
  <2> QED  BY <1>4, <1>7, <2>1 DEF HandleSessionResult
<1>8. CASE HandleReconcileResult
  <2>1. "Plan" \in Modes  BY DEF Modes
  <2> QED  BY <1>4, <1>5, <1>8, <2>1 DEF HandleReconcileResult
<1> QED  BY <1>7, <1>8

\* A handler that only the UI thread's state depends on, and the world.
LEMMA OthersKeep ==
    ASSUME Inv,
           \/ \E o \in OpIds : Begin(o)
           \/ \E old \in SUBSET InGate, late \in SUBSET Counted : RunMonitorTick(old, late)
           \/ ApplyAutoFix \/ QuiesceRuntime
           \/ \E a \in Apps, step \in {0, 1} : WindowsChange(a, step)
           \/ UNCHANGED vars
    PROVE  Inv'
<1>1. WorkersTyped  BY DEF Inv
<1>2. UNCHANGED <<pending, thread, stopping, msgs>> /\ msgs' \in Seq(Results)
  BY <1>1 DEF Begin, RunMonitorTick, ApplyAutoFix, QuiesceRuntime, WindowsChange,
             vars, workerVars, WorkersTyped
<1>3. CASE UNCHANGED stack  BY <1>2, <1>3, UntouchedKeeps
<1>4. ASSUME Idle, stack' \in Seq(Frames)  PROVE Inv'
  <2>1. Oversleeping' = {}
    BY <1>2, <1>4, IdleOwesNothing DEF Oversleeping, HasWork
  <2> QED  BY <1>1, <1>2, <1>4, <2>1 DEF Inv, WorkersTyped
<1>5. ASSUME NEW o \in OpIds, Begin(o)  PROVE Inv'
  <2>1. AppsOf[o] \in SUBSET Apps  BY PipelineAssumption
  <2>2. Ask(o, AppsOf[o]) \in Frames  BY <2>1, CallsAreFrames
  <2>3. Idle /\ stack' = <<Ask(o, AppsOf[o])>>  BY <1>5 DEF Begin, Handler
  <2>4. stack' \in Seq(Frames)  BY <2>2, <2>3, OwedOne
  <2> QED  BY <1>4, <2>3, <2>4
<1>6. CASE QuiesceRuntime
  <2>1. "session" \in Workers /\ "reconcile" \in Workers  BY DEF Workers
  <2>2. StopWorkers \in Seq(Frames)  BY <2>1, CallsAreFrames DEF StopWorkers
  <2> QED  BY <1>4, <1>6, <2>2 DEF QuiesceRuntime, Handler
<1> QED
  BY <1>3, <1>5, <1>6 DEF RunMonitorTick, ApplyAutoFix, WindowsChange, vars

LEMMA Begins == Init => Inv
<1> SUFFICES ASSUME Init  PROVE Inv
  OBVIOUS
<1>1. [pc |-> "awake", req |-> NoRequest, status |-> "none"] \in Threads
  BY DEF Threads, Slots, Statuses
<1>2. thread \in [Workers -> Threads] /\ \A w \in Workers : thread[w].pc = "awake"
  BY <1>1 DEF Init
<1>3. WorkersTyped  BY <1>2 DEF Init, WorkersTyped, Slots
<1> QED  BY <1>2, <1>3 DEF Inv, Oversleeping

LEMMA StepKeeps == Inv /\ [Next]_vars => Inv'
<1> SUFFICES ASSUME Inv, [Next]_vars  PROVE Inv'
  OBVIOUS
<1>1. CASE HandlerStep \/ StopStep  BY <1>1, HandlerCallsKeep
<1>2. CASE HandleSessionResult \/ HandleReconcileResult  BY <1>2, ResultsKeep
<1>3. ASSUME NEW w \in Workers, WorkerStep(w)  PROVE Inv'
  BY <1>3, WorkerKeeps
<1>4. CASE Exited  BY <1>4, OthersKeep DEF Exited
<1> QED  BY <1>1, <1>2, <1>3, <1>4, OthersKeep DEF Next

-----------------------------------------------------------------------------
\* The workers' slots, threads and results keep their types, and a worker
\* oversleeps only while the running handler still owes it a notification.
THEOREM PipelineInvariant == Spec => []Inv
BY Begins, StepKeeps, PTL DEF Spec

\* No wake-up is lost: a thread that sleeps on the condition variable while
\* there is work for it, or while it must stop, is about to be notified
\* (Request and Stop, which notify after they have released the mutex).
THEOREM NoWakeupIsLost == Spec => []NoLostWakeup
<1>1. Inv => NoLostWakeup
  BY DEF Inv, NoLostWakeup, Oversleeping, Owed
<1> QED  BY <1>1, PipelineInvariant, PTL

-----------------------------------------------------------------------------
(* The UI thread's state. *)

Pairs == OpIds \X Apps
Had == Gains \cup Statuses
Drafts == [op : OpIds, windows : [Apps -> Snapshots], got : [Apps -> Had]]
UiStates ==
    [phase : [OpIds -> {"new", "live", "ended"}],
     captured : [OpIds -> [Apps -> Snapshots]],
     session : [OpIds -> SUBSET Apps], matching : [OpIds -> SUBSET Apps],
     mode : [OpIds -> Modes], gate : [Apps -> OpIds \cup {NoOp}],
     routes : SUBSET Pairs, due : [OpIds -> Nat], monitor : BOOLEAN,
     got : [OpIds -> [Apps -> Had]], writing : SUBSET Drafts,
     published : SUBSET OpIds]

\* What holds of the operations and their routes at any time.  Inside a
\* handler the pairs `loose' have lost their route and still wait.
Sound(u, loose) ==
    /\ u \in UiStates
    /\ \A o \in OpIds, a \in Apps :
        /\ <<o, a>> \in u.routes <=> a \in u.session[o] /\ <<o, a>> \notin loose
        /\ a \in u.session[o] /\ <<o, a>> \notin loose => u.gate[a] = o
        /\ u.gate[a] = o => a \in AppsOf[o] /\ a \notin u.matching[o]
        /\ a \in u.session[o] => a \notin u.matching[o]
    /\ \A o \in OpIds :
        /\ u.due[o] = Cardinality(u.matching[o])
        /\ Outstanding(u, o) \subseteq AppsOf[o]
        /\ ~Live(u, o) => Outstanding(u, o) = {}
        /\ u.phase[o] = "new" => \A a \in Apps : u.gate[a] # o
        /\ KindOf[o] # "auto" /\ u.matching[o] # {} => u.mode[o] = ModeOf(o)

\* The timer that expires routes and deadlines is set while there are any.
Ticking(u) == (u.routes # {} \/ \E o \in OpIds : u.due[o] > 0) => u.monitor

\* A live operation waits for something, or is still asking.
AsksFor(s, o) == \E i \in DOMAIN s : s[i].fn = "Ask" /\ s[i].op = o
EveryoneWaits ==
    \A o \in OpIds : Live(ui, o) => Outstanding(ui, o) # {} \/ AsksFor(stack, o)

\* An operation that is still asking.
AskFits(u, f) ==
    /\ Live(u, f.op) /\ f.apps \subseteq AppsOf[f.op]
    /\ \A a \in f.apps : u.gate[a] # f.op /\ a \notin Outstanding(u, f.op)

\* What is left of StopWorkers, after each of its calls.
StopSequences ==
    {StopWorkers,
     <<Notify("session"), Join("session"), Stop("reconcile"), Join("reconcile"), Drain>>,
     <<Join("session"), Stop("reconcile"), Join("reconcile"), Drain>>,
     <<Stop("reconcile"), Join("reconcile"), Drain>>,
     <<Notify("reconcile"), Join("reconcile"), Drain>>,
     <<Join("reconcile"), Drain>>, <<Drain>>}

\* What the calls on the stack rely on.
CallsFit ==
    /\ Running => \A i \in DOMAIN stack :
        /\ stack[i].fn \in {"Ask", "PostSuperseded", "Notify"}
        /\ stack[i].fn = "Ask" => i = Len(stack) /\ AskFits(ui, stack[i])
    /\ quit = "quiescing" => stack \in StopSequences
    /\ quit = "quiesced" => stack = <<>>

\* The pairs that may still be asked for.
Unasked == {r \in Pairs : \/ ui.phase[r[1]] = "new"
                          \/ \E i \in DOMAIN stack : /\ stack[i].fn = "Ask"
                                                     /\ stack[i].op = r[1]
                                                     /\ r[2] \in stack[i].apps}
Superseded(r) ==
    \/ \E i \in DOMAIN msgs : /\ msgs[i].worker = "session" /\ msgs[i].req = r
                              /\ msgs[i].status = "Superseded"
    \/ \E i \in DOMAIN stack : stack[i] = PostSuperseded("session", r)

\* A request the worker has refused is not asked for again, and nobody who
\* still has a route for it is a manual operation.
Served ==
    /\ \A w \in Workers : thread[w].status # "Superseded"
    /\ \A a \in Apps : pending["session"][a] # NoRequest =>
                          <<pending["session"][a].op, a>> \notin Unasked
    /\ \A r \in Requests : Superseded(r) =>
        /\ <<r.op, r.app>> \notin Unasked
        /\ <<r.op, r.app>> \in ui.routes => KindOf[r.op] \notin {"save", "restore"}

\* Where a request may be.
At(w, r) ==
    \/ pending[w][r.app] = r
    \/ thread[w].pc \in {"busy", "posting"} /\ thread[w].req = r
    \/ \E i \in DOMAIN msgs : msgs[i].worker = w /\ msgs[i].req = r
    \/ \E i \in DOMAIN stack : stack[i] = PostSuperseded(w, r)
\* The requests that are waited for, by worker.
Waits(u) ==
    {<<"session", Request(r[1], r[2], "none")>> :
        r \in {x \in Pairs : x[2] \in u.session[x[1]]}}
    \cup {<<"reconcile", Request(r[1], r[2], u.mode[r[1]])>> :
        r \in {x \in Pairs : x[2] \in u.matching[x[1]]}}
Lossless ==
    Faults = {} /\ Running => \A x \in Waits(ui) : At(x[1], x[2])

\* The session worker's queue holds the applications with a pending request.
WorkTyped ==
    /\ order \in Seq(Apps) /\ IsInjective(order)
    /\ ToSet(order) = {a \in Apps : pending["session"][a] # NoRequest}
    /\ \A w \in Workers, a \in Apps :
            pending[w][a] # NoRequest => pending[w][a].app = a
    /\ world \in [Apps -> Snapshots]
    /\ \A a \in Apps : world[a].set <= world[a].content
    /\ autoFix \in BOOLEAN /\ quit \in {"running", "quiescing", "quiesced"}

\* What each call of Stop leaves behind.
Stopped ==
    \A w \in Workers :
        /\ stopping[w] => ~HasWork(w) /\ ~Running
        /\ ~Running => stopping[w] \/ \E i \in DOMAIN stack : stack[i] = Stop(w)
        /\ ~Running => thread[w].pc = "ended" \/ \E i \in DOMAIN stack : stack[i] = Join(w)
        /\ quit = "quiesced" => msgs = <<>>

UiInv == /\ Sound(ui, {}) /\ (Running => Ticking(ui)) /\ EveryoneWaits
         /\ CallsFit /\ Served /\ Lossless /\ WorkTyped /\ Stopped

-----------------------------------------------------------------------------
(* What the operators on the UI thread's state do to its fields. *)

LEMMA CloseFields ==
    ASSUME NEW u \in UiStates, NEW ops \in SUBSET OpIds, NEW v, v = Close(u, ops)
    PROVE  /\ v \in UiStates
           /\ \A o \in OpIds :
                /\ v.phase[o] = IF o \in ops THEN "ended" ELSE u.phase[o]
                /\ v.session[o] = IF o \in ops THEN {} ELSE u.session[o]
                /\ v.matching[o] = IF o \in ops THEN {} ELSE u.matching[o]
                /\ v.mode[o] = IF o \in ops THEN "none" ELSE u.mode[o]
                /\ v.due[o] = IF o \in ops THEN 0 ELSE u.due[o]
                /\ v.got[o] = IF o \in ops THEN Ungot ELSE u.got[o]
           /\ v.gate = u.gate /\ v.routes = u.routes
           /\ v.monitor = u.monitor /\ v.published = u.published /\ v.writing = u.writing
<1>1. Unseen \in [Apps -> Snapshots] /\ Ungot \in [Apps -> Had]
  BY PipelineAssumption DEF Unseen, Snapshots, Ungot, Had, Gains
<1>2. /\ Reset(u.phase, ops, "ended") \in [OpIds -> {"new", "live", "ended"}]
      /\ Reset(u.captured, ops, Unseen) \in [OpIds -> [Apps -> Snapshots]]
      /\ Reset(u.mode, ops, "none") \in [OpIds -> Modes]
      /\ Reset(u.session, ops, {}) \in [OpIds -> SUBSET Apps]
      /\ Reset(u.matching, ops, {}) \in [OpIds -> SUBSET Apps]
      /\ Reset(u.due, ops, 0) \in [OpIds -> Nat]
      /\ Reset(u.got, ops, Ungot) \in [OpIds -> [Apps -> Had]]
  BY <1>1 DEF UiStates, Reset, Modes
<1>3. /\ v.phase = Reset(u.phase, ops, "ended")
      /\ v.captured = Reset(u.captured, ops, Unseen)
      /\ v.mode = Reset(u.mode, ops, "none")
      /\ v.session = Reset(u.session, ops, {})
      /\ v.matching = Reset(u.matching, ops, {})
      /\ v.due = Reset(u.due, ops, 0)
      /\ v.got = Reset(u.got, ops, Ungot)
      /\ v.gate = u.gate /\ v.routes = u.routes
      /\ v.monitor = u.monitor /\ v.published = u.published /\ v.writing = u.writing
  BY DEF Close, UiStates
<1>4. v \in UiStates  BY <1>2 DEF Close, UiStates
<1> QED  BY <1>3, <1>4 DEF Reset

LEMMA RetireFields ==
    ASSUME NEW u \in UiStates, NEW ops \in SUBSET OpIds,
           NEW v, v = RetireSessionRoutesForOperation(u, ops)
    PROVE  /\ v \in UiStates
           /\ \A a \in Apps : v.gate[a] = IF u.gate[a] \in ops THEN NoOp ELSE u.gate[a]
           /\ v.routes = {r \in u.routes : r[1] \notin ops}
           /\ v.phase = u.phase /\ v.captured = u.captured /\ v.session = u.session
           /\ v.matching = u.matching /\ v.mode = u.mode /\ v.due = u.due
           /\ v.monitor = u.monitor /\ v.published = u.published
           /\ v.got = u.got /\ v.writing = u.writing
<1>1. [a \in Apps |-> IF u.gate[a] \in ops THEN NoOp ELSE u.gate[a]]
        \in [Apps -> OpIds \cup {NoOp}]
  BY DEF UiStates
<1>2. {r \in u.routes : r[1] \notin ops} \in SUBSET Pairs  BY DEF UiStates
<1> QED  BY <1>1, <1>2 DEF RetireSessionRoutesForOperation, UiStates

LEMMA UnrouteFields ==
    ASSUME NEW u \in UiStates, NEW old, NEW v, v = Unroute(u, old)
    PROVE  /\ v \in UiStates
           /\ \A a \in Apps : v.gate[a] = IF <<u.gate[a], a>> \in old
                                         THEN NoOp ELSE u.gate[a]
           /\ v.routes = u.routes \ old
           /\ v.phase = u.phase /\ v.captured = u.captured /\ v.session = u.session
           /\ v.matching = u.matching /\ v.mode = u.mode /\ v.due = u.due
           /\ v.monitor = u.monitor /\ v.published = u.published
           /\ v.got = u.got /\ v.writing = u.writing
<1>1. [a \in Apps |-> IF <<u.gate[a], a>> \in old THEN NoOp ELSE u.gate[a]]
        \in [Apps -> OpIds \cup {NoOp}]
  BY DEF UiStates
<1>2. u.routes \ old \in SUBSET Pairs  BY DEF UiStates
<1> QED  BY <1>1, <1>2 DEF Unroute, UiStates

LEMMA LeaveFields ==
    ASSUME NEW u \in UiStates, NEW given, NEW v, v = Leave(u, given)
    PROVE  /\ v \in UiStates
           /\ \A o \in OpIds :
                /\ v.session[o] = {a \in u.session[o] : <<o, a>> \notin given}
                /\ v.matching[o] = {a \in u.matching[o] : <<o, a>> \notin given}
           /\ v.gate = u.gate /\ v.routes = u.routes
           /\ v.phase = u.phase /\ v.captured = u.captured
           /\ v.mode = u.mode /\ v.due = u.due
           /\ v.monitor = u.monitor /\ v.published = u.published
           /\ v.got = u.got /\ v.writing = u.writing
<1> DEFINE minus(f) == [o \in OpIds |-> {a \in f[o] : <<o, a>> \notin given}]
<1>1. /\ minus(u.session) \in [OpIds -> SUBSET Apps]
      /\ minus(u.matching) \in [OpIds -> SUBSET Apps]
  BY DEF UiStates
<1> QED  BY <1>1 DEF Leave, UiStates

-----------------------------------------------------------------------------
(* How they keep `Sound'. *)

\* In v operations of u have ended or wait for less; nothing has begun.
Winds(u, v) ==
    /\ \A o \in OpIds :
        /\ v.phase[o] = u.phase[o] \/ v.phase[o] = "ended"
        /\ v.session[o] \subseteq u.session[o]
        /\ v.matching[o] \subseteq u.matching[o]
        /\ v.matching[o] # {} => v.mode[o] = u.mode[o]
    /\ \A a \in Apps : v.gate[a] = u.gate[a] \/ v.gate[a] = NoOp
    /\ v.routes \subseteq u.routes
    /\ v.monitor = u.monitor

Same(u, v, o) ==
    /\ v.phase[o] = u.phase[o]
    /\ v.session[o] = u.session[o] /\ v.matching[o] = u.matching[o]
Over(v, o) == v.phase[o] = "ended" /\ v.session[o] = {} /\ v.matching[o] = {}

LEMMA WindsTwice ==
    ASSUME NEW u, NEW v, NEW w, Winds(u, v), Winds(v, w)
    PROVE  Winds(u, w)
<1>1. \A o \in OpIds :
        /\ w.phase[o] = u.phase[o] \/ w.phase[o] = "ended"
        /\ w.session[o] \subseteq u.session[o]
        /\ w.matching[o] \subseteq u.matching[o]
        /\ w.matching[o] # {} => w.mode[o] = u.mode[o]
  BY DEF Winds
<1>2. \A a \in Apps : w.gate[a] = u.gate[a] \/ w.gate[a] = NoOp  BY DEF Winds
<1> QED  BY <1>1, <1>2 DEF Winds

\* Only the pairs that still wait count as loose.
LEMMA LooseOnly ==
    ASSUME NEW u, NEW loose, NEW more, Sound(u, loose),
           \A o \in OpIds, a \in Apps :
                a \in u.session[o] => (<<o, a>> \in loose <=> <<o, a>> \in more)
    PROVE  Sound(u, more)
BY DEF Sound

LEMMA CloseSound ==
    ASSUME NEW u, NEW loose, Sound(u, loose), NEW ops \in SUBSET OpIds,
           \A o \in ops, a \in Apps : a \in u.session[o] => <<o, a>> \in loose,
           NEW v, v = Close(u, ops)
    PROVE  /\ Sound(v, loose) /\ Winds(u, v)
           /\ \A o \in ops : Over(v, o)
           /\ \A o \in OpIds \ ops : Same(u, v, o)
<1>1. u \in UiStates  BY DEF Sound
<1>2. /\ v \in UiStates
      /\ \A o \in OpIds :
            /\ v.phase[o] = IF o \in ops THEN "ended" ELSE u.phase[o]
            /\ v.session[o] = IF o \in ops THEN {} ELSE u.session[o]
            /\ v.matching[o] = IF o \in ops THEN {} ELSE u.matching[o]
            /\ v.mode[o] = IF o \in ops THEN "none" ELSE u.mode[o]
            /\ v.due[o] = IF o \in ops THEN 0 ELSE u.due[o]
      /\ v.gate = u.gate /\ v.routes = u.routes
      /\ v.monitor = u.monitor
  BY <1>1, CloseFields
<1>3. Winds(u, v)  BY <1>2 DEF Winds
<1>4. /\ \A o \in ops : Over(v, o)
      /\ \A o \in OpIds \ ops : Same(u, v, o)
  BY <1>2 DEF Over, Same
<1>5. ASSUME NEW o \in OpIds, NEW a \in Apps
      PROVE  /\ <<o, a>> \in v.routes <=> a \in v.session[o] /\ <<o, a>> \notin loose
             /\ a \in v.session[o] /\ <<o, a>> \notin loose => v.gate[a] = o
             /\ v.gate[a] = o => a \in AppsOf[o] /\ a \notin v.matching[o]
             /\ a \in v.session[o] => a \notin v.matching[o]
  BY <1>2 DEF Sound
<1>6. ASSUME NEW o \in OpIds
      PROVE  /\ v.due[o] = Cardinality(v.matching[o])
             /\ Outstanding(v, o) \subseteq AppsOf[o]
             /\ ~Live(v, o) => Outstanding(v, o) = {}
             /\ v.phase[o] = "new" => \A a \in Apps : v.gate[a] # o
             /\ KindOf[o] # "auto" /\ v.matching[o] # {} => v.mode[o] = ModeOf(o)
  <2>1. CASE o \in ops
    <3>1. v.due[o] = 0 /\ v.matching[o] = {} /\ v.session[o] = {} /\ v.phase[o] = "ended"
      BY <1>2, <2>1
    <3> QED  BY <3>1, FS_EmptySet DEF Outstanding
  <2>2. CASE o \notin ops
    <3>1. /\ v.due[o] = u.due[o] /\ v.matching[o] = u.matching[o] /\ v.mode[o] = u.mode[o]
          /\ v.session[o] = u.session[o] /\ v.phase[o] = u.phase[o] /\ v.gate = u.gate
      BY <1>2, <2>2
    <3> QED  BY <3>1 DEF Sound, Outstanding, Live
  <2> QED  BY <2>1, <2>2
<1> QED  BY <1>2, <1>3, <1>4, <1>5, <1>6 DEF Sound

LEMMA RetireSound ==
    ASSUME NEW u, NEW loose, Sound(u, loose), NEW ops \in SUBSET OpIds,
           NEW v, v = RetireSessionRoutesForOperation(u, ops)
    PROVE  /\ Sound(v, loose \cup (ops \X Apps)) /\ Winds(u, v)
           /\ \A o \in OpIds : Same(u, v, o)
<1> DEFINE more == loose \cup (ops \X Apps)
<1>1. u \in UiStates  BY DEF Sound
<1>2. /\ v \in UiStates
      /\ \A a \in Apps : v.gate[a] = IF u.gate[a] \in ops THEN NoOp ELSE u.gate[a]
      /\ v.routes = {r \in u.routes : r[1] \notin ops}
      /\ v.phase = u.phase /\ v.session = u.session
      /\ v.matching = u.matching /\ v.mode = u.mode /\ v.due = u.due
      /\ v.monitor = u.monitor
  BY <1>1, RetireFields
<1>3. Winds(u, v) /\ \A o \in OpIds : Same(u, v, o)  BY <1>2 DEF Winds, Same
<1>4. \A o \in OpIds : o # NoOp  BY PipelineAssumption
<1>5. ASSUME NEW o \in OpIds, NEW a \in Apps
      PROVE  /\ <<o, a>> \in v.routes <=> a \in v.session[o] /\ <<o, a>> \notin more
             /\ a \in v.session[o] /\ <<o, a>> \notin more => v.gate[a] = o
             /\ v.gate[a] = o => a \in AppsOf[o] /\ a \notin v.matching[o]
             /\ a \in v.session[o] => a \notin v.matching[o]
  BY <1>2, <1>4 DEF Sound
<1>6. ASSUME NEW o \in OpIds
      PROVE  v.phase[o] = "new" => \A a \in Apps : v.gate[a] # o
  BY <1>2, <1>4 DEF Sound
<1> HIDE DEF more
<1>7. Sound(v, more)  BY <1>2, <1>5, <1>6 DEF Sound, Outstanding, Live
<1> QED  BY <1>3, <1>7 DEF more

LEMMA CancelSound ==
    ASSUME NEW u, NEW loose, Sound(u, loose), NEW ops \in SUBSET OpIds,
           NEW v, v = Cancel(u, ops)
    PROVE  /\ Sound(v, loose) /\ Winds(u, v)
           /\ \A o \in ops : Over(v, o)
           /\ \A o \in OpIds \ ops : Same(u, v, o)
<1> DEFINE mid == RetireSessionRoutesForOperation(u, ops)
           more == loose \cup (ops \X Apps)
<1>1. Sound(mid, more) /\ Winds(u, mid) /\ \A o \in OpIds : Same(u, mid, o)
  BY RetireSound
<1>2. v = Close(mid, ops)  BY DEF Cancel
<1>3. \A o \in ops, a \in Apps : <<o, a>> \in more  OBVIOUS
<1> HIDE DEF mid, more
<1>4. /\ Sound(v, more) /\ Winds(mid, v)
      /\ \A o \in ops : Over(v, o)
      /\ \A o \in OpIds \ ops : Same(mid, v, o)
  BY <1>1, <1>2, <1>3, CloseSound
<1>5. Sound(v, loose)
  <2>1. \A o \in OpIds, a \in Apps :
            a \in v.session[o] => (<<o, a>> \in more <=> <<o, a>> \in loose)
    BY <1>4 DEF more, Over
  <2> QED  BY <1>4, <2>1, LooseOnly
<1> QED  BY <1>1, <1>4, <1>5, WindsTwice DEF Same

LEMMA LeaveSound ==
    ASSUME NEW u, NEW loose, Sound(u, loose), NEW given,
           \A o \in OpIds, a \in Apps : <<o, a>> \in given =>
                a \notin u.matching[o] /\ (a \in u.session[o] => <<o, a>> \in loose),
           NEW v, v = Leave(u, given)
    PROVE  /\ Sound(v, loose) /\ Winds(u, v)
           /\ \A o \in OpIds :
                /\ v.phase[o] = u.phase[o] /\ v.matching[o] = u.matching[o]
                /\ v.session[o] = {a \in u.session[o] : <<o, a>> \notin given}
<1>1. u \in UiStates  BY DEF Sound
<1>2. /\ v \in UiStates
      /\ \A o \in OpIds :
            /\ v.session[o] = {a \in u.session[o] : <<o, a>> \notin given}
            /\ v.matching[o] = {a \in u.matching[o] : <<o, a>> \notin given}
      /\ v.gate = u.gate /\ v.routes = u.routes
      /\ v.phase = u.phase /\ v.mode = u.mode /\ v.due = u.due
      /\ v.monitor = u.monitor
  BY <1>1, LeaveFields
<1>3. \A o \in OpIds : u.matching[o] \subseteq Apps /\ u.session[o] \subseteq Apps
  BY <1>1 DEF UiStates
<1>4. \A o \in OpIds : v.matching[o] = u.matching[o]  BY <1>2, <1>3
<1>5. Winds(u, v)  BY <1>2, <1>4 DEF Winds
<1>6. ASSUME NEW o \in OpIds, NEW a \in Apps
      PROVE  /\ <<o, a>> \in v.routes <=> a \in v.session[o] /\ <<o, a>> \notin loose
             /\ a \in v.session[o] /\ <<o, a>> \notin loose => v.gate[a] = o
             /\ v.gate[a] = o => a \in AppsOf[o] /\ a \notin v.matching[o]
             /\ a \in v.session[o] => a \notin v.matching[o]
  BY <1>2, <1>4 DEF Sound
<1>7. ASSUME NEW o \in OpIds
      PROVE  /\ v.due[o] = Cardinality(v.matching[o])
             /\ Outstanding(v, o) \subseteq AppsOf[o]
             /\ ~Live(v, o) => Outstanding(v, o) = {}
             /\ v.phase[o] = "new" => \A a \in Apps : v.gate[a] # o
             /\ KindOf[o] # "auto" /\ v.matching[o] # {} => v.mode[o] = ModeOf(o)
  <2>1. Outstanding(v, o) \subseteq Outstanding(u, o)  BY <1>2, <1>4 DEF Outstanding
  <2>2. Live(v, o) = Live(u, o)  BY <1>2 DEF Live
  <2>3. Outstanding(v, o) \subseteq AppsOf[o] /\ (~Live(v, o) => Outstanding(v, o) = {})
    BY <2>1, <2>2 DEF Sound
  <2> QED  BY <1>2, <1>4, <2>3 DEF Sound
<1> QED  BY <1>2, <1>4, <1>5, <1>6, <1>7 DEF Sound

LEMMA UnrouteSound ==
    ASSUME NEW u, NEW loose, Sound(u, loose), NEW old, NEW v, v = Unroute(u, old)
    PROVE  /\ Sound(v, loose \cup old) /\ Winds(u, v)
           /\ \A o \in OpIds : Same(u, v, o)
           /\ \A a \in Apps : v.gate[a] = IF <<u.gate[a], a>> \in old
                                         THEN NoOp ELSE u.gate[a]
<1> DEFINE more == loose \cup old
<1>1. u \in UiStates  BY DEF Sound
<1>2. /\ v \in UiStates
      /\ \A a \in Apps : v.gate[a] = IF <<u.gate[a], a>> \in old THEN NoOp ELSE u.gate[a]
      /\ v.routes = u.routes \ old
      /\ v.phase = u.phase /\ v.session = u.session
      /\ v.matching = u.matching /\ v.mode = u.mode /\ v.due = u.due
      /\ v.monitor = u.monitor
  BY <1>1, UnrouteFields
<1>3. Winds(u, v) /\ \A o \in OpIds : Same(u, v, o)  BY <1>2 DEF Winds, Same
<1>4. \A o \in OpIds : o # NoOp  BY PipelineAssumption
<1>5. ASSUME NEW o \in OpIds, NEW a \in Apps
      PROVE  /\ <<o, a>> \in v.routes <=> a \in v.session[o] /\ <<o, a>> \notin more
             /\ a \in v.session[o] /\ <<o, a>> \notin more => v.gate[a] = o
             /\ v.gate[a] = o => a \in AppsOf[o] /\ a \notin v.matching[o]
             /\ a \in v.session[o] => a \notin v.matching[o]
  <2>1. /\ <<o, a>> \in u.routes <=> a \in u.session[o] /\ <<o, a>> \notin loose
        /\ a \in u.session[o] /\ <<o, a>> \notin loose => u.gate[a] = o
        /\ u.gate[a] = o => a \in AppsOf[o] /\ a \notin u.matching[o]
        /\ a \in u.session[o] => a \notin u.matching[o]
    BY DEF Sound
  <2>2. (v.gate[a] = u.gate[a] \/ v.gate[a] = NoOp) /\ o # NoOp  BY <1>2, <1>4
  <2>3. u.gate[a] = o /\ <<o, a>> \notin old => v.gate[a] = o  BY <1>2
  <2>4. <<o, a>> \in more <=> <<o, a>> \in loose \/ <<o, a>> \in old  OBVIOUS
  <2>5. <<o, a>> \in v.routes <=> <<o, a>> \in u.routes /\ <<o, a>> \notin old  BY <1>2
  <2> QED  BY <1>2, <2>1, <2>2, <2>3, <2>4, <2>5
<1>6. ASSUME NEW o \in OpIds, v.phase[o] = "new", NEW a \in Apps
      PROVE  v.gate[a] # o
  <2>1. u.gate[a] # o /\ o # NoOp  BY <1>2, <1>4, <1>6 DEF Sound
  <2> QED  BY <1>2, <2>1
<1> HIDE DEF more
<1>7. Sound(v, more)  BY <1>2, <1>5, <1>6 DEF Sound, Outstanding, Live
<1> QED  BY <1>2, <1>3, <1>7 DEF more

-----------------------------------------------------------------------------
(* The steps the handlers are made of. *)

Waiting(u, o) == Live(u, o) => Outstanding(u, o) # {}

LEMMA AppsAreFinite ==
    /\ IsFiniteSet(Apps)
    /\ \A S \in SUBSET Apps :
        IsFiniteSet(S) /\ Cardinality(S) \in 0..Cardinality(Apps)
<1>1. Apps = Range(AppOrder) /\ AppOrder \in Seq(Apps)
  BY PipelineAssumption DEF ToSet, Range
<1>2. IsFiniteSet(Apps)
  <2>1. IsFiniteSet(1..Len(AppOrder))  BY <1>1, FS_Interval
  <2>2. AppOrder \in Surjection(1..Len(AppOrder), Apps)
    BY <1>1 DEF Range, Surjection
  <2> QED  BY <2>1, <2>2, FS_Surjection
<1>3. ASSUME NEW S \in SUBSET Apps
      PROVE  IsFiniteSet(S) /\ Cardinality(S) \in 0..Cardinality(Apps)
  <2>1. IsFiniteSet(S) /\ Cardinality(S) <= Cardinality(Apps)  BY <1>2, FS_Subset
  <2> QED  BY <1>2, <2>1, FS_CardinalityType
<1> QED  BY <1>2, <1>3

LEMMA OneApp ==
    ASSUME NEW o \in OpIds, KindOf[o] \in {"auto", "probe"},
           NEW a \in AppsOf[o], NEW b \in AppsOf[o]
    PROVE  a = b
<1>1. AppsOf[o] \in SUBSET Apps /\ Cardinality(AppsOf[o]) = 1  BY PipelineAssumption
<1>2. IsFiniteSet(AppsOf[o])  BY <1>1, AppsAreFinite
<1> QED  BY <1>1, <1>2, FS_Singleton

LEMMA SettleSound ==
    ASSUME NEW u, Sound(u, {}), NEW o \in OpIds, NEW v, v = Settle(u, o)
    PROVE  /\ Sound(v, {}) /\ Winds(u, v) /\ Waiting(v, o)
           /\ \A p \in OpIds \ {o} : Same(u, v, p)
<1>1. CASE Outstanding(u, o) = {}
  <2>1. v = Close(u, {o}) /\ {o} \in SUBSET OpIds  BY <1>1 DEF Settle
  <2>2. \A p \in {o}, a \in Apps : a \in u.session[p] => <<p, a>> \in {}
    BY <1>1 DEF Outstanding
  <2>3. /\ Sound(v, {}) /\ Winds(u, v) /\ Over(v, o)
        /\ \A p \in OpIds \ {o} : Same(u, v, p)
    BY <2>1, <2>2, CloseSound
  <2> QED  BY <2>3 DEF Waiting, Over, Live
<1>2. CASE Outstanding(u, o) # {}
  <2>1. v = u  BY <1>2 DEF Settle
  <2> QED  BY <1>2, <2>1 DEF Winds, Same, Waiting
<1> QED  BY <1>1, <1>2

LEMMA RetireAsyncSound ==
    ASSUME NEW u, NEW loose, Sound(u, loose), NEW old,
           \A o \in OpIds, a \in Apps : <<o, a>> \in old =>
                a \notin u.matching[o] /\ a \in AppsOf[o],
           \A o \in OpIds, a \in Apps : a \in u.session[o] =>
                (<<o, a>> \in old <=> <<o, a>> \in loose),
           NEW v, v = RetireAsyncSessionOperation(u, old)
    PROVE  /\ Sound(v, {}) /\ Winds(u, v)
           /\ \A o \in OpIds : Waiting(u, o) => Waiting(v, o)
           /\ \A o \in OpIds :
                (\A a \in Apps : <<o, a>> \notin old) => Same(u, v, o)
           /\ \A o \in OpIds, a \in Apps : <<o, a>> \in old => a \notin v.session[o]
<1> DEFINE losers == {o \in OpIds : Live(u, o) /\ \E a \in Apps : <<o, a>> \in old}
           over == {o \in losers : KindOf[o] = "search" =>
                                     \A a \in Outstanding(u, o) : <<o, a>> \in old}
           cancelled == {o \in losers : KindOf[o] \in {"auto", "save", "restore"}}
           more == loose \cup (cancelled \X Apps)
           mid == RetireSessionRoutesForOperation(u, cancelled)
           left == Leave(mid, old)
<1>1. losers \in SUBSET OpIds /\ over \in SUBSET OpIds /\ cancelled \in SUBSET OpIds
  OBVIOUS
<1>2. v = Close(left, over)  BY DEF RetireAsyncSessionOperation
<1>3. cancelled \subseteq over  OBVIOUS
<1>4. \A o \in losers \ over : /\ KindOf[o] = "search"
                              /\ \E a \in Outstanding(u, o) : <<o, a>> \notin old
  OBVIOUS
<1>5. \A o \in over : \/ o \in cancelled
                     \/ (KindOf[o] = "probe" /\ \E a \in Apps : <<o, a>> \in old)
                     \/ \A a \in Outstanding(u, o) : <<o, a>> \in old
  <2>1. \A o \in OpIds : KindOf[o] \in {"auto", "save", "restore", "probe", "search"}
    BY PipelineAssumption DEF Kinds
  <2>2. \A o \in over : /\ o \in OpIds /\ \E a \in Apps : <<o, a>> \in old
                        /\ KindOf[o] = "search" => \A a \in Outstanding(u, o) : <<o, a>> \in old
                        /\ o \in cancelled <=> KindOf[o] \in {"auto", "save", "restore"}
    OBVIOUS
  <2> HIDE DEF over, cancelled
  <2> QED  BY <2>1, <2>2
<1>6. \A o \in OpIds \ losers : ~Live(u, o) \/ \A a \in Apps : <<o, a>> \notin old
  OBVIOUS
<1>7. \A o \in OpIds : (\A a \in Apps : <<o, a>> \notin old) => o \notin losers
  OBVIOUS
<1>8. /\ \A o \in OpIds, a \in Apps : <<o, a>> \in more <=>
                                      <<o, a>> \in loose \/ o \in cancelled
  BY <1>1
<1>9. /\ Sound(mid, more) /\ Winds(u, mid)
      /\ \A o \in OpIds : Same(u, mid, o)
  BY <1>1, RetireSound
<1> HIDE DEF losers, over, cancelled, more, mid
<1>10. /\ Sound(left, more) /\ Winds(mid, left)
       /\ \A o \in OpIds :
            /\ left.phase[o] = mid.phase[o] /\ left.matching[o] = mid.matching[o]
            /\ left.session[o] = {a \in mid.session[o] : <<o, a>> \notin old}
  <2>1. \A o \in OpIds, a \in Apps : <<o, a>> \in old =>
            a \notin mid.matching[o] /\ (a \in mid.session[o] => <<o, a>> \in more)
    BY <1>8, <1>9 DEF Same
  <2> QED  BY <1>9, <2>1, LeaveSound
<1>11. \A o \in OpIds :
            /\ left.phase[o] = u.phase[o] /\ left.matching[o] = u.matching[o]
            /\ left.session[o] = {a \in u.session[o] : <<o, a>> \notin old}
  BY <1>9, <1>10 DEF Same
<1> HIDE DEF left
<1>12. \A o \in over, a \in Apps : a \in left.session[o] => <<o, a>> \in more
  <2> SUFFICES ASSUME NEW o \in over, NEW a \in Apps, a \in left.session[o]
               PROVE  o \in cancelled
    BY <1>1, <1>8
  <2>1. a \in u.session[o] /\ <<o, a>> \notin old /\ o \in OpIds  BY <1>1, <1>11
  <2>2. a \in Outstanding(u, o) /\ a \in AppsOf[o]  BY <2>1 DEF Outstanding, Sound
  <2>3. ASSUME KindOf[o] = "probe", NEW b \in Apps, <<o, b>> \in old  PROVE FALSE
    <3>1. b \in AppsOf[o]  BY <2>1, <2>3
    <3>2. a = b  BY <2>1, <2>2, <2>3, <3>1, OneApp
    <3> QED  BY <2>1, <2>3, <3>2
  <2> QED  BY <1>5, <2>1, <2>2, <2>3
<1>13. /\ Sound(v, more) /\ Winds(left, v)
       /\ \A o \in over : Over(v, o)
       /\ \A o \in OpIds \ over : Same(left, v, o)
  BY <1>1, <1>2, <1>10, <1>12, CloseSound
<1>14. Sound(v, {})
  <2>1. ASSUME NEW o \in OpIds, NEW a \in Apps, a \in v.session[o]
        PROVE  <<o, a>> \notin more
    <3>1. o \notin over  BY <1>13, <2>1 DEF Over
    <3>2. a \in u.session[o] /\ <<o, a>> \notin old  BY <1>11, <1>13, <2>1, <3>1 DEF Same
    <3> QED  BY <1>3, <1>8, <2>1, <3>1, <3>2
  <2> QED  BY <1>13, <2>1, LooseOnly
<1>15. Winds(u, v)
  <2>1. Winds(u, left)  BY <1>9, <1>10, WindsTwice
  <2> QED  BY <2>1, <1>13, WindsTwice
<1>16. \A o \in OpIds \ losers : Same(u, v, o)
  <2> SUFFICES ASSUME NEW o \in OpIds \ losers  PROVE Same(u, v, o)
    OBVIOUS
  <2>1. o \notin over  BY <1>1 DEF over
  <2>2. Same(left, v, o)  BY <1>13, <2>1
  <2>3. left.session[o] = u.session[o]
    <3>1. u.session[o] \subseteq Apps  BY DEF Sound, UiStates
    <3>2. CASE ~Live(u, o)
      <4>1. u.session[o] = {}  BY <3>2 DEF Sound, Outstanding
      <4> QED  BY <4>1, <1>11
    <3>3. CASE \A a \in Apps : <<o, a>> \notin old  BY <1>11, <3>1, <3>3
    <3> QED  BY <1>6, <3>2, <3>3
  <2> QED  BY <1>11, <2>2, <2>3 DEF Same
<1>17. ASSUME NEW o \in OpIds, Waiting(u, o)  PROVE Waiting(v, o)
  <2>1. CASE o \notin losers
    BY <1>16, <1>17, <2>1 DEF Same, Waiting, Live, Outstanding
  <2>2. CASE o \in over
    BY <1>13, <2>2 DEF Over, Waiting, Live
  <2>3. CASE o \in losers \ over
    <3>1. PICK a \in Outstanding(u, o) : <<o, a>> \notin old  BY <1>4, <2>3
    <3>2. a \in left.session[o] \/ a \in left.matching[o]
      BY <1>11, <3>1 DEF Outstanding
    <3>3. a \in Outstanding(v, o)  BY <1>13, <2>3, <3>2 DEF Same, Outstanding
    <3> QED  BY <3>3 DEF Waiting
  <2> QED  BY <2>1, <2>2, <2>3
<1>18. ASSUME NEW o \in OpIds, NEW a \in Apps, <<o, a>> \in old
       PROVE  a \notin v.session[o]
  <2>1. a \notin left.session[o]  BY <1>11, <1>18
  <2> QED  BY <1>13, <2>1 DEF Over, Same
<1> QED  BY <1>7, <1>14, <1>15, <1>16, <1>17, <1>18

LEMMA DisplaceSound ==
    ASSUME NEW u, Sound(u, {}), NEW a \in Apps, NEW v, v = Displace(u, a)
    PROVE  /\ Sound(v, {}) /\ Winds(u, v) /\ v.gate[a] = NoOp
           /\ \A o \in OpIds : Waiting(u, o) => Waiting(v, o)
           /\ \A o \in OpIds : u.gate[a] # o => Same(u, v, o)
<1> DEFINE old == {<<u.gate[a], a>>}
           mid == Unroute(u, old)
<1>2. \A o \in OpIds, b \in Apps : <<o, b>> \in old <=> b = a /\ u.gate[a] = o
  OBVIOUS
<1>12. <<u.gate[a], a>> \in old  OBVIOUS
<1>3. v = RetireAsyncSessionOperation(mid, old)  BY DEF Displace
<1> HIDE DEF old
<1>1. /\ Sound(mid, {} \cup old) /\ Winds(u, mid)
      /\ \A o \in OpIds : Same(u, mid, o)
      /\ \A b \in Apps : mid.gate[b] = IF <<u.gate[b], b>> \in old
                                      THEN NoOp ELSE u.gate[b]
  BY UnrouteSound
<1>0. mid.gate[a] = NoOp  BY <1>1, <1>12
<1>4. {} \cup old = old  OBVIOUS
<1> HIDE DEF mid
<1>5. \A o \in OpIds, b \in Apps : <<o, b>> \in old =>
            b \notin mid.matching[o] /\ b \in AppsOf[o]
  BY <1>1, <1>2 DEF Same, Sound
<1>6. Sound(mid, old)  BY <1>1, <1>4
<1>7. /\ Sound(v, {}) /\ Winds(mid, v)
      /\ \A o \in OpIds : Waiting(mid, o) => Waiting(v, o)
      /\ \A o \in OpIds : (\A b \in Apps : <<o, b>> \notin old) => Same(mid, v, o)
  BY <1>3, <1>5, <1>6, RetireAsyncSound
<1>8. Winds(u, v)  BY <1>1, <1>7, WindsTwice
<1>9. v.gate[a] = NoOp  BY <1>0, <1>7 DEF Winds
<1>10. \A o \in OpIds : Waiting(u, o) => Waiting(v, o)
  BY <1>1, <1>7 DEF Same, Waiting, Live, Outstanding
<1>11. \A o \in OpIds : u.gate[a] # o => Same(u, v, o)
  BY <1>1, <1>2, <1>7 DEF Same
<1> QED  BY <1>7, <1>8, <1>9, <1>10, <1>11

\* The operation o goes on or ends, and nobody else is concerned.
GoesOn(u, v, o) ==
    /\ Sound(v, {}) /\ Winds(u, v) /\ Waiting(v, o)
    /\ \A p \in OpIds \ {o} : Same(u, v, p)

LEMMA LeaveGoesOn ==
    ASSUME NEW u, NEW o \in OpIds, NEW a \in Apps, Sound(u, {<<o, a>>}),
           a \notin u.matching[o], NEW v, v = Settle(Leave(u, {<<o, a>>}), o)
    PROVE  GoesOn(u, v, o)
<1> DEFINE given == {<<o, a>>}
           mid == Leave(u, given)
<1>1. \A p \in OpIds, b \in Apps : <<p, b>> \in given <=> p = o /\ b = a
  OBVIOUS
<1>2. Sound(u, given) /\ v = Settle(mid, o)  OBVIOUS
<1> HIDE DEF given
<1>3. \A p \in OpIds, b \in Apps : <<p, b>> \in given =>
            b \notin u.matching[p] /\ (b \in u.session[p] => <<p, b>> \in given)
  BY <1>1
<1>4. /\ Sound(mid, given) /\ Winds(u, mid)
      /\ \A p \in OpIds :
            /\ mid.phase[p] = u.phase[p] /\ mid.matching[p] = u.matching[p]
            /\ mid.session[p] = {b \in u.session[p] : <<p, b>> \notin given}
  BY <1>2, <1>3, LeaveSound
<1> HIDE DEF mid
<1>5. Sound(mid, {})  BY <1>4, LooseOnly
<1>6. /\ Sound(v, {}) /\ Winds(mid, v) /\ Waiting(v, o)
      /\ \A p \in OpIds \ {o} : Same(mid, v, p)
  BY <1>2, <1>5, SettleSound
<1>7. \A p \in OpIds \ {o} : mid.session[p] = u.session[p]
  <2>1. \A p \in OpIds : u.session[p] \subseteq Apps  BY <1>2 DEF Sound, UiStates
  <2> QED  BY <1>1, <1>4, <2>1
<1>8. Winds(u, v)  BY <1>4, <1>6, WindsTwice
<1> QED  BY <1>4, <1>6, <1>7, <1>8 DEF GoesOn, Same

LEMMA CancelGoesOn ==
    ASSUME NEW u, NEW o \in OpIds, NEW loose, Sound(u, loose),
           \A p \in OpIds, b \in Apps : <<p, b>> \in loose => p = o,
           NEW v, v = Cancel(u, {o})
    PROVE  GoesOn(u, v, o) /\ Over(v, o)
<1>1. {o} \in SUBSET OpIds  OBVIOUS
<1>2. /\ Sound(v, loose) /\ Winds(u, v)
      /\ \A p \in {o} : Over(v, p)
      /\ \A p \in OpIds \ {o} : Same(u, v, p)
  BY <1>1, CancelSound
<1>3. Sound(v, {})  BY <1>2, LooseOnly DEF Over
<1> QED  BY <1>2, <1>3 DEF GoesOn, Over, Waiting, Live

LEMMA CloseGoesOn ==
    ASSUME NEW u, NEW o \in OpIds, NEW loose, Sound(u, loose),
           \A p \in OpIds, b \in Apps : <<p, b>> \in loose => p = o,
           \A b \in u.session[o] : <<o, b>> \in loose,
           NEW v, v = Close(u, {o})
    PROVE  GoesOn(u, v, o) /\ Over(v, o)
<1>1. {o} \in SUBSET OpIds  OBVIOUS
<1>2. /\ Sound(v, loose) /\ Winds(u, v)
      /\ \A p \in {o} : Over(v, p)
      /\ \A p \in OpIds \ {o} : Same(u, v, p)
  BY <1>1, CloseSound
<1>3. Sound(v, {})  BY <1>2, LooseOnly DEF Over
<1> QED  BY <1>2, <1>3 DEF GoesOn, Over, Waiting, Live

\* What the operation has got of an application concerns nothing else.
LEMMA GainFields ==
    ASSUME NEW u \in UiStates, NEW o \in OpIds, NEW a \in Apps, NEW what \in Had,
           NEW v, v = Gain(u, o, a, what)
    PROVE  /\ v \in UiStates
           /\ v.phase = u.phase /\ v.session = u.session /\ v.matching = u.matching
           /\ v.mode = u.mode /\ v.gate = u.gate /\ v.routes = u.routes /\ v.due = u.due
           /\ v.monitor = u.monitor /\ v.captured = u.captured
           /\ v.published = u.published /\ v.writing = u.writing
           /\ v.got[o][a] = what
           /\ \A p \in OpIds, b \in Apps : p # o \/ b # a => v.got[p][b] = u.got[p][b]
           /\ \A p \in OpIds \ {o} : v.got[p] = u.got[p]
<1>1. u.got \in [OpIds -> [Apps -> Had]] /\ u.got[o] \in [Apps -> Had]  BY DEF UiStates
<1> DEFINE new == [u.got EXCEPT ![o][a] = what]
<1>2. /\ new \in [OpIds -> [Apps -> Had]] /\ new[o][a] = what
      /\ \A p \in OpIds, b \in Apps : p # o \/ b # a => new[p][b] = u.got[p][b]
      /\ \A p \in OpIds \ {o} : new[p] = u.got[p]
  BY <1>1
<1>3. v = [u EXCEPT !.got = new]  BY DEF Gain
<1> HIDE DEF new
<1>4. v \in UiStates /\ v.got = new  BY <1>2, <1>3 DEF UiStates
<1>5. /\ v.phase = u.phase /\ v.session = u.session /\ v.matching = u.matching
      /\ v.mode = u.mode /\ v.gate = u.gate /\ v.routes = u.routes /\ v.due = u.due
      /\ v.monitor = u.monitor /\ v.captured = u.captured
      /\ v.published = u.published /\ v.writing = u.writing
  BY <1>3 DEF UiStates
<1> QED  BY <1>2, <1>4, <1>5

LEMMA GainGoesOn ==
    ASSUME NEW u, Sound(u, {}), NEW o \in OpIds, NEW a \in Apps, NEW what \in Had,
           NEW v, v = Gain(u, o, a, what)
    PROVE  Sound(v, {}) /\ Winds(u, v) /\ \A p \in OpIds : Same(u, v, p)
<1>1. /\ v \in UiStates
      /\ v.phase = u.phase /\ v.session = u.session /\ v.matching = u.matching
      /\ v.mode = u.mode /\ v.gate = u.gate /\ v.routes = u.routes /\ v.due = u.due
      /\ v.monitor = u.monitor
  BY GainFields DEF Sound
<1>2. Sound(v, {})  BY <1>1 DEF Sound, Outstanding, Live
<1> QED  BY <1>1, <1>2 DEF Winds, Same

LEMMA FinishGoesOn ==
    ASSUME NEW u, NEW o \in OpIds, Sound(u, {}), NEW v, v = FinishManualSave(u, o)
    PROVE  GoesOn(u, v, o)
<1>1. CASE Outstanding(u, o) # {}
  <2>1. v = u  BY <1>1 DEF FinishManualSave
  <2> QED  BY <1>1, <2>1 DEF GoesOn, Winds, Same, Waiting
<1>2. CASE Outstanding(u, o) = {}
  <2> DEFINE mid == Close(u, {o})
             draft == [op |-> o, windows |-> u.captured[o], got |-> u.got[o]]
             new == IF \A a \in Apps : Current(u, o, a) THEN mid.writing \cup {draft}
                    ELSE mid.writing
  <2>1. u.session[o] = {}  BY <1>2 DEF Outstanding
  <2>2. GoesOn(u, mid, o) /\ Over(mid, o)  BY <2>1, CloseGoesOn
  <2>3. v = [mid EXCEPT !.writing = new]  BY <1>2 DEF FinishManualSave
  <2>4. mid \in UiStates /\ u \in UiStates  BY <2>2 DEF GoesOn, Sound
  <2>5. mid.writing \in SUBSET Drafts /\ draft \in Drafts  BY <2>4 DEF UiStates, Drafts
  <2> HIDE DEF draft
  <2>6. new \in SUBSET Drafts  BY <2>5
  <2> HIDE DEF mid, new
  <2>7. /\ v \in UiStates
        /\ v.phase = mid.phase /\ v.session = mid.session /\ v.matching = mid.matching
        /\ v.mode = mid.mode /\ v.gate = mid.gate /\ v.routes = mid.routes
        /\ v.due = mid.due /\ v.monitor = mid.monitor
    BY <2>3, <2>4, <2>6 DEF UiStates
  <2>8. Sound(v, {})  BY <2>2, <2>7 DEF GoesOn, Sound, Outstanding, Live
  <2>9. Winds(u, v)  BY <2>2, <2>7 DEF GoesOn, Winds
  <2>10. Waiting(v, o) /\ \A p \in OpIds \ {o} : Same(u, v, p)
    BY <2>2, <2>7 DEF GoesOn, Waiting, Outstanding, Live, Same
  <2> QED  BY <2>8, <2>9, <2>10 DEF GoesOn
<1> QED  BY <1>1, <1>2

LEMMA MonitorSound ==
    ASSUME NEW u, Sound(u, {}), NEW v,
           v = [u EXCEPT !.monitor = TRUE] \/ v = [u EXCEPT !.monitor = FALSE]
    PROVE  /\ Sound(v, {}) /\ (v = [u EXCEPT !.monitor = TRUE] => v.monitor)
           /\ v.phase = u.phase /\ v.session = u.session /\ v.matching = u.matching
           /\ v.mode = u.mode /\ v.gate = u.gate /\ v.routes = u.routes /\ v.due = u.due
           /\ v.captured = u.captured /\ v.published = u.published
           /\ v.got = u.got /\ v.writing = u.writing
<1>1. u \in UiStates  BY DEF Sound
<1>2. /\ v \in UiStates /\ (v = [u EXCEPT !.monitor = TRUE] => v.monitor)
      /\ v.phase = u.phase /\ v.session = u.session /\ v.matching = u.matching
      /\ v.mode = u.mode /\ v.gate = u.gate /\ v.routes = u.routes /\ v.due = u.due
      /\ v.captured = u.captured /\ v.published = u.published
      /\ v.got = u.got /\ v.writing = u.writing
  BY <1>1 DEF UiStates
<1>3. Sound(v, {})  BY <1>2 DEF Sound, Outstanding, Live
<1> QED  BY <1>2, <1>3

\* The monitor runs while something is outstanding, and goes on running when
\* less is outstanding than before.
LEMMA TickingKept ==
    ASSUME NEW u, NEW loose, Sound(u, loose), NEW v, NEW more, Sound(v, more),
           Winds(u, v), Ticking(u)
    PROVE  Ticking(v)
<1>1. ASSUME NEW o \in OpIds, v.due[o] > 0  PROVE u.due[o] > 0
  <2>1. /\ u.matching[o] \in SUBSET Apps /\ v.matching[o] \in SUBSET Apps
        /\ v.matching[o] \subseteq u.matching[o]
    BY DEF Sound, UiStates, Winds
  <2>2. IsFiniteSet(u.matching[o]) /\ Cardinality(v.matching[o]) <= Cardinality(u.matching[o])
    BY <2>1, AppsAreFinite, FS_Subset
  <2>3. Cardinality(u.matching[o]) \in Nat /\ Cardinality(v.matching[o]) \in Nat
    BY <2>1, AppsAreFinite, FS_CardinalityType
  <2> QED  BY <1>1, <2>2, <2>3 DEF Sound
<1>2. v.routes # {} => u.routes # {}  BY DEF Winds
<1> QED  BY <1>1, <1>2 DEF Ticking, Winds

LEMMA FinallySound ==
    ASSUME NEW u, Sound(u, {}), Ticking(u), NEW v, v = Finally(u) \/ v = KillMonitorIfIdle(u)
    PROVE  /\ Sound(v, {}) /\ Ticking(v)
           /\ v.phase = u.phase /\ v.session = u.session /\ v.matching = u.matching
           /\ v.mode = u.mode /\ v.gate = u.gate /\ v.routes = u.routes
           /\ v.captured = u.captured /\ v.published = u.published
           /\ v.got = u.got /\ v.writing = u.writing
<1>1. CASE v = u  BY <1>1
<1>2. CASE NothingOutstanding(u) /\ v = [u EXCEPT !.monitor = FALSE]
  <2>1. /\ Sound(v, {}) /\ v.routes = u.routes /\ v.due = u.due
        /\ v.phase = u.phase /\ v.session = u.session /\ v.matching = u.matching
        /\ v.mode = u.mode /\ v.gate = u.gate
        /\ v.captured = u.captured /\ v.published = u.published
        /\ v.got = u.got /\ v.writing = u.writing
    BY <1>2, MonitorSound
  <2>2. v.routes = {} /\ \A o \in OpIds : v.due[o] = 0
    BY <1>2, <2>1 DEF NothingOutstanding
  <2> QED  BY <2>1, <2>2 DEF Ticking
<1> QED  BY <1>1, <1>2 DEF Finally, KillMonitorIfIdle

\* What it says when no pair is loose.
Routed(u) ==
    \A p \in OpIds, b \in Apps :
        /\ <<p, b>> \in u.routes <=> b \in u.session[p]
        /\ b \in u.session[p] => u.gate[b] = p
        /\ u.gate[b] = p => b \in AppsOf[p] /\ b \notin u.matching[p]
        /\ b \in u.session[p] => b \notin u.matching[p]
Numbered(u) ==
    \A p \in OpIds :
        /\ u.due[p] = Cardinality(u.matching[p])
        /\ Outstanding(u, p) \subseteq AppsOf[p]
        /\ ~Live(u, p) => Outstanding(u, p) = {}
        /\ u.phase[p] = "new" => \A b \in Apps : u.gate[b] # p
        /\ KindOf[p] # "auto" /\ u.matching[p] # {} => u.mode[p] = ModeOf(p)

LEMMA SoundHere ==
    ASSUME NEW u
    PROVE  Sound(u, {}) <=> u \in UiStates /\ Routed(u) /\ Numbered(u)
<1>1. ASSUME Sound(u, {})  PROVE u \in UiStates /\ Routed(u) /\ Numbered(u)
  BY <1>1 DEF Sound, Routed, Numbered
<1>2. ASSUME u \in UiStates, Routed(u), Numbered(u)  PROVE Sound(u, {})
  BY <1>2 DEF Sound, Routed, Numbered
<1> QED  BY <1>1, <1>2

Matches(u, o, a, mode) ==
    [BeginDeadline(u, o) EXCEPT
        !.session[o] = @ \ {a}, !.matching[o] = @ \cup {a},
        !.mode[o] = mode, !.monitor = TRUE]

LEMMA MatchBegins ==
    ASSUME NEW u, NEW loose, Sound(u, loose), NEW o \in OpIds, NEW a \in AppsOf[o],
           \A p \in OpIds, b \in Apps :
                b \in u.session[p] /\ <<p, b>> \in loose => p = o /\ b = a,
           <<o, a>> \notin u.routes,
           a \notin u.matching[o], Live(u, o), u.gate[a] # o,
           NEW mode \in Modes, KindOf[o] # "auto" => mode = ModeOf(o), NEW v,
           v = Matches(u, o, a, mode)
    PROVE  /\ Sound(v, {}) /\ v.monitor /\ Waiting(v, o)
           /\ v.session[o] = u.session[o] \ {a} /\ v.matching[o] = u.matching[o] \cup {a}
           /\ v.mode[o] = mode
           /\ \A p \in OpIds \ {o} : Same(u, v, p) /\ v.mode[p] = u.mode[p]
           /\ v.phase = u.phase /\ v.gate = u.gate /\ v.routes = u.routes
           /\ v.captured = u.captured /\ v.published = u.published
           /\ v.got = u.got /\ v.writing = u.writing
<1>1. u \in UiStates /\ a \in Apps
  BY PipelineAssumption DEF Sound
<1>2. /\ v \in UiStates /\ v.monitor
      /\ v.session = [u.session EXCEPT ![o] = @ \ {a}]
      /\ v.matching = [u.matching EXCEPT ![o] = @ \cup {a}]
      /\ v.mode = [u.mode EXCEPT ![o] = mode]
      /\ v.due = [u.due EXCEPT ![o] = @ + 1]
      /\ v.phase = u.phase /\ v.gate = u.gate /\ v.routes = u.routes
      /\ v.captured = u.captured /\ v.published = u.published
      /\ v.got = u.got /\ v.writing = u.writing
  <2>1. /\ [u.session EXCEPT ![o] = @ \ {a}] \in [OpIds -> SUBSET Apps]
        /\ [u.matching EXCEPT ![o] = @ \cup {a}] \in [OpIds -> SUBSET Apps]
        /\ [u.mode EXCEPT ![o] = mode] \in [OpIds -> Modes]
        /\ [u.due EXCEPT ![o] = @ + 1] \in [OpIds -> Nat]
    BY <1>1 DEF UiStates
  <2> QED  BY <1>1, <2>1 DEF UiStates, BeginDeadline, Matches
<1>3. /\ v.session[o] = u.session[o] \ {a} /\ v.matching[o] = u.matching[o] \cup {a}
      /\ v.mode[o] = mode /\ v.due[o] = u.due[o] + 1
      /\ \A p \in OpIds \ {o} : /\ v.session[p] = u.session[p]
                               /\ v.matching[p] = u.matching[p]
                               /\ v.mode[p] = u.mode[p] /\ v.due[p] = u.due[p]
  BY <1>1, <1>2 DEF UiStates
<1>4. ASSUME NEW p \in OpIds, NEW b \in Apps
      PROVE  /\ <<p, b>> \in v.routes <=> b \in v.session[p]
             /\ b \in v.session[p] => v.gate[b] = p
             /\ v.gate[b] = p => b \in AppsOf[p] /\ b \notin v.matching[p]
             /\ b \in v.session[p] => b \notin v.matching[p]
  <2>1. /\ <<p, b>> \in u.routes <=> b \in u.session[p] /\ <<p, b>> \notin loose
        /\ b \in u.session[p] /\ <<p, b>> \notin loose => u.gate[b] = p
        /\ u.gate[b] = p => b \in AppsOf[p] /\ b \notin u.matching[p]
        /\ b \in u.session[p] => b \notin u.matching[p]
        /\ b \in u.session[p] /\ <<p, b>> \in loose => p = o /\ b = a
    BY DEF Sound
  <2>2. CASE p = o
    <3>1. CASE b = a
      BY <1>2, <1>3, <2>1, <2>2, <3>1
    <3>2. CASE b # a
      BY <1>2, <1>3, <2>1, <2>2, <3>2
    <3> QED  BY <3>1, <3>2
  <2>3. CASE p # o
    BY <1>2, <1>3, <2>1, <2>3
  <2> QED  BY <2>2, <2>3
<1>5. v.due[o] = Cardinality(v.matching[o])
  <2>1. u.matching[o] \in SUBSET Apps  BY <1>1 DEF UiStates
  <2>2. IsFiniteSet(u.matching[o])  BY <2>1, AppsAreFinite
  <2>3. Cardinality(u.matching[o] \cup {a}) = Cardinality(u.matching[o]) + 1
    BY <2>2, FS_AddElement
  <2> QED  BY <1>3, <2>3 DEF Sound
<1>6. ASSUME NEW p \in OpIds
      PROVE  /\ v.due[p] = Cardinality(v.matching[p])
             /\ Outstanding(v, p) \subseteq AppsOf[p]
             /\ ~Live(v, p) => Outstanding(v, p) = {}
             /\ v.phase[p] = "new" => \A b \in Apps : v.gate[b] # p
             /\ KindOf[p] # "auto" /\ v.matching[p] # {} => v.mode[p] = ModeOf(p)
  <2>1. CASE p = o
    <3>1. /\ v.matching[o] = u.matching[o] \cup {a} /\ v.session[o] = u.session[o] \ {a}
          /\ v.mode[o] = mode /\ v.phase[o] = "live"
      BY <1>2, <1>3 DEF Live
    <3>2. u.session[o] \subseteq AppsOf[o] /\ u.matching[o] \subseteq AppsOf[o]
      BY DEF Sound, Outstanding
    <3> QED  BY <1>5, <2>1, <3>1, <3>2 DEF Outstanding, Live
  <2>2. CASE p # o
    BY <1>2, <1>3, <2>2 DEF Sound, Outstanding, Live
  <2> QED  BY <2>1, <2>2
<1>7. Sound(v, {})
  <2>1. v \in UiStates  BY <1>2
  <2>2. Routed(v)  BY <1>4 DEF Routed
  <2>3. Numbered(v)  BY <1>6 DEF Numbered
  <2> QED  BY <2>1, <2>2, <2>3, SoundHere
<1>8. Waiting(v, o)  BY <1>3 DEF Waiting, Outstanding
<1> QED  BY <1>2, <1>3, <1>7, <1>8 DEF Same

Matched(u, o, a) == CompleteDeadline([u EXCEPT !.matching[o] = @ \ {a}], o)

LEMMA MatchDone ==
    ASSUME NEW u, Sound(u, {}), NEW o \in OpIds, NEW a \in u.matching[o], NEW v,
           v = Matched(u, o, a)
    PROVE  /\ Sound(v, {}) /\ Winds(u, v)
           /\ v.matching[o] = u.matching[o] \ {a}
           /\ \A p \in OpIds \ {o} : Same(u, v, p)
           /\ v.phase = u.phase /\ v.session = u.session /\ v.gate = u.gate
           /\ v.routes = u.routes /\ v.mode = u.mode
           /\ v.captured = u.captured /\ v.published = u.published
           /\ v.got = u.got /\ v.writing = u.writing
<1>1. u \in UiStates /\ u.matching[o] \in SUBSET Apps
  BY DEF Sound, UiStates
<1>2. u.due[o] = Cardinality(u.matching[o]) /\ IsFiniteSet(u.matching[o])
  BY <1>1, AppsAreFinite DEF Sound
<1>3. Cardinality(u.matching[o] \ {a}) = u.due[o] - 1 /\ u.due[o] - 1 \in Nat
  <2>1. IsFiniteSet(u.matching[o] \ {a})
        /\ Cardinality(u.matching[o] \ {a}) = Cardinality(u.matching[o]) - 1
    BY <1>2, FS_RemoveElement
  <2> QED  BY <1>2, <2>1, FS_CardinalityType
<1>4. /\ v \in UiStates
      /\ v.matching = [u.matching EXCEPT ![o] = @ \ {a}]
      /\ v.due = [u.due EXCEPT ![o] = @ - 1]
      /\ v.phase = u.phase /\ v.session = u.session /\ v.gate = u.gate
      /\ v.routes = u.routes /\ v.mode = u.mode /\ v.monitor = u.monitor
      /\ v.captured = u.captured /\ v.published = u.published
      /\ v.got = u.got /\ v.writing = u.writing
  <2>1. /\ [u.matching EXCEPT ![o] = @ \ {a}] \in [OpIds -> SUBSET Apps]
        /\ [u.due EXCEPT ![o] = @ - 1] \in [OpIds -> Nat]
    BY <1>1, <1>3 DEF UiStates
  <2> QED  BY <1>1, <2>1 DEF UiStates, CompleteDeadline, Matched
<1>5. /\ v.matching[o] = u.matching[o] \ {a} /\ v.due[o] = u.due[o] - 1
      /\ \A p \in OpIds \ {o} : v.matching[p] = u.matching[p] /\ v.due[p] = u.due[p]
  BY <1>1, <1>4 DEF UiStates
<1>6. Winds(u, v) /\ \A p \in OpIds \ {o} : Same(u, v, p)
  BY <1>4, <1>5 DEF Winds, Same
<1>7. \A p \in OpIds : v.due[p] = Cardinality(v.matching[p])
  BY <1>3, <1>5 DEF Sound
<1>8. \A p \in OpIds : Outstanding(v, p) \subseteq Outstanding(u, p) /\ Live(v, p) = Live(u, p)
  BY <1>4, <1>5 DEF Outstanding, Live
<1>9. \A p \in OpIds : /\ Outstanding(v, p) \subseteq AppsOf[p]
                       /\ ~Live(v, p) => Outstanding(v, p) = {}
  BY <1>8 DEF Sound
<1>10. \A p \in OpIds : v.matching[p] \subseteq u.matching[p]  BY <1>5
<1>11. Sound(v, {})
  <2>1. ASSUME NEW p \in OpIds, NEW b \in Apps
        PROVE  /\ <<p, b>> \in v.routes <=> b \in v.session[p]
               /\ b \in v.session[p] => v.gate[b] = p
               /\ v.gate[b] = p => b \in AppsOf[p] /\ b \notin v.matching[p]
               /\ b \in v.session[p] => b \notin v.matching[p]
    <3>1. /\ <<p, b>> \in u.routes <=> b \in u.session[p]
          /\ b \in u.session[p] => u.gate[b] = p
          /\ u.gate[b] = p => b \in AppsOf[p] /\ b \notin u.matching[p]
          /\ b \in u.session[p] => b \notin u.matching[p]
      BY DEF Sound
    <3>2. v.matching[p] \subseteq u.matching[p]  BY <1>10
    <3> QED  BY <1>4, <3>1, <3>2
  <2>2. ASSUME NEW p \in OpIds
        PROVE  /\ v.phase[p] = "new" => \A b \in Apps : v.gate[b] # p
               /\ KindOf[p] # "auto" /\ v.matching[p] # {} => v.mode[p] = ModeOf(p)
    <3>1. /\ u.phase[p] = "new" => \A b \in Apps : u.gate[b] # p
          /\ KindOf[p] # "auto" /\ u.matching[p] # {} => u.mode[p] = ModeOf(p)
      BY DEF Sound
    <3>2. v.matching[p] \subseteq u.matching[p]  BY <1>10
    <3> QED  BY <1>4, <3>1, <3>2
  <2>3. v \in UiStates  BY <1>4
  <2>4. ASSUME NEW p \in OpIds
        PROVE  /\ v.due[p] = Cardinality(v.matching[p])
               /\ Outstanding(v, p) \subseteq AppsOf[p]
               /\ ~Live(v, p) => Outstanding(v, p) = {}
    BY <1>7, <1>9
  <2>5. \A p \in OpIds :
            /\ v.due[p] = Cardinality(v.matching[p])
            /\ Outstanding(v, p) \subseteq AppsOf[p]
            /\ ~Live(v, p) => Outstanding(v, p) = {}
            /\ v.phase[p] = "new" => \A b \in Apps : v.gate[b] # p
            /\ KindOf[p] # "auto" /\ v.matching[p] # {} => v.mode[p] = ModeOf(p)
    BY <2>2, <2>4
  <2>6. Routed(v)  BY <2>1 DEF Routed
  <2>7. Numbered(v)  BY <2>5 DEF Numbered
  <2> QED  BY <2>3, <2>6, <2>7, SoundHere
<1> QED  BY <1>4, <1>5, <1>6, <1>11

Routes(u, o, a) ==
    [u EXCEPT !.gate[a] = o, !.routes = @ \cup {<<o, a>>},
              !.monitor = TRUE, !.session[o] = @ \cup {a}]

LEMMA RouteBegins ==
    ASSUME NEW u, Sound(u, {}), NEW o \in OpIds, NEW a \in AppsOf[o],
           u.gate[a] = NoOp, Live(u, o), a \notin Outstanding(u, o), NEW v,
           v = Routes(u, o, a)
    PROVE  /\ Sound(v, {}) /\ v.monitor /\ Waiting(v, o)
           /\ v.session[o] = u.session[o] \cup {a}
           /\ v.matching[o] = u.matching[o]
           /\ \A p \in OpIds \ {o} : Same(u, v, p)
           /\ \A b \in Apps \ {a} : v.gate[b] = u.gate[b]
           /\ v.gate[a] = o
           /\ v.phase = u.phase /\ v.mode = u.mode /\ v.matching = u.matching
           /\ v.routes = u.routes \cup {<<o, a>>}
           /\ v.captured = u.captured /\ v.published = u.published
           /\ v.got = u.got /\ v.writing = u.writing
<1>1. u \in UiStates /\ a \in Apps /\ <<o, a>> \in Pairs
  BY PipelineAssumption DEF Sound, Pairs
<1>2. /\ v \in UiStates /\ v.monitor
      /\ v.session = [u.session EXCEPT ![o] = @ \cup {a}]
      /\ v.gate = [u.gate EXCEPT ![a] = o]
      /\ v.routes = u.routes \cup {<<o, a>>}
      /\ v.phase = u.phase /\ v.mode = u.mode /\ v.matching = u.matching
      /\ v.due = u.due /\ v.captured = u.captured /\ v.published = u.published
      /\ v.got = u.got /\ v.writing = u.writing
  <2>1. /\ [u.session EXCEPT ![o] = @ \cup {a}] \in [OpIds -> SUBSET Apps]
        /\ [u.gate EXCEPT ![a] = o] \in [Apps -> OpIds \cup {NoOp}]
        /\ u.routes \cup {<<o, a>>} \in SUBSET Pairs
    BY <1>1 DEF UiStates
  <2> QED  BY <1>1, <2>1 DEF UiStates, Routes
<1>3. /\ v.session[o] = u.session[o] \cup {a} /\ v.gate[a] = o
      /\ \A p \in OpIds \ {o} : v.session[p] = u.session[p]
      /\ \A b \in Apps \ {a} : v.gate[b] = u.gate[b]
  BY <1>1, <1>2 DEF UiStates
<1>4. \A p \in OpIds : p # NoOp  BY PipelineAssumption
<1>5. ASSUME NEW p \in OpIds, NEW b \in Apps
      PROVE  /\ <<p, b>> \in v.routes <=> b \in v.session[p]
             /\ b \in v.session[p] => v.gate[b] = p
             /\ v.gate[b] = p => b \in AppsOf[p] /\ b \notin v.matching[p]
             /\ b \in v.session[p] => b \notin v.matching[p]
  <2>1. /\ <<p, b>> \in u.routes <=> b \in u.session[p]
        /\ b \in u.session[p] => u.gate[b] = p
        /\ u.gate[b] = p => b \in AppsOf[p] /\ b \notin u.matching[p]
        /\ b \in u.session[p] => b \notin u.matching[p]
    BY DEF Sound
  <2>2. CASE b = a /\ p = o  BY <1>2, <1>3, <2>1, <2>2 DEF Outstanding
  <2>3. CASE b = a /\ p # o
    <3>1. b \notin u.session[p] /\ <<p, b>> \notin u.routes
      BY <1>4, <2>1, <2>3
    <3> QED  BY <1>2, <1>3, <2>3, <3>1
  <2>4. CASE b # a
    <3>1. v.gate[b] = u.gate[b] /\ (b \in v.session[p] <=> b \in u.session[p])
      BY <1>3, <2>4
    <3>2. <<p, b>> \in v.routes <=> <<p, b>> \in u.routes
      BY <1>2, <2>4
    <3> QED  BY <1>2, <2>1, <3>1, <3>2
  <2> QED  BY <2>2, <2>3, <2>4
<1>6. ASSUME NEW p \in OpIds
      PROVE  /\ v.due[p] = Cardinality(v.matching[p])
             /\ Outstanding(v, p) \subseteq AppsOf[p]
             /\ ~Live(v, p) => Outstanding(v, p) = {}
             /\ v.phase[p] = "new" => \A b \in Apps : v.gate[b] # p
             /\ KindOf[p] # "auto" /\ v.matching[p] # {} => v.mode[p] = ModeOf(p)
  <2>1. /\ u.due[p] = Cardinality(u.matching[p])
        /\ u.session[p] \subseteq AppsOf[p] /\ u.matching[p] \subseteq AppsOf[p]
        /\ ~Live(u, p) => u.session[p] = {} /\ u.matching[p] = {}
        /\ u.phase[p] = "new" => \A b \in Apps : u.gate[b] # p
        /\ KindOf[p] # "auto" /\ u.matching[p] # {} => u.mode[p] = ModeOf(p)
    BY DEF Sound, Outstanding
  <2>2. CASE p = o
    BY <1>2, <1>3, <2>1, <2>2 DEF Outstanding, Live
  <2>3. CASE p # o
    <3>1. v.phase[p] = "new" => \A b \in Apps : v.gate[b] # p
      BY <1>2, <1>3, <2>1, <2>3
    <3> QED  BY <1>2, <1>3, <2>1, <2>3, <3>1 DEF Outstanding, Live
  <2> QED  BY <2>2, <2>3
<1>7. Sound(v, {})  BY <1>2, <1>5, <1>6 DEF Sound
<1>8. Waiting(v, o)  BY <1>3 DEF Waiting, Outstanding
<1> QED  BY <1>2, <1>3, <1>7, <1>8 DEF Same

Opened(u, o) == [u EXCEPT !.phase[o] = "live", !.captured[o] = world]

LEMMA OpBegins ==
    ASSUME NEW u, Sound(u, {}), NEW o \in OpIds, u.phase[o] = "new",
           world \in [Apps -> Snapshots], NEW v, v = Opened(u, o)
    PROVE  /\ Sound(v, {}) /\ Live(v, o)
           /\ \A p \in OpIds \ {o} : v.phase[p] = u.phase[p]
           /\ v.session = u.session /\ v.matching = u.matching /\ v.mode = u.mode
           /\ v.gate = u.gate /\ v.routes = u.routes /\ v.monitor = u.monitor
           /\ v.due = u.due /\ v.published = u.published
           /\ v.got = u.got /\ v.writing = u.writing
<1>1. u \in UiStates  BY DEF Sound
<1>2. /\ v \in UiStates
      /\ v.phase = [u.phase EXCEPT ![o] = "live"]
      /\ v.session = u.session /\ v.matching = u.matching /\ v.mode = u.mode
      /\ v.gate = u.gate /\ v.routes = u.routes /\ v.monitor = u.monitor
      /\ v.due = u.due /\ v.published = u.published
      /\ v.got = u.got /\ v.writing = u.writing
  <2>1. /\ [u.phase EXCEPT ![o] = "live"] \in [OpIds -> {"new", "live", "ended"}]
        /\ [u.captured EXCEPT ![o] = world] \in [OpIds -> [Apps -> Snapshots]]
    BY <1>1 DEF UiStates
  <2> QED  BY <1>1, <2>1 DEF UiStates, Opened
<1>3. v.phase[o] = "live" /\ \A p \in OpIds \ {o} : v.phase[p] = u.phase[p]
  BY <1>1, <1>2 DEF UiStates
<1>4. Sound(v, {})
  <2>1. ASSUME NEW p \in OpIds
        PROVE  /\ Outstanding(v, p) \subseteq AppsOf[p]
               /\ ~Live(v, p) => Outstanding(v, p) = {}
               /\ v.phase[p] = "new" => \A b \in Apps : v.gate[b] # p
    BY <1>2, <1>3 DEF Sound, Outstanding, Live
  <2> QED  BY <1>2, <2>1 DEF Sound
<1> QED  BY <1>2, <1>3, <1>4 DEF Live

LEMMA RecapturedSound ==
    ASSUME NEW u, NEW loose, Sound(u, loose), world \in [Apps -> Snapshots],
           NEW o \in OpIds, NEW a \in Apps, NEW v, v = Recaptured(u, o, a)
    PROVE  /\ Sound(v, loose) /\ v.published = u.published
           /\ v.got = u.got /\ v.writing = u.writing
           /\ v.phase = u.phase /\ v.session = u.session /\ v.matching = u.matching
           /\ v.mode = u.mode /\ v.gate = u.gate /\ v.routes = u.routes
           /\ v.due = u.due /\ v.monitor = u.monitor
<1>1. u \in UiStates  BY DEF Sound
<1>2. CASE v = u  BY <1>2
<1>3. CASE v = [u EXCEPT !.captured[o][a] = world[a]]
  <2>1. u.captured[o] \in [Apps -> Snapshots]  BY <1>1 DEF UiStates
  <2>2. [u.captured EXCEPT ![o][a] = world[a]] \in [OpIds -> [Apps -> Snapshots]]
    BY <1>1, <2>1 DEF UiStates
  <2>3. /\ v \in UiStates /\ v.published = u.published
        /\ v.got = u.got /\ v.writing = u.writing
        /\ v.phase = u.phase /\ v.session = u.session /\ v.matching = u.matching
        /\ v.mode = u.mode /\ v.gate = u.gate /\ v.routes = u.routes
        /\ v.due = u.due /\ v.monitor = u.monitor
    BY <1>1, <1>3, <2>2 DEF UiStates
  <2> QED  BY <2>3 DEF Sound, Outstanding, Live
<1> QED  BY <1>2, <1>3 DEF Recaptured

-----------------------------------------------------------------------------
(* What is waited for, and where it is. *)

LEMMA WaitsAre ==
    ASSUME NEW u, u \in UiStates
    PROVE  \A r :
           /\ <<"session", r>> \in Waits(u) <=>
                \E o \in OpIds : \E a \in u.session[o] : r = Request(o, a, "none")
           /\ <<"reconcile", r>> \in Waits(u) <=>
                \E o \in OpIds : \E a \in u.matching[o] : r = Request(o, a, u.mode[o])
           /\ \A w : <<w, r>> \in Waits(u) => w \in Workers /\ r \in Requests
<1> TAKE r
<1>1. \A o \in OpIds : /\ u.session[o] \subseteq Apps /\ u.matching[o] \subseteq Apps
                       /\ u.mode[o] \in Modes
  BY DEF UiStates
<1> DEFINE S == {x \in Pairs : x[2] \in u.session[x[1]]}
           M == {x \in Pairs : x[2] \in u.matching[x[1]]}
<1>2. \A o, a : <<o, a>> \in S <=> o \in OpIds /\ a \in u.session[o]
  BY <1>1 DEF Pairs
<1>3. \A o, a : <<o, a>> \in M <=> o \in OpIds /\ a \in u.matching[o]
  BY <1>1 DEF Pairs
<1>4. \A x \in S : x = <<x[1], x[2]>>  BY DEF Pairs
<1>5. \A x \in M : x = <<x[1], x[2]>>  BY DEF Pairs
<1>6. \A v, q : <<v, q>> \in Waits(u) <=>
            \/ v = "session" /\ \E x \in S : q = Request(x[1], x[2], "none")
            \/ v = "reconcile" /\ \E x \in M : q = Request(x[1], x[2], u.mode[x[1]])
  BY DEF Waits
<1> HIDE DEF S, M
<1>7. \A q : (\E x \in S : q = Request(x[1], x[2], "none")) <=>
             \E o \in OpIds : \E a \in u.session[o] : q = Request(o, a, "none")
  <2> TAKE q
  <2>1. ASSUME NEW x \in S, q = Request(x[1], x[2], "none")
        PROVE  \E o \in OpIds : \E a \in u.session[o] : q = Request(o, a, "none")
    BY <1>2, <1>4, <2>1
  <2>2. ASSUME NEW o \in OpIds, NEW a \in u.session[o], q = Request(o, a, "none")
        PROVE  \E x \in S : q = Request(x[1], x[2], "none")
    <3>1. <<o, a>> \in S  BY <1>2
    <3>2. q = Request(<<o, a>>[1], <<o, a>>[2], "none")  BY <2>2
    <3> QED  BY <3>1, <3>2
  <2> QED  BY <2>1, <2>2
<1>8. \A q : (\E x \in M : q = Request(x[1], x[2], u.mode[x[1]])) <=>
             \E o \in OpIds : \E a \in u.matching[o] : q = Request(o, a, u.mode[o])
  <2> TAKE q
  <2>1. ASSUME NEW x \in M, q = Request(x[1], x[2], u.mode[x[1]])
        PROVE  \E o \in OpIds : \E a \in u.matching[o] : q = Request(o, a, u.mode[o])
    BY <1>3, <1>5, <2>1
  <2>2. ASSUME NEW o \in OpIds, NEW a \in u.matching[o], q = Request(o, a, u.mode[o])
        PROVE  \E x \in M : q = Request(x[1], x[2], u.mode[x[1]])
    <3>1. <<o, a>> \in M  BY <1>3
    <3>2. q = Request(<<o, a>>[1], <<o, a>>[2], u.mode[<<o, a>>[1]])  BY <2>2
    <3> QED  BY <3>1, <3>2
  <2> QED  BY <2>1, <2>2
<1>9. "none" \in Modes  BY DEF Modes
<1>10. \A o \in OpIds, a \in Apps, m \in Modes : Request(o, a, m) \in Requests
  BY DEF Request, Requests
<1>11. ASSUME NEW w, <<w, r>> \in Waits(u)  PROVE w \in Workers /\ r \in Requests
  BY <1>1, <1>6, <1>7, <1>8, <1>9, <1>10, <1>11 DEF Workers
<1> QED  BY <1>6, <1>7, <1>8, <1>11

LEMMA WaitsTyped ==
    ASSUME NEW u, u \in UiStates, NEW x \in Waits(u)
    PROVE  x = <<x[1], x[2]>> /\ x[1] \in Workers /\ x[2] \in Requests
<1>0. \A q :
        /\ <<"session", q>> \in Waits(u) <=>
             \E p \in OpIds : \E b \in u.session[p] : q = Request(p, b, "none")
        /\ <<"reconcile", q>> \in Waits(u) <=>
             \E p \in OpIds : \E b \in u.matching[p] : q = Request(p, b, u.mode[p])
        /\ \A w : <<w, q>> \in Waits(u) => w \in Workers /\ q \in Requests
  BY WaitsAre
<1>1. x = <<x[1], x[2]>>  BY DEF Waits
<1> QED  BY <1>0, <1>1

\* Nothing begins between u and v, and nothing more is waited for.
Less(u, v) ==
    /\ \A o \in OpIds : v.phase[o] = u.phase[o] \/ v.phase[o] = "ended"
    /\ v.routes \subseteq u.routes
    /\ Waits(v) \subseteq Waits(u)

LEMMA WindsLess ==
    ASSUME NEW u, NEW v, u \in UiStates, v \in UiStates, Winds(u, v)
    PROVE  Less(u, v)
<1>0. \A q :
        /\ <<"session", q>> \in Waits(v) <=>
             \E o \in OpIds : \E a \in v.session[o] : q = Request(o, a, "none")
        /\ <<"reconcile", q>> \in Waits(v) <=>
             \E o \in OpIds : \E a \in v.matching[o] : q = Request(o, a, v.mode[o])
        /\ \A w : <<w, q>> \in Waits(v) => w \in Workers /\ q \in Requests
  BY WaitsAre
<1>1. ASSUME NEW x \in Waits(v)  PROVE x \in Waits(u)
  <2>1. PICK r : x = <<"session", r>> \/ x = <<"reconcile", r>>  BY DEF Waits
  <2>2. CASE x = <<"session", r>>
    <3>1. PICK o \in OpIds : \E a \in v.session[o] : r = Request(o, a, "none")
      BY <1>0, <2>2
    <3>2. \E a \in u.session[o] : r = Request(o, a, "none")  BY <3>1 DEF Winds
    <3> QED  BY <2>2, <3>2, WaitsAre
  <2>3. CASE x = <<"reconcile", r>>
    <3>1. PICK o \in OpIds : \E a \in v.matching[o] : r = Request(o, a, v.mode[o])
      BY <1>0, <2>3
    <3>2. \E a \in u.matching[o] : r = Request(o, a, u.mode[o])  BY <3>1 DEF Winds
    <3> QED  BY <2>3, <3>2, WaitsAre
  <2> QED  BY <2>1, <2>2, <2>3
<1> QED  BY <1>1 DEF Less, Winds

LEMMA FinallyLess ==
    ASSUME NEW u, NEW mid, NEW v, Sound(u, {}), Sound(mid, {}), Winds(u, mid), Ticking(u),
           v = Finally(mid) \/ v = KillMonitorIfIdle(mid)
    PROVE  /\ Sound(v, {}) /\ Ticking(v) /\ Less(u, v)
           /\ Waits(v) = Waits(mid)
           /\ \A o \in OpIds : Same(mid, v, o)
<1>1. Ticking(mid)  BY TickingKept
<1>2. /\ Sound(v, {}) /\ Ticking(v)
      /\ v.phase = mid.phase /\ v.session = mid.session /\ v.matching = mid.matching
      /\ v.mode = mid.mode /\ v.gate = mid.gate /\ v.routes = mid.routes
  BY <1>1, FinallySound
<1>4. Less(u, mid)  BY WindsLess DEF Sound
<1>5. Waits(v) = Waits(mid)  BY <1>2 DEF Waits
<1>6. Less(u, v)  BY <1>2, <1>4, <1>5 DEF Less
<1>7. \A o \in OpIds : Same(mid, v, o)  BY <1>2 DEF Same
<1> QED  BY <1>2, <1>5, <1>6, <1>7

-----------------------------------------------------------------------------
(* The handlers that ask for nothing keep the invariant. *)

\* The state a handler leaves, when it is not in the middle of anything and
\* nobody is asked: less is outstanding, and the result that it has handled
\* is no longer waited for.
LEMMA QuietKeeps ==
    ASSUME Inv, UiInv, Running, Idle,
           UNCHANGED <<world, quit, pending, order, thread, stopping, stack>>,
           autoFix' \in BOOLEAN, Sound(ui', {}), Ticking(ui'), Less(ui, ui'),
           \A o \in OpIds : Waiting(ui', o),
           \/ msgs' = msgs
           \/ /\ msgs # <<>> /\ msgs' = Tail(msgs)
              /\ <<Head(msgs).worker, Head(msgs).req>> \notin Waits(ui')
    PROVE  UiInv'
<1>1. /\ stack = <<>> /\ stack' = <<>> /\ quit = "running" /\ quit' = "running"
      /\ WorkersTyped
  BY DEF Idle, Running, Inv
<1>2. /\ \A i \in DOMAIN msgs' : \E j \in DOMAIN msgs : msgs'[i] = msgs[j]
      /\ \A j \in DOMAIN msgs : \/ \E i \in DOMAIN msgs' : msgs'[i] = msgs[j]
                               \/ <<msgs[j].worker, msgs[j].req>> \notin Waits(ui')
  <2>1. msgs \in Seq(Results)  BY <1>1 DEF WorkersTyped
  <2>2. CASE msgs' = msgs  BY <2>2
  <2>3. CASE msgs # <<>> /\ msgs' = Tail(msgs)
             /\ <<Head(msgs).worker, Head(msgs).req>> \notin Waits(ui')
    <3>1. \A i \in DOMAIN msgs' : i + 1 \in DOMAIN msgs /\ msgs'[i] = msgs[i + 1]
      BY <2>1, <2>3
    <3>2. \A j \in DOMAIN msgs : j = 1 \/ (j - 1 \in DOMAIN msgs' /\ msgs'[j - 1] = msgs[j])
      BY <2>1, <2>3
    <3>3. Head(msgs) = msgs[1]  BY <2>1, <2>3
    <3> QED  BY <2>3, <3>1, <3>2, <3>3
  <2> QED  BY <2>2, <2>3
<1>3. EveryoneWaits'  BY DEF EveryoneWaits, Waiting
<1>4. CallsFit'  BY <1>1 DEF CallsFit, Running
<1>5. Unasked' \subseteq Unasked  BY <1>1 DEF Unasked, Less, Pairs
<1>6. Served'
  <2>1. \A r : Superseded(r)' => Superseded(r)  BY <1>1, <1>2 DEF Superseded
  <2>2. ui'.routes \subseteq ui.routes  BY DEF Less
  <2> QED  BY <1>5, <2>1, <2>2 DEF UiInv, Served
<1>7. Lossless'
  <2> SUFFICES ASSUME Faults = {}, NEW x \in Waits(ui')  PROVE At(x[1], x[2])'
    BY DEF Lossless
  <2>1. x \in Waits(ui)  BY DEF Less
  <2>2. At(x[1], x[2])  BY <1>1, <2>1 DEF UiInv, Lossless, Running
  <2>3. x = <<x[1], x[2]>>  BY DEF Waits
  <2> QED  BY <1>1, <1>2, <2>2, <2>3 DEF At
<1>8. WorkTyped'  BY DEF UiInv, WorkTyped
<1>9. Stopped'  BY <1>1 DEF UiInv, Stopped, HasWork, Running
<1> QED  BY <1>3, <1>4, <1>6, <1>7, <1>8, <1>9 DEF UiInv

LEMMA TickKeeps ==
    ASSUME Inv, UiInv, NEW old \in SUBSET InGate, NEW late \in SUBSET Counted,
           RunMonitorTick(old, late)
    PROVE  UiInv'
<1> DEFINE cut == Unroute(ui, old)
           mid == RetireAsyncSessionOperation(cut, old)
           ops == {o \in late : Live(mid, o)}
           end == Cancel(mid, ops)
<1>1. /\ Handler /\ ui' = Finally(end)
      /\ UNCHANGED <<world, autoFix, quit, pending, order, thread, stopping, stack, msgs>>
  BY DEF RunMonitorTick, CancelExpiredReconcileOperations, CancelExpiredSessionRoutes,
         workerVars
<1>2. Sound(ui, {}) /\ Ticking(ui) /\ autoFix \in BOOLEAN
  BY <1>1 DEF UiInv, Handler, WorkTyped
<1>3. \A o \in OpIds, a \in Apps : <<o, a>> \in old => ui.gate[a] = o
  BY DEF InGate
<1>4. ops \in SUBSET OpIds  BY DEF Counted
<1>5. /\ Sound(cut, {} \cup old) /\ Winds(ui, cut)
      /\ \A o \in OpIds : Same(ui, cut, o)
  BY <1>2, UnrouteSound
<1>6. {} \cup old = old  OBVIOUS
<1>7. mid = RetireAsyncSessionOperation(cut, old) /\ end = Cancel(mid, ops)  OBVIOUS
<1> HIDE DEF cut, mid, ops, end
<1>8. \A o \in OpIds, a \in Apps : <<o, a>> \in old =>
            a \notin cut.matching[o] /\ a \in AppsOf[o]
  BY <1>2, <1>3, <1>5 DEF Same, Sound
<1>9. Sound(cut, old)  BY <1>5, <1>6
<1>10. /\ Sound(mid, {}) /\ Winds(cut, mid)
       /\ \A o \in OpIds : Waiting(cut, o) => Waiting(mid, o)
  BY <1>7, <1>8, <1>9, RetireAsyncSound
<1>11. /\ Sound(end, {}) /\ Winds(mid, end)
       /\ \A o \in ops : Over(end, o)
       /\ \A o \in OpIds \ ops : Same(mid, end, o)
  BY <1>4, <1>7, <1>10, CancelSound
<1>12. Winds(ui, end)  BY <1>5, <1>10, <1>11, WindsTwice
<1>13. /\ Sound(ui', {}) /\ Ticking(ui') /\ Less(ui, ui')
       /\ \A o \in OpIds : Same(end, ui', o)
  BY <1>1, <1>2, <1>11, <1>12, FinallyLess
<1>14. ASSUME NEW o \in OpIds  PROVE Waiting(ui', o)
  <2>1. Waiting(ui, o)
    BY <1>1 DEF UiInv, EveryoneWaits, AsksFor, Waiting, Handler, Idle
  <2>2. Waiting(mid, o)  BY <1>5, <1>10, <2>1 DEF Same, Waiting, Live, Outstanding
  <2>3. Waiting(end, o)
    BY <1>11, <2>2 DEF Same, Over, Waiting, Live, Outstanding
  <2> QED  BY <1>13, <2>3 DEF Same, Waiting, Live, Outstanding
<1> QED  BY <1>1, <1>2, <1>13, <1>14, QuietKeeps DEF Handler

LEMMA SwitchKeeps == ASSUME Inv, UiInv, ApplyAutoFix  PROVE UiInv'
<1>1. /\ Handler
      /\ UNCHANGED <<world, quit, pending, order, thread, stopping, stack, msgs>>
      /\ autoFix' \in BOOLEAN
  BY DEF ApplyAutoFix, workerVars
<1>2. Sound(ui, {}) /\ Ticking(ui)  BY <1>1 DEF UiInv, Handler
<1>3. \A o \in OpIds : Waiting(ui, o)
  BY <1>1 DEF UiInv, EveryoneWaits, AsksFor, Waiting, Handler, Idle
<1>4. CASE ui' = KillMonitorIfIdle(Cancel(ui, AutoOwned(ui)))
  <2> DEFINE end == Cancel(ui, AutoOwned(ui))
  <2>1. AutoOwned(ui) \in SUBSET OpIds  BY DEF AutoOwned
  <2>2. ui' = KillMonitorIfIdle(end)  BY <1>4
  <2>3. /\ Sound(end, {}) /\ Winds(ui, end)
        /\ \A o \in AutoOwned(ui) : Over(end, o)
        /\ \A o \in OpIds \ AutoOwned(ui) : Same(ui, end, o)
    BY <1>2, <2>1, CancelSound
  <2> HIDE DEF end
  <2>4. /\ Sound(ui', {}) /\ Ticking(ui') /\ Less(ui, ui')
        /\ \A o \in OpIds : Same(end, ui', o)
    BY <1>2, <2>2, <2>3, FinallyLess
  <2>5. \A o \in OpIds : Waiting(ui', o)
    BY <1>3, <2>3, <2>4 DEF Same, Over, Waiting, Live, Outstanding
  <2> QED  BY <1>1, <2>4, <2>5, QuietKeeps DEF Handler
<1>5. CASE ui' = [ui EXCEPT !.monitor = TRUE]
  <2>1. /\ Sound(ui', {}) /\ ui'.monitor
        /\ ui'.phase = ui.phase /\ ui'.session = ui.session /\ ui'.matching = ui.matching
        /\ ui'.mode = ui.mode /\ ui'.routes = ui.routes
    BY <1>2, <1>5, MonitorSound
  <2>2. Ticking(ui') /\ Less(ui, ui')  BY <2>1 DEF Ticking, Less, Waits
  <2>3. \A o \in OpIds : Waiting(ui', o)  BY <1>3, <2>1 DEF Waiting, Live, Outstanding
  <2> QED  BY <1>1, <2>1, <2>2, <2>3, QuietKeeps DEF Handler
<1> QED  BY <1>4, <1>5 DEF ApplyAutoFix

-----------------------------------------------------------------------------
(* The handlers of results. *)

LEMMA WaitsFor ==
    ASSUME NEW u, u \in UiStates, NEW q \in Requests
    PROVE  /\ <<"session", q>> \in Waits(u) => q.app \in u.session[q.op]
           /\ <<"reconcile", q>> \in Waits(u) =>
                q.app \in u.matching[q.op] /\ u.mode[q.op] = q.mode
<1>0. \A r :
        /\ <<"session", r>> \in Waits(u) <=>
             \E o \in OpIds : \E a \in u.session[o] : r = Request(o, a, "none")
        /\ <<"reconcile", r>> \in Waits(u) <=>
             \E o \in OpIds : \E a \in u.matching[o] : r = Request(o, a, u.mode[o])
        /\ \A w : <<w, r>> \in Waits(u) => w \in Workers /\ r \in Requests
  BY WaitsAre
<1>1. ASSUME <<"session", q>> \in Waits(u)  PROVE q.app \in u.session[q.op]
  <2>1. PICK o \in OpIds : \E a \in u.session[o] : q = Request(o, a, "none")
    BY <1>0, <1>1
  <2> QED  BY <2>1 DEF Request
<1>2. ASSUME <<"reconcile", q>> \in Waits(u)
      PROVE  q.app \in u.matching[q.op] /\ u.mode[q.op] = q.mode
  <2>1. PICK o \in OpIds : \E a \in u.matching[o] : q = Request(o, a, u.mode[o])
    BY <1>0, <1>2
  <2> QED  BY <2>1 DEF Request
<1> QED  BY <1>1, <1>2

\* A handler that takes a result nobody waits for any more, and asks nothing.
LEMMA ResultHandled ==
    ASSUME Inv, UiInv, Handler, msgs # <<>>, msgs' = Tail(msgs),
           UNCHANGED <<world, autoFix, quit, pending, order, thread, stopping, stack>>,
           NEW mid, Sound(mid, {}), Winds(ui, mid), ui' = Finally(mid),
           \A p \in OpIds : Waiting(mid, p),
           <<Head(msgs).worker, Head(msgs).req>> \notin Waits(mid)
    PROVE  UiInv'
<1>1. Sound(ui, {}) /\ Ticking(ui) /\ autoFix' \in BOOLEAN
  BY DEF UiInv, Handler, WorkTyped
<1>2. /\ Sound(ui', {}) /\ Ticking(ui') /\ Less(ui, ui') /\ Waits(ui') = Waits(mid)
      /\ \A o \in OpIds : Same(mid, ui', o)
  BY <1>1, FinallyLess
<1>3. \A o \in OpIds : Waiting(ui', o)
  BY <1>2 DEF Same, Waiting, Live, Outstanding
<1> QED  BY <1>1, <1>2, <1>3, QuietKeeps DEF Handler

\* What becomes of an operation whose session result is of no use.
LEMMA SessionGoesOn ==
    ASSUME NEW u, NEW o \in OpIds, NEW a \in AppsOf[o], Sound(u, {<<o, a>>}),
           a \notin u.matching[o], NEW status \in Statuses, NEW v,
           \/ v = WithoutSession(u, o, a, status)
           \/ v = Cancel(u, {o})
           \/ v = Settle(Leave(u, {<<o, a>>}), o)
    PROVE  GoesOn(u, v, o)
<1> DEFINE loose == {<<o, a>>}
<1>0. a \in Apps  BY PipelineAssumption
<1>1. \A p \in OpIds, b \in Apps : <<p, b>> \in loose => p = o  OBVIOUS
<1>2. CASE v = Cancel(u, {o})  BY <1>1, <1>2, CancelGoesOn
<1>3. CASE v = Settle(Leave(u, {<<o, a>>}), o)  BY <1>0, <1>3, LeaveGoesOn
<1>4. CASE v = Close(u, {o}) /\ KindOf[o] \in {"auto", "probe"}
  <2>1. \A b \in u.session[o] : b \in AppsOf[o]  BY DEF Sound, Outstanding
  <2>2. \A b \in u.session[o] : <<o, b>> \in loose  BY <1>4, <2>1, OneApp
  <2> QED  BY <1>1, <1>4, <2>2, CloseGoesOn
<1>5. CASE v = FinishManualSave(Gain(Leave(u, {<<o, a>>}), o, a, status), o)
  <2> DEFINE mid == Leave(u, loose)
             mine == Gain(mid, o, a, status)
  <2>1. v = FinishManualSave(mine, o) /\ status \in Had  BY <1>5 DEF Had
  <2>2. \A p \in OpIds, b \in Apps : <<p, b>> \in loose <=> p = o /\ b = a  OBVIOUS
  <2>3. Sound(u, loose)  OBVIOUS
  <2> HIDE DEF loose
  <2>4. \A p \in OpIds, b \in Apps : <<p, b>> \in loose =>
            b \notin u.matching[p] /\ (b \in u.session[p] => <<p, b>> \in loose)
    BY <2>2
  <2>5. /\ Sound(mid, loose) /\ Winds(u, mid)
        /\ \A p \in OpIds :
            /\ mid.phase[p] = u.phase[p] /\ mid.matching[p] = u.matching[p]
            /\ mid.session[p] = {b \in u.session[p] : <<p, b>> \notin loose}
    BY <2>3, <2>4, LeaveSound
  <2> HIDE DEF mid
  <2>6. Sound(mid, {})  BY <2>5, LooseOnly
  <2>7. Sound(mine, {}) /\ Winds(mid, mine) /\ \A p \in OpIds : Same(mid, mine, p)
    BY <1>0, <2>1, <2>6, GainGoesOn
  <2> HIDE DEF mine
  <2>8. GoesOn(mine, v, o)  BY <2>1, <2>7, FinishGoesOn
  <2>9. Winds(u, v)
    <3>1. Winds(u, mine)  BY <2>5, <2>7, WindsTwice
    <3> QED  BY <2>8, <3>1, WindsTwice DEF GoesOn
  <2>10. \A p \in OpIds \ {o} : mid.session[p] = u.session[p]
    <3>1. \A p \in OpIds : u.session[p] \subseteq Apps  BY <2>3 DEF Sound, UiStates
    <3> QED  BY <2>2, <2>5, <3>1
  <2> QED  BY <2>5, <2>7, <2>8, <2>9, <2>10 DEF GoesOn, Same
<1>6. CASE v = WithoutSession(u, o, a, status)
  <2>1. KindOf[o] \in Kinds  BY PipelineAssumption
  <2>2. \/ v = Cancel(u, {o}) \/ v = Settle(Leave(u, {<<o, a>>}), o)
        \/ v = Close(u, {o}) /\ KindOf[o] \in {"auto", "probe"}
        \/ v = FinishManualSave(Gain(Leave(u, {<<o, a>>}), o, a, status), o)
    BY <1>6, <2>1 DEF WithoutSession, Kinds
  <2> QED  BY <1>2, <1>3, <1>4, <1>5, <2>2
<1> QED  BY <1>2, <1>3, <1>6

\* An operation that is answered goes on, the others are not concerned.
LEMMA OneGoesOn ==
    ASSUME NEW u, NEW mid, NEW v, NEW o \in OpIds, Winds(u, mid),
           \A p \in OpIds \ {o} : Same(u, mid, p),
           \A p \in OpIds : Waiting(u, p), GoesOn(mid, v, o)
    PROVE  Sound(v, {}) /\ Winds(u, v) /\ \A p \in OpIds : Waiting(v, p)
<1>1. Winds(u, v) /\ Sound(v, {})  BY WindsTwice DEF GoesOn
<1>2. ASSUME NEW p \in OpIds  PROVE Waiting(v, p)
  <2>1. CASE p = o  BY <2>1 DEF GoesOn
  <2>2. CASE p # o
    BY <2>2 DEF GoesOn, Same, Waiting, Live, Outstanding
  <2> QED  BY <2>1, <2>2
<1> QED  BY <1>1, <1>2

-----------------------------------------------------------------------------
(* Asking a worker. *)

LEMMA ConcatIs ==
    ASSUME NEW s \in Seq(Frames), NEW t \in Seq(Frames)
    PROVE  /\ s \o t \in Seq(Frames) /\ Len(s \o t) = Len(s) + Len(t)
           /\ \A i \in DOMAIN (s \o t) :
                \/ i \in DOMAIN s /\ (s \o t)[i] = s[i]
                \/ \E j \in DOMAIN t : i = Len(s) + j /\ (s \o t)[i] = t[j]
           /\ \A i \in DOMAIN s : i \in DOMAIN (s \o t) /\ (s \o t)[i] = s[i]
           /\ \A j \in DOMAIN t : /\ Len(s) + j \in DOMAIN (s \o t)
                                  /\ (s \o t)[Len(s) + j] = t[j]
<1>1. s \o t \in Seq(Frames) /\ Len(s \o t) = Len(s) + Len(t)  OBVIOUS
<1>2. ASSUME NEW i \in DOMAIN (s \o t)
      PROVE  \/ i \in DOMAIN s /\ (s \o t)[i] = s[i]
             \/ \E j \in DOMAIN t : i = Len(s) + j /\ (s \o t)[i] = t[j]
  <2>1. CASE i <= Len(s)  BY <1>1, <2>1
  <2>2. CASE ~(i <= Len(s))
    <3>1. i - Len(s) \in DOMAIN t /\ i = Len(s) + (i - Len(s))
      BY <1>1, <2>2
    <3>2. (s \o t)[i] = t[i - Len(s)]  BY <1>1, <2>2
    <3> QED  BY <3>1, <3>2
  <2> QED  BY <2>1, <2>2
<1>3. \A i \in DOMAIN s : i \in DOMAIN (s \o t) /\ (s \o t)[i] = s[i]  OBVIOUS
<1>4. \A j \in DOMAIN t : /\ Len(s) + j \in DOMAIN (s \o t)
                          /\ (s \o t)[Len(s) + j] = t[j]
  OBVIOUS
<1> QED  BY <1>1, <1>2, <1>3, <1>4

LEMMA EnqueuedCalls ==
    ASSUME WorkersTyped, NEW w \in Workers, NEW req \in Requests,
           NEW rest \in Seq(Frames), EnqueueRequest(w, req, rest)
    PROVE  /\ \A i \in DOMAIN stack' :
                \/ stack'[i] = Notify(w)
                \/ stack'[i] = PostSuperseded(w, req) /\ Rejects(w, req)
                \/ /\ stack'[i] = PostSuperseded(w, Slot(w, req))
                   /\ ~Rejects(w, req) /\ Slot(w, req) \in Requests
                   /\ Slot(w, req) # NoRequest
                \/ \E j \in DOMAIN rest :
                        stack'[i] = rest[j] /\ (j = Len(rest) => i = Len(stack'))
           /\ \A j \in DOMAIN rest : \E i \in DOMAIN stack' : stack'[i] = rest[j]
           /\ Rejects(w, req) => \E i \in DOMAIN stack' : stack'[i] = PostSuperseded(w, req)
           /\ ~Rejects(w, req) /\ Slot(w, req) # NoRequest =>
                \E i \in DOMAIN stack' : stack'[i] = PostSuperseded(w, Slot(w, req))
           /\ \E i \in DOMAIN stack' : stack'[i].fn \in {"Notify", "PostSuperseded"}
<1> DEFINE top == Supersedes(w, req) \o Wakes(w, req)
<1>1. Slot(w, req) \in Slots  BY DEF WorkersTyped, Slot, Requests
<1>2. Slot(w, req) # NoRequest => Slot(w, req) \in Requests  BY <1>1 DEF Slots
<1>3. /\ PostSuperseded(w, req) \in Frames /\ Notify(w) \in Frames
      /\ Slot(w, req) # NoRequest => PostSuperseded(w, Slot(w, req)) \in Frames
  BY <1>2, CallsAreFrames
<1>4. \/ Rejects(w, req) /\ top = <<PostSuperseded(w, req)>>
      \/ ~Rejects(w, req) /\ Slot(w, req) = NoRequest /\ top = <<Notify(w)>>
      \/ /\ ~Rejects(w, req) /\ Slot(w, req) # NoRequest
         /\ DOMAIN top = {1, 2}
         /\ top[1] = PostSuperseded(w, Slot(w, req)) /\ top[2] = Notify(w)
  <2>1. CASE Rejects(w, req)
    <3>1. Supersedes(w, req) = <<PostSuperseded(w, req)>> /\ Wakes(w, req) = <<>>
      BY <2>1 DEF Supersedes, Wakes
    <3> QED  BY <1>3, <2>1, <3>1
  <2>2. CASE ~Rejects(w, req) /\ Slot(w, req) = NoRequest
    <3>1. Supersedes(w, req) = <<>> /\ Wakes(w, req) = <<Notify(w)>>
      BY <2>2 DEF Supersedes, Wakes
    <3> QED  BY <1>3, <2>2, <3>1
  <2>3. CASE ~Rejects(w, req) /\ Slot(w, req) # NoRequest
    <3>1. /\ Supersedes(w, req) = <<PostSuperseded(w, Slot(w, req))>>
          /\ Wakes(w, req) = <<Notify(w)>>
      BY <2>3 DEF Supersedes, Wakes
    <3>2. \A x \in Frames, y \in Frames :
            /\ DOMAIN (<<x>> \o <<y>>) = {1, 2}
            /\ (<<x>> \o <<y>>)[1] = x /\ (<<x>> \o <<y>>)[2] = y
      OBVIOUS
    <3> QED  BY <1>3, <2>3, <3>1, <3>2
  <2> QED  BY <2>1, <2>2, <2>3
<1>5. stack' = top \o rest
  <2>1. Supersedes(w, req) \in Seq(Frames) /\ Wakes(w, req) \in Seq(Frames)
    BY <1>3 DEF Supersedes, Wakes
  <2> QED  BY <2>1 DEF EnqueueRequest
<1>6. top \in Seq(Frames)
  <2>1. Supersedes(w, req) \in Seq(Frames) /\ Wakes(w, req) \in Seq(Frames)
    BY <1>3 DEF Supersedes, Wakes
  <2> QED  BY <2>1
<1> HIDE DEF top
<1>7. \A i \in DOMAIN top :
        \/ top[i] = Notify(w)
        \/ top[i] = PostSuperseded(w, req) /\ Rejects(w, req)
        \/ /\ top[i] = PostSuperseded(w, Slot(w, req)) /\ ~Rejects(w, req)
           /\ Slot(w, req) # NoRequest
  BY <1>4
<1>8. /\ 1 \in DOMAIN top
      /\ Rejects(w, req) => top[1] = PostSuperseded(w, req)
      /\ ~Rejects(w, req) /\ Slot(w, req) # NoRequest =>
                top[1] = PostSuperseded(w, Slot(w, req))
      /\ ~Rejects(w, req) /\ Slot(w, req) = NoRequest => top[1] = Notify(w)
  BY <1>4
<1>9. /\ Len(stack') = Len(top) + Len(rest)
      /\ \A i \in DOMAIN stack' :
            \/ i \in DOMAIN top /\ stack'[i] = top[i]
            \/ \E j \in DOMAIN rest : i = Len(top) + j /\ stack'[i] = rest[j]
      /\ \A i \in DOMAIN top : i \in DOMAIN stack' /\ stack'[i] = top[i]
      /\ \A j \in DOMAIN rest : /\ Len(top) + j \in DOMAIN stack'
                                /\ stack'[Len(top) + j] = rest[j]
  BY <1>5, <1>6, ConcatIs
<1>10. ASSUME NEW i \in DOMAIN stack'
       PROVE  \/ stack'[i] = Notify(w)
              \/ stack'[i] = PostSuperseded(w, req) /\ Rejects(w, req)
              \/ /\ stack'[i] = PostSuperseded(w, Slot(w, req))
                 /\ ~Rejects(w, req) /\ Slot(w, req) \in Requests
                 /\ Slot(w, req) # NoRequest
              \/ \E j \in DOMAIN rest :
                      stack'[i] = rest[j] /\ (j = Len(rest) => i = Len(stack'))
  <2>1. CASE i \in DOMAIN top /\ stack'[i] = top[i]  BY <1>2, <1>7, <2>1
  <2>2. ASSUME NEW j \in DOMAIN rest, i = Len(top) + j, stack'[i] = rest[j]
        PROVE  stack'[i] = rest[j] /\ (j = Len(rest) => i = Len(stack'))
    BY <1>9, <2>2
  <2> QED  BY <1>9, <2>1, <2>2
<1>11. stack'[1] = top[1] /\ 1 \in DOMAIN stack'  BY <1>8, <1>9
<1>12. stack'[1].fn \in {"Notify", "PostSuperseded"}
  BY <1>8, <1>11 DEF Notify, PostSuperseded
<1>13. \A j \in DOMAIN rest : \E i \in DOMAIN stack' : stack'[i] = rest[j]  BY <1>9
<1> QED  BY <1>8, <1>10, <1>11, <1>12, <1>13

LEMMA EnqueuedAt ==
    ASSUME WorkersTyped, UNCHANGED thread, NEW w \in Workers, NEW req \in Requests,
           NEW rest \in Seq(Frames), EnqueueRequest(w, req, rest)
    PROVE  /\ At(w, req)'
           /\ \A v \in Workers, r \in Requests :
                /\ At(v, r)
                /\ \A i \in DOMAIN stack : stack[i] = PostSuperseded(v, r) =>
                        \E j \in DOMAIN rest : rest[j] = stack[i]
                /\ \A i \in DOMAIN msgs : msgs[i].worker = v /\ msgs[i].req = r =>
                        \E j \in DOMAIN msgs' : msgs'[j] = msgs[i]
                => At(v, r)'
<1>1. /\ \A j \in DOMAIN rest : \E i \in DOMAIN stack' : stack'[i] = rest[j]
      /\ Rejects(w, req) => \E i \in DOMAIN stack' : stack'[i] = PostSuperseded(w, req)
      /\ ~Rejects(w, req) /\ Slot(w, req) # NoRequest =>
            \E i \in DOMAIN stack' : stack'[i] = PostSuperseded(w, Slot(w, req))
  BY EnqueuedCalls
<1>2. /\ Rejects(w, req) => pending' = pending
      /\ ~Rejects(w, req) =>
            /\ pending'[w][req.app] = req
            /\ \A v \in Workers, a \in Apps :
                    v # w \/ a # req.app => pending'[v][a] = pending[v][a]
  <2>1. pending[w] \in [Apps -> Slots] /\ req.app \in Apps
    BY DEF WorkersTyped, Requests
  <2> QED  BY <2>1 DEF EnqueueRequest, WorkersTyped
<1>3. At(w, req)'
  BY <1>1, <1>2 DEF At
<1>4. ASSUME NEW v \in Workers, NEW r \in Requests, At(v, r),
             \A i \in DOMAIN stack : stack[i] = PostSuperseded(v, r) =>
                        \E j \in DOMAIN rest : rest[j] = stack[i],
             \A i \in DOMAIN msgs : msgs[i].worker = v /\ msgs[i].req = r =>
                        \E j \in DOMAIN msgs' : msgs'[j] = msgs[i]
      PROVE  At(v, r)'
  <2>1. r.app \in Apps /\ r # NoRequest
    BY PipelineAssumption DEF Requests, NoRequest
  <2>2. CASE pending[v][r.app] = r
    <3>1. CASE v = w /\ r.app = req.app /\ ~Rejects(w, req)
      <4>1. Slot(w, req) = r  BY <2>2, <3>1 DEF Slot
      <4> QED  BY <1>1, <2>1, <3>1, <4>1 DEF At
    <3>2. CASE ~(v = w /\ r.app = req.app /\ ~Rejects(w, req))
      <4>1. pending'[v][r.app] = r  BY <1>2, <2>1, <2>2, <3>2
      <4> QED  BY <4>1 DEF At
    <3> QED  BY <3>1, <3>2
  <2>3. CASE thread[v].pc \in {"busy", "posting"} /\ thread[v].req = r
    BY <2>3 DEF At
  <2>4. CASE \E i \in DOMAIN msgs : msgs[i].worker = v /\ msgs[i].req = r
    BY <1>4, <2>4 DEF At
  <2>5. CASE \E i \in DOMAIN stack : stack[i] = PostSuperseded(v, r)
    BY <1>1, <1>4, <2>5 DEF At
  <2> QED  BY <1>4, <2>2, <2>3, <2>4, <2>5 DEF At
<1> QED  BY <1>3, <1>4

\* The session worker's queue, without an application.
LEMMA WithoutIs ==
    ASSUME order \in Seq(Apps), IsInjective(order), NEW a \in Apps,
           NEW line, line = Without(a)
    PROVE  /\ line \in Seq(Apps) /\ IsInjective(line)
           /\ ToSet(line) = ToSet(order) \ {a}
<1>1. CASE a \notin ToSet(order)
  BY <1>1 DEF Without
<1>2. CASE a \in ToSet(order)
  <2> DEFINE k == CHOOSE i \in DOMAIN order : order[i] = a
  <2>1. \E i \in DOMAIN order : order[i] = a  BY <1>2 DEF ToSet
  <2>2. k \in DOMAIN order /\ order[k] = a  BY <2>1
  <2>3. line = RemoveAt(order, k)  BY <1>2 DEF Without
  <2> HIDE DEF k
  <2> DEFINE n == Len(order)
  <2>4. k \in 1..n /\ n \in Nat /\ DOMAIN order = 1..n /\ n = Len(order)  BY <2>2
  <2>5. line = SubSeq(order, 1, k - 1) \o SubSeq(order, k + 1, n)
    BY <2>3 DEF RemoveAt
  <2> HIDE DEF n
  <2>6. /\ k - 1 \in 0..n /\ k + 1 \in 1..(n + 1) /\ k - 1 \in Nat /\ n - k \in Nat
    BY <2>4
  <2> DEFINE front == SubSeq(order, 1, k - 1)
             back == SubSeq(order, k + 1, n)
  <2>7. /\ front \in Seq(Apps) /\ Len(front) = k - 1
        /\ \A i \in 1..(k - 1) : front[i] = order[i]
    BY <2>4, <2>6
  <2>70. order \in Seq(Apps)  OBVIOUS
  <2>71. back \in Seq(Apps)  BY <2>4, <2>6
  <2>72. Len(back) = n - k
    <3>1. CASE k = n
      <4>1. back = <<>>  BY <2>4, <3>1
      <4> QED  BY <2>4, <3>1, <4>1
    <3>2. CASE k < n
      <4>1. n - (k + 1) + 1 = n - k /\ k + 1 <= n  BY <2>4, <3>2
      <4> QED  BY <2>4, <2>6, <4>1
    <3>3. k \in Nat /\ n \in Nat /\ k <= n  BY <2>4
    <3>4. k = n \/ k < n  BY <3>3, SMTT(20)
    <3> QED  BY <3>1, <3>2, <3>4
  <2>73. \A i \in 1..(n - k) : back[i] = order[k + i]  BY <2>4, <2>6
  <2>74. line = front \o back  BY <2>5
  <2> HIDE DEF front, back
  <2>75. line \in Seq(Apps) /\ Len(line) = n - 1
    <3>1. front \o back \in Seq(Apps)  BY <2>7, <2>71
    <3>2. Len(front \o back) = Len(front) + Len(back)  BY <2>7, <2>71
    <3>3. (k - 1) + (n - k) = n - 1  BY <2>4
    <3> QED  BY <2>7, <2>72, <2>74, <3>1, <3>2, <3>3
  <2>76. \A i \in 1..(n - 1) : line[i] = IF i < k THEN order[i] ELSE order[i + 1]
    <3> SUFFICES ASSUME NEW i \in 1..(n - 1)
                 PROVE  line[i] = IF i < k THEN order[i] ELSE order[i + 1]
      OBVIOUS
    <3>1. CASE i < k
      <4>1. i \in 1..(k - 1) /\ i \in 1..Len(front)  BY <2>4, <2>7, <3>1
      <4> QED  BY <2>7, <2>71, <2>74, <3>1, <4>1
    <3>2. CASE ~(i < k)
      <4>1. i - (k - 1) \in 1..(n - k) /\ k + (i - (k - 1)) = i + 1  BY <2>4, <3>2
      <4>2. line[i] = back[i - Len(front)]
        BY <2>4, <2>7, <2>71, <2>72, <2>74, <3>2
      <4> QED  BY <2>7, <2>73, <3>2, <4>1, <4>2
    <3> QED  BY <3>1, <3>2
  <2>8. /\ line \in Seq(Apps) /\ Len(line) = n - 1
        /\ \A i \in 1..(n - 1) : line[i] = IF i < k THEN order[i] ELSE order[i + 1]
    BY <2>75, <2>76
  <2>9. DOMAIN line = 1..(n - 1)  BY <2>4, <2>8
  <2>10. IsInjective(line)
    <3> SUFFICES ASSUME NEW i \in DOMAIN line, NEW j \in DOMAIN line, line[i] = line[j]
                 PROVE  i = j
      BY DEF IsInjective
    <3>1. \A x \in DOMAIN order, y \in DOMAIN order : order[x] = order[y] => x = y
      BY DEF IsInjective
    <3>2. /\ line[i] = IF i < k THEN order[i] ELSE order[i + 1]
          /\ line[j] = IF j < k THEN order[j] ELSE order[j + 1]
      BY <2>8, <2>9
    <3>3. /\ i \in DOMAIN order /\ i + 1 \in DOMAIN order
          /\ j \in DOMAIN order /\ j + 1 \in DOMAIN order
      BY <2>4, <2>9
    <3>4. CASE i < k /\ j < k  BY <3>1, <3>2, <3>3, <3>4
    <3>5. CASE i < k /\ ~(j < k)
      <4>1. i = j + 1  BY <3>1, <3>2, <3>3, <3>5
      <4> QED  BY <2>4, <2>9, <3>5, <4>1
    <3>6. CASE ~(i < k) /\ j < k
      <4>1. i + 1 = j  BY <3>1, <3>2, <3>3, <3>6
      <4> QED  BY <2>4, <2>9, <3>6, <4>1
    <3>7. CASE ~(i < k) /\ ~(j < k)
      <4>1. i + 1 = j + 1  BY <3>1, <3>2, <3>3, <3>7
      <4> QED  BY <2>4, <2>9, <4>1
    <3> QED  BY <3>4, <3>5, <3>6, <3>7
  <2>11. ASSUME NEW b \in ToSet(line)  PROVE b \in ToSet(order) /\ b # a
    <3>1. PICK i \in DOMAIN line : line[i] = b  BY DEF ToSet
    <3>2. PICK j \in DOMAIN order : j # k /\ order[j] = b
      <4>1. CASE i < k  BY <2>4, <2>8, <2>9, <3>1, <4>1
      <4>2. CASE ~(i < k)
        <5>1. i + 1 \in DOMAIN order /\ i + 1 # k /\ order[i + 1] = b
          BY <2>4, <2>8, <2>9, <3>1, <4>2
        <5> QED  BY <5>1
      <4> QED  BY <4>1, <4>2
    <3> QED  BY <2>2, <3>2 DEF ToSet, IsInjective
  <2>12. ASSUME NEW b \in ToSet(order), b # a  PROVE b \in ToSet(line)
    <3>1. PICK j \in DOMAIN order : order[j] = b  BY DEF ToSet
    <3>2. j # k  BY <2>2, <2>12, <3>1
    <3>3. \E i \in DOMAIN line : line[i] = b
      <4>1. CASE j < k
        <5>1. j \in DOMAIN line /\ line[j] = b  BY <2>4, <2>8, <2>9, <3>1, <4>1
        <5> QED  BY <5>1
      <4>2. CASE j > k
        <5>1. j - 1 \in DOMAIN line /\ line[j - 1] = b
          BY <2>4, <2>8, <2>9, <3>1, <4>2
        <5> QED  BY <5>1
      <4> QED  BY <2>4, <3>1, <3>2, <4>1, <4>2
    <3> QED  BY <3>3 DEF ToSet
  <2> QED  BY <2>8, <2>10, <2>11, <2>12
<1> QED  BY <1>1, <1>2

LEMMA EnqueuedWork ==
    ASSUME WorkersTyped, WorkTyped, Stopped, Running,
           UNCHANGED <<world, quit, thread, stopping>>, autoFix' \in BOOLEAN,
           NEW w \in Workers, NEW req \in Requests, NEW rest \in Seq(Frames),
           EnqueueRequest(w, req, rest)
    PROVE  /\ WorkTyped' /\ Stopped'
           /\ Rejects(w, req) => UNCHANGED pending
           /\ \A v \in Workers, a \in Apps :
                \/ pending'[v][a] = pending[v][a]
                \/ v = w /\ a = req.app /\ pending'[v][a] = req
<1>1. /\ pending[w] \in [Apps -> Slots] /\ req.app \in Apps /\ req # NoRequest
      /\ pending \in [Workers -> [Apps -> Slots]]
  BY PipelineAssumption DEF WorkersTyped, Requests, NoRequest
<1>2. \/ Rejects(w, req) /\ UNCHANGED <<pending, order>>
      \/ /\ ~Rejects(w, req)
         /\ pending' = [pending EXCEPT ![w][req.app] = req]
         /\ order' = IF w = "session" THEN Append(Without(req.app), req.app) ELSE order
  BY DEF EnqueueRequest
<1>3. Stopped'  BY DEF Stopped, Running
<1>4. CASE Rejects(w, req) /\ UNCHANGED <<pending, order>>
  <2>1. WorkTyped'  BY <1>4 DEF WorkTyped
  <2> QED  BY <1>3, <1>4, <2>1
<1>5. CASE /\ ~Rejects(w, req)
           /\ pending' = [pending EXCEPT ![w][req.app] = req]
           /\ order' = IF w = "session" THEN Append(Without(req.app), req.app) ELSE order
  <2>1. /\ pending'[w][req.app] = req
        /\ \A v \in Workers, a \in Apps :
                v # w \/ a # req.app => pending'[v][a] = pending[v][a]
    BY <1>1, <1>5
  <2>2. \A v \in Workers, a \in Apps : pending'[v][a] # NoRequest => pending'[v][a].app = a
    BY <2>1 DEF WorkTyped
  <2>3. /\ order' \in Seq(Apps) /\ IsInjective(order')
        /\ ToSet(order') = {a \in Apps : pending'["session"][a] # NoRequest}
    <3>1. CASE w # "session"
      <4>1. "session" \in Workers  BY DEF Workers
      <4>2. order' = order /\ \A a \in Apps : pending'["session"][a] = pending["session"][a]
        BY <1>5, <2>1, <3>1, <4>1
      <4> QED  BY <4>2 DEF WorkTyped
    <3>2. CASE w = "session"
      <4> DEFINE line == Without(req.app)
      <4>1. order \in Seq(Apps) /\ IsInjective(order)
            /\ ToSet(order) = {a \in Apps : pending["session"][a] # NoRequest}
        BY DEF WorkTyped
      <4>2. /\ line \in Seq(Apps) /\ IsInjective(line)
            /\ ToSet(line) = ToSet(order) \ {req.app}
        BY <1>1, <4>1, WithoutIs
      <4>3. order' = Append(line, req.app)  BY <1>5, <3>2
      <4> HIDE DEF line
      <4>4. /\ order' \in Seq(Apps) /\ DOMAIN order' = 1..(Len(line) + 1)
            /\ Len(line) \in Nat /\ DOMAIN line = 1..Len(line)
            /\ \A i \in DOMAIN line : order'[i] = line[i]
            /\ order'[Len(line) + 1] = req.app
        BY <1>1, <4>2, <4>3
      <4>5. \A i \in DOMAIN order' : i \in DOMAIN line \/ i = Len(line) + 1  BY <4>4
      <4>6. ToSet(order') = ToSet(line) \cup {req.app}
        BY <4>4, <4>5 DEF ToSet
      <4>7. req.app \notin ToSet(line)  BY <4>2
      <4>8. \A i \in DOMAIN line : line[i] # req.app  BY <4>7 DEF ToSet
      <4>9. IsInjective(order')
        BY <4>2, <4>4, <4>5, <4>8 DEF IsInjective
      <4>10. \A a \in Apps : pending'["session"][a] # NoRequest <=>
                    a = req.app \/ pending["session"][a] # NoRequest
        BY <1>1, <2>1, <3>2
      <4>11. ToSet(order') = ToSet(order) \cup {req.app}  BY <4>2, <4>6
      <4> QED  BY <1>1, <4>1, <4>4, <4>9, <4>10, <4>11
    <3> QED  BY <3>1, <3>2
  <2>4. WorkTyped'  BY <2>2, <2>3 DEF WorkTyped
  <2> QED  BY <1>3, <1>5, <2>1, <2>4
<1> QED  BY <1>2, <1>4, <1>5

\* A handled result is off the queue, and the others are still on it.
LEMMA TailOf ==
    ASSUME WorkersTyped, msgs # <<>>, msgs' = Tail(msgs)
    PROVE  /\ Head(msgs) \in Results
           /\ \A i \in DOMAIN msgs' : \E j \in DOMAIN msgs : msgs'[i] = msgs[j]
           /\ \A j \in DOMAIN msgs : \/ msgs[j] = Head(msgs)
                                    \/ \E i \in DOMAIN msgs' : msgs'[i] = msgs[j]
<1>1. msgs \in Seq(Results)  BY DEF WorkersTyped
<1>2. \A i \in DOMAIN msgs' : i + 1 \in DOMAIN msgs /\ msgs'[i] = msgs[i + 1]
  BY <1>1
<1>3. \A j \in DOMAIN msgs : j = 1 \/ (j - 1 \in DOMAIN msgs' /\ msgs'[j - 1] = msgs[j])
  BY <1>1
<1>4. Head(msgs) = msgs[1] /\ Head(msgs) \in Results  BY <1>1
<1> QED  BY <1>2, <1>3, <1>4

\* What begins to be waited for when a matching is asked for.
LEMMA MatchWaits ==
    ASSUME NEW u, NEW v, u \in UiStates, v \in UiStates, NEW o \in OpIds, NEW a \in Apps,
           NEW mode, v.mode[o] = mode, u.matching[o] # {} => u.mode[o] = mode,
           v.session[o] \subseteq u.session[o], v.matching[o] = u.matching[o] \cup {a},
           \A p \in OpIds \ {o} : Same(u, v, p) /\ v.mode[p] = u.mode[p]
    PROVE  Waits(v) \subseteq Waits(u) \cup {<<"reconcile", Request(o, a, mode)>>}
<1>0. \A q :
        /\ <<"session", q>> \in Waits(v) <=>
             \E p \in OpIds : \E b \in v.session[p] : q = Request(p, b, "none")
        /\ <<"reconcile", q>> \in Waits(v) <=>
             \E p \in OpIds : \E b \in v.matching[p] : q = Request(p, b, v.mode[p])
        /\ \A w : <<w, q>> \in Waits(v) => w \in Workers /\ q \in Requests
  BY WaitsAre
<1>1. ASSUME NEW x \in Waits(v), x # <<"reconcile", Request(o, a, mode)>>
      PROVE  x \in Waits(u)
  <2>1. PICK q : x = <<"session", q>> \/ x = <<"reconcile", q>>  BY DEF Waits
  <2>2. CASE x = <<"session", q>>
    <3>1. PICK p \in OpIds : \E b \in v.session[p] : q = Request(p, b, "none")
      BY <1>0, <2>2
    <3>2. \E b \in u.session[p] : q = Request(p, b, "none")  BY <3>1 DEF Same
    <3> QED  BY <2>2, <3>2, WaitsAre
  <2>3. CASE x = <<"reconcile", q>>
    <3>1. PICK p \in OpIds : \E b \in v.matching[p] : q = Request(p, b, v.mode[p])
      BY <1>0, <2>3
    <3>2. PICK b \in v.matching[p] : q = Request(p, b, v.mode[p])  BY <3>1
    <3>3. b \in u.matching[p] /\ u.mode[p] = v.mode[p]
      <4>1. CASE p = o
        <5>1. b # a  BY <1>1, <2>3, <3>2, <4>1
        <5> QED  BY <3>2, <4>1, <5>1
      <4>2. CASE p # o  BY <3>2, <4>2 DEF Same
      <4> QED  BY <4>1, <4>2
    <3>4. \E c \in u.matching[p] : q = Request(p, c, u.mode[p])  BY <3>2, <3>3
    <3> QED  BY <2>3, <3>4, WaitsAre
  <2> QED  BY <2>1, <2>2, <2>3
<1> QED  BY <1>1

\* A handler that has taken the result (o, a), and asks for a matching or is
\* refused it.
LEMMA MatchingAsked ==
    ASSUME Inv, UiInv, Handler, msgs # <<>>, msgs' = Tail(msgs),
           UNCHANGED <<world, autoFix, quit, thread, stopping>>,
           NEW u, NEW o \in OpIds, NEW a \in AppsOf[o],
           Sound(u, {<<o, a>>}), Winds(ui, u), \A p \in OpIds \ {o} : Same(ui, u, p),
           a \notin u.matching[o], Live(u, o), u.gate[a] # o,
           NEW mode \in Modes, KindOf[o] # "auto" => mode = ModeOf(o),
           u.matching[o] # {} => u.mode[o] = mode,
           Head(msgs).req.op = o, Head(msgs).req.app = a,
           Head(msgs).worker = "session" \/ (Head(msgs).worker = "reconcile" /\
                                             Head(msgs).req.mode # mode),
           RequestReconcileWork(u, o, a, mode)
    PROVE  UiInv'
<1>1. /\ WorkersTyped /\ Sound(ui, {}) /\ Ticking(ui) /\ stack = <<>> /\ Running /\ Idle
      /\ quit = "running" /\ a \in Apps /\ autoFix' \in BOOLEAN
      /\ u \in UiStates /\ ui \in UiStates
  BY PipelineAssumption DEF UiInv, Handler, Idle, Inv, Running, Sound, WorkTyped
<1>2. \A p \in OpIds : Waiting(ui, p)
  BY <1>1 DEF UiInv, EveryoneWaits, AsksFor, Waiting
<1>3. Head(msgs) \in Results /\ Head(msgs).req \in Requests
  BY <1>1, TailOf DEF Results
<1>4. ASSUME NEW v \in UiStates, a \notin v.session[o],
             a \notin v.matching[o] \/ v.mode[o] = mode
      PROVE  <<Head(msgs).worker, Head(msgs).req>> \notin Waits(v)
  BY <1>3, <1>4, WaitsFor
<1>5. CASE ui' = Finally(MatchRefused(u, o, a)) /\ UNCHANGED <<pending, order, stack>>
  <2> DEFINE end == MatchRefused(u, o, a)
  <2>1. end = Cancel(u, {o}) \/ end = Settle(Leave(u, {<<o, a>>}), o)
    BY DEF MatchRefused
  <2>2. ui' = Finally(end)  BY <1>5
  <2> HIDE DEF end
  <2>3. GoesOn(u, end, o)
    <3>1. "Fresh" \in Statuses  BY DEF Statuses, Outcomes
    <3> QED  BY <2>1, <3>1, SessionGoesOn
  <2>4. Sound(end, {}) /\ Winds(ui, end) /\ \A p \in OpIds : Waiting(end, p)
    BY <1>2, <2>3, OneGoesOn
  <2>5. end.gate[a] # o /\ end.matching[o] \subseteq u.matching[o] /\ end \in UiStates
    <3>1. o # NoOp  BY PipelineAssumption
    <3> QED  BY <1>1, <2>3, <3>1 DEF GoesOn, Winds, Sound
  <2>51. Routed(end)  BY <2>4, SoundHere
  <2>6. a \notin end.session[o] /\ a \notin end.matching[o]
    <3>1. a \in end.session[o] => end.gate[a] = o  BY <1>1, <2>51 DEF Routed
    <3> QED  BY <2>5, <3>1
  <2>7. <<Head(msgs).worker, Head(msgs).req>> \notin Waits(end)  BY <1>4, <2>5, <2>6
  <2> QED  BY <1>5, <2>2, <2>4, <2>7, ResultHandled
<1>6. CASE /\ ui' = [BeginDeadline(u, o) EXCEPT
                        !.session[o] = @ \ {a}, !.matching[o] = @ \cup {a},
                        !.mode[o] = mode, !.monitor = TRUE]
           /\ EnqueueRequest("reconcile", Request(o, a, mode), <<>>)
  <2> DEFINE req == Request(o, a, mode)
             loose == {<<o, a>>}
  <2>1. \A p \in OpIds, b \in Apps :
            b \in u.session[p] /\ <<p, b>> \in loose => p = o /\ b = a
    OBVIOUS
  <2>2. <<o, a>> \in loose  OBVIOUS
  <2>3. <<o, a>> \notin u.routes  BY <1>1, <2>2 DEF Sound
  <2>4. req \in Requests /\ req.app = a /\ "reconcile" \in Workers /\ <<>> \in Seq(Frames)
    BY <1>1 DEF Request, Requests, Workers
  <2>5. EnqueueRequest("reconcile", req, <<>>) /\ Sound(u, loose)  BY <1>6
  <2>6. /\ Sound(ui', {}) /\ ui'.monitor /\ Waiting(ui', o)
        /\ ui'.session[o] = u.session[o] \ {a} /\ ui'.matching[o] = u.matching[o] \cup {a}
        /\ ui'.mode[o] = mode
        /\ \A p \in OpIds \ {o} : Same(u, ui', p) /\ ui'.mode[p] = u.mode[p]
        /\ ui'.phase = u.phase /\ ui'.gate = u.gate /\ ui'.routes = u.routes
    <3> HIDE DEF loose, req
    <3>1. ui' = Matches(u, o, a, mode)  BY <1>6 DEF Matches
    <3>2. Sound(u, loose)  BY <2>5
    <3> QED  BY <2>1, <2>3, <3>1, <3>2, MatchBegins
  <2> HIDE DEF loose, req
  <2>7. ui' \in UiStates  BY <2>6 DEF Sound
  <2>8. Waits(ui') \subseteq Waits(ui) \cup {<<"reconcile", req>>}
    <3>1. Waits(ui') \subseteq Waits(u) \cup {<<"reconcile", req>>}
      BY <1>1, <2>6, <2>7, MatchWaits DEF req
    <3>2. Waits(u) \subseteq Waits(ui)  BY <1>1, WindsLess DEF Less
    <3> QED  BY <3>1, <3>2
  <2>9. <<Head(msgs).worker, Head(msgs).req>> \notin Waits(ui')
    BY <1>4, <2>6, <2>7
  <2>10. \A i \in DOMAIN stack' :
            \/ stack'[i] = Notify("reconcile")
            \/ stack'[i] = PostSuperseded("reconcile", req)
            \/ stack'[i] = PostSuperseded("reconcile", Slot("reconcile", req))
    <3>1. \A i \in DOMAIN stack' :
            \/ stack'[i] = Notify("reconcile")
            \/ stack'[i] = PostSuperseded("reconcile", req) /\ Rejects("reconcile", req)
            \/ /\ stack'[i] = PostSuperseded("reconcile", Slot("reconcile", req))
               /\ ~Rejects("reconcile", req) /\ Slot("reconcile", req) \in Requests
               /\ Slot("reconcile", req) # NoRequest
            \/ \E j \in DOMAIN <<>> :
                    stack'[i] = <<>>[j] /\ (j = Len(<<>>) => i = Len(stack'))
      BY <1>1, <2>4, <2>5, EnqueuedCalls
    <3>2. \A j \in DOMAIN <<>> : FALSE  OBVIOUS
    <3> QED  BY <3>1, <3>2
  <2>11. \A i \in DOMAIN stack' :
            /\ stack'[i].fn \in {"PostSuperseded", "Notify"}
            /\ \A r : stack'[i] # PostSuperseded("session", r)
    <3> SUFFICES ASSUME NEW i \in DOMAIN stack'
                 PROVE  /\ stack'[i].fn \in {"PostSuperseded", "Notify"}
                        /\ \A r : stack'[i] # PostSuperseded("session", r)
      OBVIOUS
    <3> QED  BY <2>10 DEF Notify, PostSuperseded
  <2>12. EveryoneWaits'
    <3>1. ASSUME NEW p \in OpIds  PROVE Waiting(ui', p)
      <4>1. CASE p = o  BY <2>6, <4>1
      <4>2. CASE p # o
        <5>1. Same(ui, u, p) /\ Same(u, ui', p)  BY <2>6, <4>2
        <5> QED  BY <1>2, <5>1 DEF Same, Waiting, Live, Outstanding
      <4> QED  BY <4>1, <4>2
    <3> QED  BY <3>1 DEF EveryoneWaits, Waiting
  <2>13. CallsFit'  BY <1>1, <2>11 DEF CallsFit, Running
  <2>14. Unasked' \subseteq Unasked  BY <2>6, <2>11 DEF Unasked, Winds, Pairs
  <2>15. /\ WorkTyped' /\ Stopped'
         /\ \A v \in Workers, b \in Apps :
                \/ pending'[v][b] = pending[v][b]
                \/ v = "reconcile" /\ b = req.app /\ pending'[v][b] = req
    BY <1>1, <2>4, <2>5, EnqueuedWork DEF UiInv
  <2>16. /\ \A i \in DOMAIN msgs' : \E j \in DOMAIN msgs : msgs'[i] = msgs[j]
         /\ \A j \in DOMAIN msgs : \/ msgs[j] = Head(msgs)
                                  \/ \E i \in DOMAIN msgs' : msgs'[i] = msgs[j]
    BY <1>1, TailOf
  <2>17. Served'
    <3>1. \A r : Superseded(r)' => Superseded(r)
      BY <2>11, <2>16 DEF Superseded
    <3>2. ui'.routes \subseteq ui.routes  BY <2>6 DEF Winds
    <3>3. \A b \in Apps : pending'["session"][b] = pending["session"][b]
      BY <2>15 DEF Workers
    <3> QED  BY <2>14, <3>1, <3>2, <3>3 DEF UiInv, Served
  <2>18. Lossless'
    <3> SUFFICES ASSUME Faults = {}, NEW x \in Waits(ui')  PROVE At(x[1], x[2])'
      BY DEF Lossless
    <3>1. /\ At("reconcile", req)'
          /\ \A v \in Workers, r \in Requests :
                /\ At(v, r)
                /\ \A i \in DOMAIN stack : stack[i] = PostSuperseded(v, r) =>
                        \E j \in DOMAIN <<>> : <<>>[j] = stack[i]
                /\ \A i \in DOMAIN msgs : msgs[i].worker = v /\ msgs[i].req = r =>
                        \E j \in DOMAIN msgs' : msgs'[j] = msgs[i]
                => At(v, r)'
      BY <1>1, <2>4, <2>5, EnqueuedAt
    <3>2. x = <<x[1], x[2]>>  BY DEF Waits
    <3>3. CASE x = <<"reconcile", req>>
      <4>1. x[1] = "reconcile" /\ x[2] = req  BY <3>3
      <4> QED  BY <3>1, <4>1 DEF At
    <3>4. CASE x \in Waits(ui)
      <4>1. At(x[1], x[2])  BY <1>1, <3>4 DEF UiInv, Lossless
      <4>2. x[1] \in Workers /\ x[2] \in Requests  BY <1>1, <3>4, WaitsTyped
      <4>3. \A i \in DOMAIN msgs : msgs[i].worker = x[1] /\ msgs[i].req = x[2] =>
                        \E j \in DOMAIN msgs' : msgs'[j] = msgs[i]
        BY <2>9, <2>16, <3>2
      <4>4. \A i \in DOMAIN stack : FALSE  BY <1>1
      <4>5. At(x[1], x[2])'  BY <3>1, <4>1, <4>2, <4>3, <4>4
      <4> QED  BY <4>5
    <3> QED  BY <2>8, <3>3, <3>4
  <2> QED
    BY <2>6, <2>12, <2>13, <2>15, <2>17, <2>18 DEF UiInv, Ticking
<1> QED  BY <1>5, <1>6 DEF RequestReconcileWork

LEMMA RouteDropped ==
    ASSUME NEW u, Sound(u, {}), NEW o \in OpIds, NEW a \in Apps, <<o, a>> \in u.routes,
           NEW v, v = [u EXCEPT !.routes = @ \ {<<o, a>>}]
    PROVE  /\ Sound(v, {<<o, a>>}) /\ Winds(u, v)
           /\ \A p \in OpIds : Same(u, v, p)
<1> DEFINE loose == {<<o, a>>}
<1>1. u \in UiStates  BY DEF Sound
<1>2. u.routes \ loose \in SUBSET Pairs  BY <1>1 DEF UiStates
<1>3. v = [u EXCEPT !.routes = u.routes \ loose]  OBVIOUS
<1>4. \A p \in OpIds, b \in Apps : <<p, b>> \in loose <=> p = o /\ b = a  OBVIOUS
<1> HIDE DEF loose
<1>5. /\ v \in UiStates /\ v.routes = u.routes \ loose
      /\ v.phase = u.phase /\ v.session = u.session /\ v.matching = u.matching
      /\ v.mode = u.mode /\ v.gate = u.gate /\ v.due = u.due /\ v.monitor = u.monitor
  BY <1>1, <1>2, <1>3 DEF UiStates
<1>6. Winds(u, v) /\ \A p \in OpIds : Same(u, v, p)  BY <1>5 DEF Winds, Same
<1>7. Routed(u) /\ Numbered(u)  BY SoundHere
<1>8. ASSUME NEW p \in OpIds, NEW b \in Apps
      PROVE  /\ <<p, b>> \in v.routes <=> b \in v.session[p] /\ <<p, b>> \notin loose
             /\ b \in v.session[p] /\ <<p, b>> \notin loose => v.gate[b] = p
             /\ v.gate[b] = p => b \in AppsOf[p] /\ b \notin v.matching[p]
             /\ b \in v.session[p] => b \notin v.matching[p]
  BY <1>5, <1>7 DEF Routed
<1>9. ASSUME NEW p \in OpIds
      PROVE  /\ v.due[p] = Cardinality(v.matching[p])
             /\ Outstanding(v, p) \subseteq AppsOf[p]
             /\ ~Live(v, p) => Outstanding(v, p) = {}
             /\ v.phase[p] = "new" => \A b \in Apps : v.gate[b] # p
             /\ KindOf[p] # "auto" /\ v.matching[p] # {} => v.mode[p] = ModeOf(p)
  BY <1>5, <1>7 DEF Numbered, Outstanding, Live
<1>10. Sound(v, loose)  BY <1>5, <1>8, <1>9 DEF Sound
<1> QED  BY <1>6, <1>10 DEF loose

LEMMA SessionResultKeeps == ASSUME Inv, UiInv, HandleSessionResult  PROVE UiInv'
<1> DEFINE o == Head(msgs).req.op
           a == Head(msgs).req.app
           loose == {<<o, a>>}
<1>1. /\ Handler /\ msgs # <<>> /\ Head(msgs).worker = "session" /\ msgs' = Tail(msgs)
      /\ UNCHANGED <<world, autoFix, quit, thread, stopping>>
  BY DEF HandleSessionResult
<1>2. /\ Sound(ui, {}) /\ ui \in UiStates /\ Routed(ui) /\ Numbered(ui)
      /\ WorkersTyped /\ world \in [Apps -> Snapshots]
  BY SoundHere DEF UiInv, Inv, WorkTyped
<1>3. Head(msgs).req \in Requests /\ o \in OpIds /\ a \in Apps
  BY <1>1, <1>2, TailOf DEF Results, Requests
<1>4. \A p \in OpIds : Waiting(ui, p)
  BY <1>1 DEF UiInv, EveryoneWaits, AsksFor, Waiting, Handler, Idle
<1>5. \A v \in UiStates : a \notin v.session[o] =>
            <<Head(msgs).worker, Head(msgs).req>> \notin Waits(v)
  BY <1>1, <1>3, WaitsFor
<1>6. \A p \in OpIds, b \in Apps : <<p, b>> \in loose <=> p = o /\ b = a
  OBVIOUS
<1>61. <<o, a>> \in loose /\ loose = {<<o, a>>} /\ {} \cup loose = loose  OBVIOUS
<1>7. CASE /\ <<o, a>> \notin ui.routes
           /\ ui' = Finally(ui) /\ UNCHANGED <<pending, order, stack>>
  <2>1. a \notin ui.session[o]  BY <1>2, <1>3, <1>7 DEF Routed
  <2>2. Winds(ui, ui)  BY DEF Winds
  <2>3. <<Head(msgs).worker, Head(msgs).req>> \notin Waits(ui)
    BY <1>2, <1>5, <2>1
  <2> QED  BY <1>1, <1>2, <1>4, <1>7, <2>2, <2>3, ResultHandled
<1>8. CASE /\ <<o, a>> \in ui.routes
           /\ ui' = Finally(RetireAsyncSessionOperation(
                         [ui EXCEPT !.routes = @ \ {<<o, a>>}], {<<o, a>>}))
           /\ UNCHANGED <<pending, order, stack>>
  <2> DEFINE u == [ui EXCEPT !.routes = @ \ {<<o, a>>}]
             end == RetireAsyncSessionOperation(u, loose)
  <2>1. ui' = Finally(end) /\ end = RetireAsyncSessionOperation(u, loose)  BY <1>8
  <2>2. a \in AppsOf[o] /\ a \notin ui.matching[o]
    <3>1. a \in ui.session[o]  BY <1>2, <1>3, <1>8 DEF Routed
    <3> QED  BY <1>2, <1>3, <3>1 DEF Routed
  <2>3. Sound(u, loose) /\ Winds(ui, u) /\ \A p \in OpIds : Same(ui, u, p)
    BY <1>2, <1>3, <1>8, RouteDropped
  <2> HIDE DEF o, a, loose, u, end
  <2>4. \A p \in OpIds, b \in Apps : <<p, b>> \in loose =>
            b \notin u.matching[p] /\ b \in AppsOf[p]
    BY <1>6, <2>2, <2>3 DEF Same
  <2>5. /\ Sound(end, {}) /\ Winds(u, end)
        /\ \A p \in OpIds : Waiting(u, p) => Waiting(end, p)
        /\ \A p \in OpIds, b \in Apps : <<p, b>> \in loose => b \notin end.session[p]
    BY <2>1, <2>3, <2>4, RetireAsyncSound
  <2>6. Winds(ui, end)  BY <2>3, <2>5, WindsTwice
  <2>7. \A p \in OpIds : Waiting(end, p)
    BY <1>4, <2>3, <2>5 DEF Same, Waiting, Live, Outstanding
  <2>8. a \notin end.session[o]  BY <1>3, <1>61, <2>5
  <2>9. <<Head(msgs).worker, Head(msgs).req>> \notin Waits(end)
    BY <1>5, <2>5, <2>8 DEF Sound
  <2> QED  BY <1>1, <1>8, <2>1, <2>5, <2>6, <2>7, <2>9, ResultHandled
<1>9. CASE /\ <<o, a>> \in ui.routes /\ ui.gate[a] = o
           /\ SessionResult(Unroute(ui, {<<o, a>>}), o, a, Head(msgs).status)
  <2> DEFINE u == Unroute(ui, loose)
             status == Head(msgs).status
  <2>1. SessionResult(u, o, a, status) /\ ui.gate[a] = o  BY <1>9
  <2>0. status \in Statuses
    <3>1. Head(msgs) \in Results  BY <1>1, <1>2, TailOf
    <3> QED  BY <3>1 DEF Results
  <2>2. a \in ui.session[o]  BY <1>2, <1>3, <1>9 DEF Routed
  <2> HIDE DEF loose
  <2>3. /\ Sound(u, {} \cup loose) /\ Winds(ui, u) /\ \A p \in OpIds : Same(ui, u, p)
        /\ \A b \in Apps : u.gate[b] = IF <<ui.gate[b], b>> \in loose
                                      THEN NoOp ELSE ui.gate[b]
    BY <1>2, UnrouteSound
  <2> HIDE DEF u, status, o, a
  <2>4. a \in AppsOf[o] /\ a \notin u.matching[o] /\ Live(u, o) /\ u.gate[a] # o
    <3>1. a \in AppsOf[o] /\ a \notin ui.matching[o]
      BY <1>2, <1>3, <2>2 DEF Routed
    <3>2. Live(ui, o)  BY <1>2, <1>3, <2>2 DEF Numbered, Outstanding
    <3>3. u.gate[a] = NoOp /\ o # NoOp
      BY <1>3, <1>61, <2>1, <2>3, PipelineAssumption
    <3> QED  BY <1>3, <2>3, <3>1, <3>2, <3>3 DEF Same, Live
  <2>5. Sound(u, {<<o, a>>}) /\ u \in UiStates  BY <1>61, <2>3 DEF Sound
  <2>6. ASSUME NEW end, GoesOn(u, end, o), ui' = Finally(end),
               UNCHANGED <<pending, order, stack>>
        PROVE  UiInv'
    <3>1. Sound(end, {}) /\ Winds(ui, end) /\ \A p \in OpIds : Waiting(end, p)
      BY <1>3, <1>4, <2>3, <2>6, OneGoesOn
    <3>2. end.gate[a] # o /\ end \in UiStates
      <4>1. end.gate[a] = u.gate[a] \/ end.gate[a] = NoOp
        BY <1>3, <2>6 DEF GoesOn, Winds
      <4>2. o # NoOp  BY <1>3, PipelineAssumption
      <4> QED  BY <2>4, <3>1, <4>1, <4>2 DEF Sound
    <3>3. Routed(end)  BY <3>1, SoundHere
    <3>4. a \notin end.session[o]  BY <1>3, <3>2, <3>3 DEF Routed
    <3>5. <<Head(msgs).worker, Head(msgs).req>> \notin Waits(end)  BY <1>5, <3>2, <3>4
    <3> QED  BY <1>1, <2>6, <3>1, <3>5, ResultHandled
  <2>7. CASE Acceptable(u, o, a, status)
             /\ RequestReconcileWork(Recaptured(u, o, a), o, a, ModeOf(o))
    <3> DEFINE v == Recaptured(u, o, a)
    <3>1. /\ Sound(v, {<<o, a>>})
          /\ v.phase = u.phase /\ v.session = u.session /\ v.matching = u.matching
          /\ v.mode = u.mode /\ v.gate = u.gate /\ v.routes = u.routes
          /\ v.due = u.due /\ v.monitor = u.monitor
      BY <1>2, <1>3, <2>5, RecapturedSound
    <3> HIDE DEF v
    <3>2. Winds(ui, v) /\ \A p \in OpIds \ {o} : Same(ui, v, p)
      BY <2>3, <3>1 DEF Winds, Same
    <3>3. a \notin v.matching[o] /\ Live(v, o) /\ v.gate[a] # o
      BY <2>4, <3>1 DEF Live
    <3>4. v.matching[o] # {} => v.mode[o] = ModeOf(o)
      <4>1. CASE KindOf[o] = "auto"
        <5>1. v.matching[o] \subseteq AppsOf[o]  BY <1>3, <3>1 DEF Sound, Outstanding
        <5>2. \A b \in v.matching[o] : b = a  BY <1>3, <2>4, <4>1, <5>1, OneApp
        <5> QED  BY <3>3, <5>2
      <4>2. CASE KindOf[o] # "auto"  BY <1>3, <3>1, <4>2 DEF Sound
      <4> QED  BY <4>1, <4>2
    <3>5. ModeOf(o) \in Modes  BY DEF ModeOf, Modes
    <3>6. RequestReconcileWork(v, o, a, ModeOf(o))  BY <2>7 DEF v
    <3>7. Head(msgs).req.op = o /\ Head(msgs).req.app = a  BY DEF o, a
    <3>8. o \in OpIds /\ a \in AppsOf[o]  BY <1>3, <2>4
    <3> QED
      BY <1>1, <3>1, <3>2, <3>3, <3>4, <3>5, <3>6, <3>7, <3>8, MatchingAsked
  <2>8. ASSUME NEW end,
               \/ end = WithoutSession(u, o, a, status)
               \/ end = Cancel(u, {o})
               \/ end = Settle(Leave(u, {<<o, a>>}), o)
        PROVE  GoesOn(u, end, o)
    BY <1>3, <2>0, <2>4, <2>5, <2>8, SessionGoesOn
  <2>9. CASE /\ ui' = Finally(WithoutSession(u, o, a, status))
             /\ UNCHANGED <<pending, order, stack>>
    BY <2>6, <2>8, <2>9
  <2>10. CASE ui' = Finally(Cancel(u, {o})) /\ UNCHANGED <<pending, order, stack>>
    BY <2>6, <2>8, <2>10
  <2>11. CASE /\ ui' = Finally(Settle(Leave(u, {<<o, a>>}), o))
              /\ UNCHANGED <<pending, order, stack>>
    BY <2>6, <2>8, <2>11
  <2> QED  BY <2>1, <2>4, <2>7, <2>9, <2>10, <2>11 DEF SessionResult
<1> QED  BY <1>7, <1>8, <1>9 DEF HandleSessionResult

LEMMA ReconcileResultKeeps == ASSUME Inv, UiInv, HandleReconcileResult  PROVE UiInv'
<1> DEFINE o == Head(msgs).req.op
           a == Head(msgs).req.app
           mode == Head(msgs).req.mode
           u == CompleteDeadline([ui EXCEPT !.matching[o] = @ \ {a}], o)
           current == Head(msgs).status = "Completed" /\ Current(ui, o, a)
<1>1. /\ Handler /\ msgs # <<>> /\ Head(msgs).worker = "reconcile" /\ msgs' = Tail(msgs)
      /\ UNCHANGED <<world, autoFix, quit, thread, stopping>>
  BY DEF HandleReconcileResult
<1>2. /\ Sound(ui, {}) /\ ui \in UiStates /\ Routed(ui) /\ Numbered(ui) /\ WorkersTyped
  BY SoundHere DEF UiInv, Inv
<1>3. Head(msgs).req \in Requests /\ o \in OpIds /\ a \in Apps /\ mode \in Modes
  BY <1>1, <1>2, TailOf DEF Results, Requests
<1>4. \A p \in OpIds : Waiting(ui, p)
  BY <1>1 DEF UiInv, EveryoneWaits, AsksFor, Waiting, Handler, Idle
<1>5. \A v \in UiStates : a \notin v.matching[o] \/ v.mode[o] # mode =>
            <<Head(msgs).worker, Head(msgs).req>> \notin Waits(v)
  BY <1>1, <1>3, WaitsFor
<1>6. CASE /\ ~Awaited(ui, o, a, mode)
           /\ ui' = Finally(ui) /\ UNCHANGED <<pending, order, stack>>
  <2>1. a \notin ui.matching[o] \/ ui.mode[o] # mode
    BY <1>2, <1>3, <1>6 DEF Awaited, Numbered, Outstanding
  <2>2. Winds(ui, ui)  BY DEF Winds
  <2>3. <<Head(msgs).worker, Head(msgs).req>> \notin Waits(ui)
    BY <1>2, <1>5, <2>1
  <2> QED  BY <1>1, <1>2, <1>4, <1>6, <2>2, <2>3, ResultHandled
<1>7. ASSUME Awaited(ui, o, a, mode),
             \/ /\ KindOf[o] = "auto" /\ ui.mode[o] = "PrepareLiveOnly"
                /\ RequestReconcileWork(u, o, a, "Plan")
             \/ /\ ui' = Finally(ReconcileResult(u, o, a, current))
                /\ UNCHANGED <<pending, order, stack>>
             \/ ui' = Finally(Cancel(u, {o})) /\ UNCHANGED <<pending, order, stack>>
      PROVE  UiInv'
  <2>1. a \in ui.matching[o] /\ Live(ui, o) /\ ui.mode[o] = mode  BY <1>7 DEF Awaited
  <2>2. /\ Sound(u, {}) /\ Winds(ui, u)
        /\ u.matching[o] = ui.matching[o] \ {a}
        /\ \A p \in OpIds \ {o} : Same(ui, u, p)
        /\ u.phase = ui.phase /\ u.session = ui.session /\ u.gate = ui.gate
        /\ u.routes = ui.routes /\ u.mode = ui.mode
    <3>1. u = Matched(ui, o, a)  BY DEF Matched
    <3> HIDE DEF u
    <3> QED  BY <1>2, <1>3, <2>1, <3>1, MatchDone
  <2> HIDE DEF u, current, o, a, mode
  <2>3. a \in AppsOf[o] /\ a \notin ui.session[o] /\ ui.gate[a] # o
    BY <1>2, <1>3, <2>1 DEF Routed, Numbered, Outstanding
  <2>4. a \notin u.matching[o] /\ Live(u, o) /\ u.gate[a] # o /\ a \notin u.session[o]
        /\ u \in UiStates
    BY <2>1, <2>2, <2>3 DEF Live, Sound
  <2>5. KindOf[o] = "auto" => u.session[o] = {} /\ u.matching[o] = {}
    <3> SUFFICES ASSUME KindOf[o] = "auto"
                 PROVE  u.session[o] = {} /\ u.matching[o] = {}
      OBVIOUS
    <3>1. u.session[o] \subseteq AppsOf[o] /\ u.matching[o] \subseteq AppsOf[o]
      BY <1>3, <2>2 DEF Sound, Outstanding
    <3>2. \A b \in AppsOf[o] : b = a  BY <1>3, <2>3, OneApp
    <3> QED  BY <2>4, <3>1, <3>2
  <2>6. ASSUME NEW end, GoesOn(u, end, o), ui' = Finally(end),
               UNCHANGED <<pending, order, stack>>
        PROVE  UiInv'
    <3>1. Sound(end, {}) /\ Winds(ui, end) /\ \A p \in OpIds : Waiting(end, p)
      BY <1>3, <1>4, <2>2, <2>6, OneGoesOn
    <3>2. end \in UiStates /\ a \notin end.matching[o]
      BY <1>3, <2>4, <2>6 DEF GoesOn, Winds, Sound
    <3>3. <<Head(msgs).worker, Head(msgs).req>> \notin Waits(end)  BY <1>5, <3>2
    <3> QED  BY <1>1, <2>6, <3>1, <3>3, ResultHandled
  <2>7. CASE /\ KindOf[o] = "auto" /\ ui.mode[o] = "PrepareLiveOnly"
             /\ RequestReconcileWork(u, o, a, "Plan")
    <3> DEFINE loose == {<<o, a>>}
    <3>1. \A p \in OpIds, b \in Apps : b \in u.session[p] =>
                (<<p, b>> \in {} <=> <<p, b>> \in loose)
      BY <2>4
    <3> HIDE DEF loose
    <3>2. Sound(u, loose)  BY <2>2, <3>1, LooseOnly
    <3>3. Sound(u, {<<o, a>>})  BY <3>2 DEF loose
    <3>4. "Plan" \in Modes /\ mode # "Plan"  BY <2>1, <2>7 DEF Modes
    <3>5. Head(msgs).req.op = o /\ Head(msgs).req.app = a /\ Head(msgs).req.mode # "Plan"
      BY <3>4 DEF o, a, mode
    <3>6. o \in OpIds /\ a \in AppsOf[o]  BY <1>3, <2>3
    <3>7. u.matching[o] # {} => u.mode[o] = "Plan"  BY <2>5, <2>7
    <3>8. KindOf[o] # "auto" => "Plan" = ModeOf(o)  BY <2>7
    <3>9. RequestReconcileWork(u, o, a, "Plan")  BY <2>7
    <3> QED
      BY <1>1, <2>2, <2>4, <3>3, <3>4, <3>5, <3>6, <3>7, <3>8, <3>9, MatchingAsked
  <2>8. ASSUME NEW end, \/ end = Cancel(u, {o})
                        \/ end = FinishManualSave(Gain(u, o, a, "Prepared"), o)
                        \/ end = Close(u, {o}) /\ KindOf[o] = "auto"
                        \/ end = Settle(u, o)
        PROVE  GoesOn(u, end, o)
    <3>0. \A p \in OpIds, b \in Apps : <<p, b>> \in {} => p = o  OBVIOUS
    <3>1. CASE end = Cancel(u, {o})  BY <1>3, <2>2, <3>0, <3>1, CancelGoesOn
    <3>2. CASE end = FinishManualSave(Gain(u, o, a, "Prepared"), o)
      <4> DEFINE mine == Gain(u, o, a, "Prepared")
      <4>1. "Prepared" \in Had  BY DEF Had, Gains
      <4>2. Sound(mine, {}) /\ Winds(u, mine) /\ \A p \in OpIds : Same(u, mine, p)
        BY <1>3, <2>2, <4>1, GainGoesOn
      <4> HIDE DEF mine
      <4>3. end = FinishManualSave(mine, o)  BY <3>2 DEF mine
      <4>4. GoesOn(mine, end, o)  BY <1>3, <4>2, <4>3, FinishGoesOn
      <4>5. Winds(u, end)  BY <4>2, <4>4, WindsTwice DEF GoesOn
      <4> QED  BY <4>2, <4>4, <4>5 DEF GoesOn, Same
    <3>3. CASE end = Close(u, {o}) /\ KindOf[o] = "auto"
      <4>1. \A b \in u.session[o] : <<o, b>> \in {}  BY <2>5, <3>3
      <4> QED  BY <1>3, <2>2, <3>0, <3>3, <4>1, CloseGoesOn
    <3>4. CASE end = Settle(u, o)
      BY <1>3, <2>2, <3>4, SettleSound DEF GoesOn
    <3> QED  BY <2>8, <3>1, <3>2, <3>3, <3>4
  <2>9. CASE /\ ui' = Finally(ReconcileResult(u, o, a, current))
             /\ UNCHANGED <<pending, order, stack>>
    <3> DEFINE end == ReconcileResult(u, o, a, current)
    <3>1. \/ end = Cancel(u, {o})
          \/ end = FinishManualSave(Gain(u, o, a, "Prepared"), o)
          \/ end = Close(u, {o}) /\ KindOf[o] = "auto"
          \/ end = Settle(u, o)
      BY DEF ReconcileResult
    <3>2. ui' = Finally(end)  BY <2>9
    <3> HIDE DEF end
    <3>3. GoesOn(u, end, o)  BY <2>8, <3>1
    <3> QED  BY <2>6, <2>9, <3>2, <3>3
  <2>10. CASE ui' = Finally(Cancel(u, {o})) /\ UNCHANGED <<pending, order, stack>>
    BY <2>6, <2>8, <2>10
  <2> QED  BY <1>7, <2>7, <2>9, <2>10
<1> QED  BY <1>6, <1>7 DEF HandleReconcileResult

-----------------------------------------------------------------------------
(* An operation asks for its applications. *)

\* Whatever asks is the last call of a handler.
LEMMA AskIsLast ==
    ASSUME Inv, UiInv, Calling("Ask")
    PROVE  /\ Running /\ quit = "running" /\ DOMAIN stack = {1} /\ Head(stack) = stack[1]
           /\ Rest = <<>> /\ Head(stack) \in Frames /\ Head(stack).fn = "Ask"
           /\ Head(stack).op \in OpIds /\ Head(stack).apps \in SUBSET Apps
           /\ AskFits(ui, Head(stack))
<1>1. WorkersTyped /\ stack \in Seq(Frames)  BY DEF Inv, WorkersTyped
<1>2. /\ stack # <<>> /\ Head(stack) \in Frames /\ Head(stack).fn = "Ask"
      /\ Head(stack).op \in OpIds /\ Head(stack).apps \in SUBSET Apps
      /\ Rest = Tail(stack)
  BY <1>1, CallTyped
<1>3. 1 \in DOMAIN stack /\ Head(stack) = stack[1]  BY <1>1, <1>2
<1>4. Running
  <2>1. CASE quit = "quiesced"  BY <1>2, <2>1 DEF UiInv, CallsFit
  <2>2. CASE quit = "quiescing"
    <3>1. stack \in StopSequences  BY <2>2 DEF UiInv, CallsFit
    <3>2. \A s \in StopSequences : s[1].fn # "Ask"
      BY DEF StopSequences, StopWorkers, Stop, Join, Notify, Drain
    <3> QED  BY <1>2, <1>3, <3>1, <3>2
  <2> QED  BY <2>1, <2>2 DEF UiInv, WorkTyped, Running
<1>5. 1 = Len(stack) /\ AskFits(ui, stack[1])
  BY <1>2, <1>3, <1>4 DEF UiInv, CallsFit
<1>6. DOMAIN stack = {1}  BY <1>1, <1>5
<1>7. Tail(stack) = <<>>
  <2>1. Tail(stack) \in Seq(Frames) /\ Len(Tail(stack)) = 0  BY <1>1, <1>2, <1>5
  <2> QED  BY <2>1, EmptySeq
<1> QED  BY <1>2, <1>3, <1>4, <1>5, <1>6, <1>7 DEF Running

\* An application that cannot be asked for, or the last that has been.
LEMMA AskQuietKeeps ==
    ASSUME Inv, UiInv, Calling("Ask"),
           UNCHANGED <<world, autoFix, quit, pending, order, thread, stopping, msgs>>,
           Sound(ui', {}), Winds(ui, ui'),
           NEW o, o = Head(stack).op, NEW others \in SUBSET Head(stack).apps,
           \/ stack' = <<>> /\ Waiting(ui', o)
           \/ stack' = <<Ask(o, others)>> /\ AskFits(ui', Ask(o, others)),
           \A p \in OpIds \ {o} : Waiting(ui, p) => Waiting(ui', p)
    PROVE  UiInv'
<1>1. /\ Running /\ quit = "running" /\ DOMAIN stack = {1} /\ Head(stack) = stack[1]
      /\ Head(stack).fn = "Ask" /\ o \in OpIds
  BY AskIsLast
<1>2. /\ Sound(ui, {}) /\ Ticking(ui) /\ ui \in UiStates /\ ui' \in UiStates
  BY <1>1 DEF UiInv, Sound
<1>3. Less(ui, ui')  BY <1>2, WindsLess
<1>4. Ticking(ui')  BY <1>2, TickingKept
<1>5. \A i \in DOMAIN stack' : /\ i = 1 /\ Len(stack') = 1
                               /\ stack'[i] = Ask(o, others) /\ AskFits(ui', stack'[i])
  OBVIOUS
<1>6. \A f \in {"PostSuperseded"} : \A i \in DOMAIN stack : stack[i].fn # f
  BY <1>1
<1>7. \A w, r : \A i \in DOMAIN stack : stack[i] # PostSuperseded(w, r)
  BY <1>6 DEF PostSuperseded
<1>8. EveryoneWaits'
  <2> SUFFICES ASSUME NEW p \in OpIds, Live(ui', p)
               PROVE  Outstanding(ui', p) # {} \/ AsksFor(stack', p)
    BY DEF EveryoneWaits, AsksFor
  <2>1. CASE p = o
    <3>1. CASE stack' = <<>> /\ Waiting(ui', o)  BY <2>1, <3>1 DEF Waiting
    <3>2. CASE stack' = <<Ask(o, others)>>
      <4>1. 1 \in DOMAIN stack' /\ stack'[1] = Ask(o, others)  BY <3>2
      <4>2. stack'[1].fn = "Ask" /\ stack'[1].op = p  BY <2>1, <4>1 DEF Ask
      <4> QED  BY <4>1, <4>2 DEF AsksFor
    <3> QED  BY <3>1, <3>2
  <2>2. CASE p # o
    <3>1. ~AsksFor(stack, p)  BY <1>1, <2>2 DEF AsksFor
    <3>2. Waiting(ui, p)  BY <3>1 DEF UiInv, EveryoneWaits, Waiting
    <3> QED  BY <2>2, <3>2 DEF Waiting
  <2> QED  BY <2>1, <2>2
<1>9. CallsFit'
  <2>1. \A i \in DOMAIN stack' :
            /\ stack'[i].fn \in {"Ask", "PostSuperseded", "Notify"}
            /\ i = Len(stack') /\ AskFits(ui', stack'[i])
    <3>1. Ask(o, others).fn = "Ask"  BY DEF Ask
    <3> QED  BY <1>5, <3>1
  <2> QED  BY <1>1, <2>1 DEF CallsFit, Running
<1>10. Unasked' \subseteq Unasked
  <2> SUFFICES ASSUME NEW r \in Unasked'  PROVE r \in Unasked
    OBVIOUS
  <2>1. r \in Pairs /\ r[1] \in OpIds  BY DEF Unasked, Pairs
  <2>2. CASE ui'.phase[r[1]] = "new"
    <3>1. ui.phase[r[1]] = "new"  BY <2>1, <2>2 DEF Winds
    <3> QED  BY <2>1, <3>1 DEF Unasked
  <2>3. CASE \E i \in DOMAIN stack' : /\ stack'[i].fn = "Ask" /\ stack'[i].op = r[1]
                                      /\ r[2] \in stack'[i].apps
    <3>1. r[1] = o /\ r[2] \in others  BY <1>5, <2>3 DEF Ask
    <3>2. 1 \in DOMAIN stack /\ stack[1].fn = "Ask" /\ stack[1].op = r[1]
          /\ r[2] \in stack[1].apps
      BY <1>1, <3>1
    <3> QED  BY <2>1, <3>2 DEF Unasked
  <2> QED  BY <2>2, <2>3 DEF Unasked
<1>11. Served'
  <2>1. \A i \in DOMAIN stack' : \A w, r : stack'[i] # PostSuperseded(w, r)
    BY <1>5 DEF Ask, PostSuperseded
  <2>2. \A r : Superseded(r)' => Superseded(r)  BY <2>1 DEF Superseded
  <2>3. ui'.routes \subseteq ui.routes  BY DEF Winds
  <2> QED  BY <1>10, <2>2, <2>3 DEF UiInv, Served
<1>12. Lossless'
  <2> SUFFICES ASSUME Faults = {}, NEW x \in Waits(ui')  PROVE At(x[1], x[2])'
    BY DEF Lossless
  <2>1. x \in Waits(ui)  BY <1>3 DEF Less
  <2>2. At(x[1], x[2])  BY <1>1, <2>1 DEF UiInv, Lossless
  <2> QED  BY <1>7, <2>2 DEF At
<1>13. WorkTyped'  BY DEF UiInv, WorkTyped
<1>14. Stopped'  BY <1>1 DEF UiInv, Stopped, HasWork, Running
<1> QED  BY <1>4, <1>8, <1>9, <1>11, <1>12, <1>13, <1>14 DEF UiInv

LEMMA RefusedKeeps ==
    ASSUME Inv, UiInv, Calling("Ask"),
           UNCHANGED <<world, autoFix, quit, pending, order, thread, stopping, msgs>>,
           NEW u, Sound(u, {}), Winds(ui, u),
           NEW o, o = Head(stack).op, NEW others \in SUBSET Head(stack).apps,
           Same(ui, u, o), \A p \in OpIds : Waiting(ui, p) => Waiting(u, p),
           Refused(u, o, others)
    PROVE  UiInv'
<1>1. o \in OpIds /\ AskFits(ui, Head(stack)) /\ Rest = <<>>
      /\ Head(stack).apps \in SUBSET Apps
  BY AskIsLast
<1>2. CASE KindOf[o] = "search"
  <2>1. ui' = u /\ stack' = <<Ask(o, others)>> \o <<>>  BY <1>1, <1>2 DEF Refused
  <2>2. Ask(o, others) \in Frames  BY <1>1, CallsAreFrames
  <2>3. stack' = <<Ask(o, others)>>  BY <2>1, <2>2
  <2>4. AskFits(u, Ask(o, others))
    <3>1. Live(u, o)  BY <1>1 DEF AskFits, Same, Live
    <3>2. \A b \in others : u.gate[b] # o /\ b \notin Outstanding(u, o)
      <4>1. o # NoOp  BY <1>1, PipelineAssumption
      <4> QED  BY <1>1, <4>1 DEF AskFits, Same, Winds, Outstanding
    <3>3. Ask(o, others).op = o /\ Ask(o, others).apps = others  BY DEF Ask
    <3> QED  BY <1>1, <3>1, <3>2, <3>3 DEF AskFits
  <2> QED  BY <2>1, <2>3, <2>4, AskQuietKeeps
<1>3. CASE KindOf[o] # "search"
  <2>1. ui' = Cancel(u, {o}) /\ stack' = <<>>  BY <1>1, <1>3 DEF Refused
  <2>2. \A p \in OpIds, b \in Apps : <<p, b>> \in {} => p = o  OBVIOUS
  <2>3. GoesOn(u, ui', o)  BY <1>1, <2>1, <2>2, CancelGoesOn
  <2>4. Sound(ui', {}) /\ Winds(ui, ui') /\ Waiting(ui', o)
    BY <2>3, WindsTwice DEF GoesOn
  <2>5. \A p \in OpIds \ {o} : Waiting(ui, p) => Waiting(ui', p)
    BY <2>3 DEF GoesOn, Same, Waiting, Live, Outstanding
  <2> QED  BY <2>1, <2>4, <2>5, AskQuietKeeps
<1> QED  BY <1>2, <1>3

\* What begins to be waited for when a session result is asked for.
LEMMA RouteWaits ==
    ASSUME NEW u, NEW v, u \in UiStates, v \in UiStates, NEW o \in OpIds, NEW a \in Apps,
           v.session[o] = u.session[o] \cup {a}, v.matching = u.matching, v.mode = u.mode,
           \A p \in OpIds \ {o} : Same(u, v, p)
    PROVE  Waits(v) \subseteq Waits(u) \cup {<<"session", Request(o, a, "none")>>}
<1>0. \A q :
        /\ <<"session", q>> \in Waits(v) <=>
             \E p \in OpIds : \E b \in v.session[p] : q = Request(p, b, "none")
        /\ <<"reconcile", q>> \in Waits(v) <=>
             \E p \in OpIds : \E b \in v.matching[p] : q = Request(p, b, v.mode[p])
        /\ \A w : <<w, q>> \in Waits(v) => w \in Workers /\ q \in Requests
  BY WaitsAre
<1>1. ASSUME NEW x \in Waits(v), x # <<"session", Request(o, a, "none")>>
      PROVE  x \in Waits(u)
  <2>1. PICK q : x = <<"session", q>> \/ x = <<"reconcile", q>>  BY DEF Waits
  <2>2. CASE x = <<"session", q>>
    <3>1. PICK p \in OpIds : \E b \in v.session[p] : q = Request(p, b, "none")
      BY <1>0, <2>2
    <3>2. PICK b \in v.session[p] : q = Request(p, b, "none")  BY <3>1
    <3>3. b \in u.session[p]
      <4>1. CASE p = o
        <5>1. b # a  BY <1>1, <2>2, <3>2, <4>1
        <5> QED  BY <3>2, <4>1, <5>1
      <4>2. CASE p # o  BY <3>2, <4>2 DEF Same
      <4> QED  BY <4>1, <4>2
    <3>4. \E c \in u.session[p] : q = Request(p, c, "none")  BY <3>2, <3>3
    <3> QED  BY <2>2, <3>4, WaitsAre
  <2>3. CASE x = <<"reconcile", q>>
    <3>1. PICK p \in OpIds : \E b \in v.matching[p] : q = Request(p, b, v.mode[p])
      BY <1>0, <2>3
    <3>2. \E b \in u.matching[p] : q = Request(p, b, u.mode[p])  BY <3>1
    <3> QED  BY <2>3, <3>2, WaitsAre
  <2> QED  BY <2>1, <2>2, <2>3
<1> QED  BY <1>1

\* A route is opened: the one it replaces is gone, and so is the request the
\* worker drops for it.
LEMMA RoutedKeeps ==
    ASSUME Inv, UiInv, Calling("Ask"),
           UNCHANGED <<world, autoFix, quit, thread, stopping, msgs>>,
           NEW o, o = Head(stack).op, NEW a \in Head(stack).apps,
           NEW others, others = Head(stack).apps \ {a},
           ui' = Routes(Displace(ui, a), o, a),
           EnqueueRequest("session", Request(o, a, "none"), <<Ask(o, others)>> \o Rest)
    PROVE  UiInv'
<1> DEFINE d == Displace(ui, a)
           req == Request(o, a, "none")
           rest == <<Ask(o, others)>> \o Rest
<1>1. /\ Running /\ quit = "running" /\ DOMAIN stack = {1} /\ Head(stack) = stack[1]
      /\ Head(stack).fn = "Ask" /\ o \in OpIds /\ Head(stack).apps \in SUBSET Apps
      /\ AskFits(ui, Head(stack)) /\ Rest = <<>> /\ a \in Apps
  BY AskIsLast
<1>2. /\ Sound(ui, {}) /\ Ticking(ui) /\ ui \in UiStates /\ WorkersTyped
  BY <1>1 DEF UiInv, Sound, Inv
<1>3. /\ Live(ui, o) /\ a \in AppsOf[o] /\ Head(stack).apps \subseteq AppsOf[o]
      /\ \A b \in Head(stack).apps : ui.gate[b] # o /\ b \notin Outstanding(ui, o)
  BY <1>1 DEF AskFits
<1>4. /\ Sound(d, {}) /\ Winds(ui, d) /\ d.gate[a] = NoOp
      /\ \A p \in OpIds : Waiting(ui, p) => Waiting(d, p)
      /\ \A p \in OpIds : ui.gate[a] # p => Same(ui, d, p)
  BY <1>1, <1>2, DisplaceSound
<1>5. EnqueueRequest("session", req, rest) /\ ui' = Routes(d, o, a)  OBVIOUS
<1>6. req \in Requests /\ req.app = a /\ req.op = o /\ "session" \in Workers
  BY <1>1 DEF Request, Requests, Workers, Modes
<1>7. rest \in Seq(Frames) /\ DOMAIN rest = {1} /\ rest[1] = Ask(o, others) /\ Len(rest) = 1
  <2>1. Ask(o, others) \in Frames  BY <1>1, CallsAreFrames
  <2> QED  BY <1>1, <2>1
<1> HIDE DEF d, req, rest
<1>8. Same(ui, d, o)  BY <1>1, <1>3, <1>4
<1>9. Live(d, o) /\ a \notin Outstanding(d, o) /\ d \in UiStates
  BY <1>3, <1>4, <1>8 DEF Same, Live, Outstanding, Sound
<1>10. /\ Sound(ui', {}) /\ ui'.monitor /\ Waiting(ui', o)
       /\ ui'.session[o] = d.session[o] \cup {a} /\ ui'.matching[o] = d.matching[o]
       /\ \A p \in OpIds \ {o} : Same(d, ui', p)
       /\ \A b \in Apps \ {a} : ui'.gate[b] = d.gate[b]
       /\ ui'.gate[a] = o
       /\ ui'.phase = d.phase /\ ui'.mode = d.mode /\ ui'.matching = d.matching
       /\ ui'.routes = d.routes \cup {<<o, a>>}
  BY <1>1, <1>3, <1>4, <1>5, <1>9, RouteBegins
<1>11. ui' \in UiStates /\ Routed(ui')  BY <1>10, SoundHere
<1>12. Waits(ui') \subseteq Waits(ui) \cup {<<"session", req>>}
  <2>1. Waits(ui') \subseteq Waits(d) \cup {<<"session", req>>}
    BY <1>1, <1>9, <1>10, <1>11, RouteWaits DEF req
  <2>2. Waits(d) \subseteq Waits(ui)  BY <1>2, <1>4, <1>9, WindsLess DEF Less
  <2> QED  BY <2>1, <2>2
<1>13. \A i \in DOMAIN stack' :
        \/ stack'[i] = Notify("session")
        \/ stack'[i] = PostSuperseded("session", req) /\ Rejects("session", req)
        \/ /\ stack'[i] = PostSuperseded("session", Slot("session", req))
           /\ ~Rejects("session", req) /\ Slot("session", req) \in Requests
           /\ Slot("session", req) # NoRequest
        \/ \E j \in DOMAIN rest :
                stack'[i] = rest[j] /\ (j = Len(rest) => i = Len(stack'))
  BY <1>2, <1>5, <1>6, <1>7, EnqueuedCalls
<1>14. \A i \in DOMAIN stack' :
        \/ stack'[i] = Notify("session")
        \/ stack'[i] = PostSuperseded("session", req) /\ Rejects("session", req)
        \/ /\ stack'[i] = PostSuperseded("session", Slot("session", req))
           /\ Slot("session", req) \in Requests /\ Slot("session", req) # NoRequest
        \/ stack'[i] = Ask(o, others) /\ i = Len(stack')
  BY <1>7, <1>13
<1>15. \A j \in DOMAIN rest : \E i \in DOMAIN stack' : stack'[i] = rest[j]
  BY <1>2, <1>5, <1>6, <1>7, EnqueuedCalls
<1>16. \E i \in DOMAIN stack' : stack'[i] = Ask(o, others)  BY <1>7, <1>15
<1>17. AskFits(ui', Ask(o, others))
  <2>1. Live(ui', o)  BY <1>9, <1>10 DEF Live
  <2>2. \A b \in others : ui'.gate[b] # o /\ b \notin Outstanding(ui', o)
    <3> SUFFICES ASSUME NEW b \in others
                 PROVE  ui'.gate[b] # o /\ b \notin Outstanding(ui', o)
      OBVIOUS
    <3>1. b \in Apps /\ b # a /\ ui.gate[b] # o /\ b \notin Outstanding(ui, o)
      BY <1>1, <1>3
    <3>2. o # NoOp  BY <1>1, PipelineAssumption
    <3>3. d.gate[b] = ui.gate[b] \/ d.gate[b] = NoOp  BY <1>4, <3>1 DEF Winds
    <3>4. b \notin Outstanding(ui', o)
      BY <1>8, <1>10, <3>1 DEF Same, Outstanding
    <3> QED  BY <1>10, <3>1, <3>2, <3>3, <3>4
  <2>3. Ask(o, others).op = o /\ Ask(o, others).apps = others  BY DEF Ask
  <2> QED  BY <1>1, <1>3, <2>1, <2>2, <2>3 DEF AskFits
<1>18. EveryoneWaits'
  <2> SUFFICES ASSUME NEW p \in OpIds, Live(ui', p)
               PROVE  Outstanding(ui', p) # {} \/ AsksFor(stack', p)
    BY DEF EveryoneWaits, AsksFor
  <2>1. CASE p = o  BY <1>10, <2>1 DEF Waiting
  <2>2. CASE p # o
    <3>1. ~AsksFor(stack, p)  BY <1>1, <2>2 DEF AsksFor
    <3>2. Waiting(ui, p)  BY <3>1 DEF UiInv, EveryoneWaits, Waiting
    <3>3. Waiting(d, p)  BY <1>4, <3>2
    <3>4. Same(d, ui', p)  BY <1>10, <2>2
    <3> QED  BY <3>3, <3>4 DEF Same, Waiting, Live, Outstanding
  <2> QED  BY <2>1, <2>2
<1>19. CallsFit'
  <2>1. ASSUME NEW i \in DOMAIN stack'
        PROVE  /\ stack'[i].fn \in {"Ask", "PostSuperseded", "Notify"}
               /\ stack'[i].fn = "Ask" => i = Len(stack') /\ AskFits(ui', stack'[i])
    <3>1. /\ Notify("session").fn = "Notify" /\ Ask(o, others).fn = "Ask"
          /\ \A r : PostSuperseded("session", r).fn = "PostSuperseded"
      BY DEF Notify, Ask, PostSuperseded
    <3> QED  BY <1>14, <1>17, <3>1
  <2> QED  BY <1>1, <2>1 DEF CallsFit, Running
<1>20. <<o, a>> \in Unasked /\ <<o, a>> \notin Unasked' /\ Unasked' \subseteq Unasked
  <2>1. <<o, a>> \in Pairs  BY <1>1 DEF Pairs
  <2>2. 1 \in DOMAIN stack /\ stack[1].fn = "Ask" /\ stack[1].op = o
        /\ a \in stack[1].apps
    BY <1>1
  <2>3. <<o, a>> \in Unasked  BY <2>1, <2>2 DEF Unasked
  <2>4. ASSUME NEW r \in Unasked'  PROVE r \in Unasked /\ r # <<o, a>>
    <3>1. r \in Pairs /\ r[1] \in OpIds /\ r = <<r[1], r[2]>>  BY DEF Unasked, Pairs
    <3>2. CASE ui'.phase[r[1]] = "new"
      <4>1. ui.phase[r[1]] = "new"  BY <1>4, <1>10, <3>1, <3>2 DEF Winds
      <4>2. r[1] # o  BY <1>3, <4>1 DEF Live
      <4> QED  BY <3>1, <4>1, <4>2 DEF Unasked
    <3>3. CASE \E i \in DOMAIN stack' : /\ stack'[i].fn = "Ask" /\ stack'[i].op = r[1]
                                        /\ r[2] \in stack'[i].apps
      <4>1. r[1] = o /\ r[2] \in others
        BY <1>14, <3>3 DEF Ask, Notify, PostSuperseded
      <4>2. 1 \in DOMAIN stack /\ stack[1].fn = "Ask" /\ stack[1].op = r[1]
            /\ r[2] \in stack[1].apps /\ r[2] # a
        BY <1>1, <4>1
      <4> QED  BY <3>1, <4>2 DEF Unasked
    <3> QED  BY <3>2, <3>3 DEF Unasked
  <2> QED  BY <2>3, <2>4
<1>21. /\ WorkTyped' /\ Stopped'
       /\ \A v \in Workers, b \in Apps :
                \/ pending'[v][b] = pending[v][b]
                \/ v = "session" /\ b = req.app /\ pending'[v][b] = req
  BY <1>1, <1>2, <1>5, <1>6, <1>7, EnqueuedWork DEF UiInv, WorkTyped
<1>22. ui'.routes \subseteq ui.routes \cup {<<o, a>>}  BY <1>4, <1>10 DEF Winds
<1>23. Served'
  <2>1. \A w \in Workers : thread'[w].status # "Superseded"  BY DEF UiInv, Served
  <2>2. \A b \in Apps : pending'["session"][b] # NoRequest =>
                            <<pending'["session"][b].op, b>> \notin Unasked'
    <3> SUFFICES ASSUME NEW b \in Apps, pending'["session"][b] # NoRequest
                 PROVE  <<pending'["session"][b].op, b>> \notin Unasked'
      OBVIOUS
    <3>1. CASE pending'["session"][b] = pending["session"][b]
      BY <1>20, <3>1 DEF UiInv, Served
    <3>2. CASE b = req.app /\ pending'["session"][b] = req
      BY <1>6, <1>20, <3>2
    <3> QED  BY <1>6, <1>21, <3>1, <3>2
  <2>3. ASSUME NEW r \in Requests, Superseded(r)'
        PROVE  /\ <<r.op, r.app>> \notin Unasked'
               /\ <<r.op, r.app>> \in ui'.routes => KindOf[r.op] \notin {"save", "restore"}
    <3>1. CASE Superseded(r)
      <4>1. /\ <<r.op, r.app>> \notin Unasked
            /\ <<r.op, r.app>> \in ui.routes => KindOf[r.op] \notin {"save", "restore"}
        BY <3>1 DEF UiInv, Served
      <4> QED  BY <1>20, <1>22, <4>1
    <3>2. CASE r = req /\ Rejects("session", req)
      <4>1. Priority(o) < Priority(Slot("session", req).op)
        BY <1>6, <3>2 DEF Rejects
      <4>2. \A p : Priority(p) \in {1, 2, 3, 4}  BY DEF Priority
      <4>3. KindOf[o] \notin {"save", "restore"}
        <5>1. KindOf[o] \in {"save", "restore"} => Priority(o) = 4  BY DEF Priority
        <5> QED  BY <4>1, <4>2, <5>1
      <4> QED  BY <1>6, <1>20, <3>2, <4>3
    <3>3. CASE r = Slot("session", req) /\ Slot("session", req) # NoRequest
      <4>1. pending["session"][a] = r /\ pending["session"][a] # NoRequest
        BY <1>6, <3>3 DEF Slot
      <4>2. r.app = a  BY <1>1, <1>6, <4>1 DEF UiInv, WorkTyped
      <4>3. <<r.op, a>> \notin Unasked  BY <1>1, <4>1 DEF UiInv, Served
      <4>4. r.op # o /\ r.op \in OpIds  BY <1>20, <4>3 DEF Requests
      <4>5. <<r.op, a>> \notin ui'.routes
        BY <1>1, <1>10, <1>11, <4>4 DEF Routed
      <4> QED  BY <1>20, <4>2, <4>3, <4>5
    <3>4. Superseded(r) \/ (r = req /\ Rejects("session", req))
            \/ (r = Slot("session", req) /\ Slot("session", req) # NoRequest)
      <4>1. CASE \E i \in DOMAIN stack' : stack'[i] = PostSuperseded("session", r)
        <5>1. PICK i \in DOMAIN stack' : stack'[i] = PostSuperseded("session", r)
          BY <4>1
        <5>2. /\ PostSuperseded("session", r).fn = "PostSuperseded"
              /\ Notify("session").fn = "Notify" /\ Ask(o, others).fn = "Ask"
              /\ PostSuperseded("session", r).req = r
              /\ PostSuperseded("session", req).req = req
              /\ PostSuperseded("session", Slot("session", req)).req = Slot("session", req)
          BY DEF PostSuperseded, Notify, Ask
        <5> QED  BY <1>14, <5>1, <5>2
      <4>2. CASE \E i \in DOMAIN msgs' : /\ msgs'[i].worker = "session"
                                         /\ msgs'[i].req = r
                                         /\ msgs'[i].status = "Superseded"
        BY <4>2 DEF Superseded
      <4> QED  BY <2>3, <4>1, <4>2 DEF Superseded
    <3> QED  BY <3>1, <3>2, <3>3, <3>4
  <2> QED  BY <2>1, <2>2, <2>3 DEF Served
<1>24. Lossless'
  <2> SUFFICES ASSUME Faults = {}, NEW x \in Waits(ui')  PROVE At(x[1], x[2])'
    BY DEF Lossless
  <2>1. /\ At("session", req)'
        /\ \A v \in Workers, r \in Requests :
              /\ At(v, r)
              /\ \A i \in DOMAIN stack : stack[i] = PostSuperseded(v, r) =>
                      \E j \in DOMAIN rest : rest[j] = stack[i]
              /\ \A i \in DOMAIN msgs : msgs[i].worker = v /\ msgs[i].req = r =>
                      \E j \in DOMAIN msgs' : msgs'[j] = msgs[i]
              => At(v, r)'
    BY <1>2, <1>5, <1>6, <1>7, EnqueuedAt
  <2>2. CASE x = <<"session", req>>
    <3>1. x[1] = "session" /\ x[2] = req  BY <2>2
    <3> QED  BY <2>1, <3>1 DEF At
  <2>3. CASE x \in Waits(ui)
    <3>1. At(x[1], x[2])  BY <1>1, <2>3 DEF UiInv, Lossless
    <3>2. x[1] \in Workers /\ x[2] \in Requests  BY <1>2, <2>3, WaitsTyped
    <3>3. \A i \in DOMAIN stack : stack[i] # PostSuperseded(x[1], x[2])
      BY <1>1 DEF PostSuperseded
    <3>4. \A i \in DOMAIN msgs : msgs[i].worker = x[1] /\ msgs[i].req = x[2] =>
                      \E j \in DOMAIN msgs' : msgs'[j] = msgs[i]
      OBVIOUS
    <3>5. At(x[1], x[2])'  BY <2>1, <3>1, <3>2, <3>3, <3>4
    <3> QED  BY <3>5
  <2> QED  BY <1>12, <2>2, <2>3
<1> QED  BY <1>10, <1>18, <1>19, <1>21, <1>23, <1>24 DEF UiInv, Ticking

LEMMA AskKeepsUi == ASSUME Inv, UiInv, Asks  PROVE UiInv'
<1> DEFINE o == Head(stack).op
           apps == Head(stack).apps
<1>1. Calling("Ask") /\ UNCHANGED <<world, autoFix, quit, thread, stopping, msgs>>
  BY DEF Asks
<1>2. /\ Running /\ Rest = <<>> /\ o \in OpIds /\ apps \in SUBSET Apps
      /\ AskFits(ui, Head(stack))
  BY <1>1, AskIsLast
<1>3. Sound(ui, {})  BY DEF UiInv
<1>4. CASE ui' = Settle(ui, o) /\ stack' = Rest /\ UNCHANGED <<pending, order>>
  <2>1. /\ Sound(ui', {}) /\ Winds(ui, ui') /\ Waiting(ui', o)
        /\ \A p \in OpIds \ {o} : Same(ui, ui', p)
    BY <1>2, <1>3, <1>4, SettleSound
  <2>2. \A p \in OpIds \ {o} : Waiting(ui, p) => Waiting(ui', p)
    BY <2>1 DEF Same, Waiting, Live, Outstanding
  <2>3. {} \in SUBSET apps /\ stack' = <<>>  BY <1>2, <1>4
  <2> QED  BY <1>1, <1>4, <2>1, <2>2, <2>3, AskQuietKeeps
<1>5. ASSUME NEW a \in apps, RequestSessionWork(o, a, apps \ {a})  PROVE UiInv'
  <2> DEFINE others == apps \ {a}
             d == Displace(ui, a)
  <2>1. others \in SUBSET apps /\ others = apps \ {a} /\ a \in Apps  BY <1>2
  <2>2. CASE Refused(ui, o, others) /\ UNCHANGED <<pending, order>>
    <3>1. Winds(ui, ui) /\ Same(ui, ui, o)  BY DEF Winds, Same
    <3> QED  BY <1>1, <1>3, <2>1, <2>2, <3>1, RefusedKeeps
  <2>3. CASE Refused(d, o, others) /\ UNCHANGED <<pending, order>>
    <3>1. ui.gate[a] # o  BY <1>2 DEF AskFits
    <3>2. /\ Sound(d, {}) /\ Winds(ui, d)
          /\ \A p \in OpIds : Waiting(ui, p) => Waiting(d, p)
          /\ \A p \in OpIds : ui.gate[a] # p => Same(ui, d, p)
      BY <1>3, <2>1, DisplaceSound
    <3>3. Same(ui, d, o)  BY <1>2, <3>1, <3>2
    <3> HIDE DEF d, others
    <3> QED  BY <1>1, <2>1, <2>3, <3>2, <3>3, RefusedKeeps
  <2>4. CASE /\ ui' = [Displace(ui, a) EXCEPT
                        !.gate[a] = o, !.routes = @ \cup {<<o, a>>},
                        !.monitor = TRUE, !.session[o] = @ \cup {a}]
             /\ EnqueueRequest("session", Request(o, a, "none"),
                               <<Ask(o, others)>> \o Rest)
    <3>1. ui' = Routes(Displace(ui, a), o, a)  BY <2>4 DEF Routes
    <3> HIDE DEF others
    <3> QED  BY <1>1, <2>1, <2>4, <3>1, RoutedKeeps
  <2> QED  BY <1>5, <2>2, <2>3, <2>4 DEF RequestSessionWork
<1> QED  BY <1>4, <1>5 DEF Asks

-----------------------------------------------------------------------------
(* The steps that leave the UI thread's state alone, and the end. *)

\* A step that answers for what it moves.
LEMMA MovedKeeps ==
    ASSUME Inv, UiInv, UNCHANGED ui, Running' => Running,
           EveryoneWaits', CallsFit', Unasked' \subseteq Unasked,
           \A w \in Workers : thread'[w].status # "Superseded",
           \A a \in Apps : pending'["session"][a] # NoRequest =>
                                pending'["session"][a] = pending["session"][a],
           \A r \in Requests : Superseded(r)' => Superseded(r),
           Lossless', WorkTyped', Stopped'
    PROVE  UiInv'
<1>1. Served'
  <2>1. \A a \in Apps : pending'["session"][a] # NoRequest =>
                            <<pending'["session"][a].op, a>> \notin Unasked'
    BY DEF UiInv, Served
  <2> QED  BY <2>1 DEF UiInv, Served
<1>2. Sound(ui, {})' /\ (Running' => Ticking(ui'))
  <2>1. Sound(ui, {}) /\ (Running => Ticking(ui)) /\ ui' = ui  BY DEF UiInv
  <2> QED  BY <2>1
<1> QED  BY <1>1, <1>2 DEF UiInv

\* A call other than "Ask" has been made.
LEMMA CallMade ==
    ASSUME Inv, UiInv, UNCHANGED ui, stack # <<>>, Head(stack).fn # "Ask",
           stack' = Tail(stack)
    PROVE  /\ \A i \in DOMAIN stack' : /\ i + 1 \in DOMAIN stack
                                       /\ stack'[i] = stack[i + 1]
                                       /\ i + 1 = Len(stack) => i = Len(stack')
           /\ \A j \in DOMAIN stack :
                stack[j] = Head(stack) \/ \E i \in DOMAIN stack' : stack'[i] = stack[j]
           /\ EveryoneWaits' /\ Unasked' \subseteq Unasked
           /\ Running /\ UNCHANGED quit => CallsFit'
<1>1. stack \in Seq(Frames)  BY DEF Inv, WorkersTyped
<1>2. \A i \in DOMAIN stack' : /\ i + 1 \in DOMAIN stack /\ stack'[i] = stack[i + 1]
                               /\ i + 1 = Len(stack) => i = Len(stack')
  BY <1>1
<1>3. \A j \in DOMAIN stack : j = 1 \/ (j - 1 \in DOMAIN stack' /\ stack'[j - 1] = stack[j])
  BY <1>1
<1>4. Head(stack) = stack[1]  BY <1>1
<1>5. \A j \in DOMAIN stack :
        stack[j] = Head(stack) \/ \E i \in DOMAIN stack' : stack'[i] = stack[j]
  BY <1>3, <1>4
<1>6. EveryoneWaits'
  <2>1. \A o : AsksFor(stack, o) => AsksFor(stack', o)  BY <1>5 DEF AsksFor
  <2> QED  BY <2>1 DEF UiInv, EveryoneWaits, Live, Outstanding
<1>7. Unasked' \subseteq Unasked  BY <1>2 DEF Unasked
<1>8. ASSUME Running, UNCHANGED quit  PROVE CallsFit'
  <2>1. ASSUME NEW i \in DOMAIN stack'
        PROVE  /\ stack'[i].fn \in {"Ask", "PostSuperseded", "Notify"}
               /\ stack'[i].fn = "Ask" => i = Len(stack') /\ AskFits(ui', stack'[i])
    BY <1>2, <1>8 DEF UiInv, CallsFit
  <2>2. quit' = "running"  BY <1>8 DEF Running
  <2> QED  BY <2>1, <2>2 DEF CallsFit, Running
<1> QED  BY <1>2, <1>5, <1>6, <1>7, <1>8

\* The calls of Stop, one after the other.
LEMMA StopsInOrder ==
    ASSUME NEW s \in StopSequences
    PROVE  /\ s \in Seq(Frames) /\ s # <<>>
           /\ Head(s).fn \in {"Notify", "Stop", "Join", "Drain"}
           /\ Head(s).fn \in {"Notify", "Join"} => Tail(s) \in StopSequences
           /\ Head(s).fn = "Drain" <=> Tail(s) = <<>>
           /\ Head(s).fn = "Stop" => <<Notify(Head(s).worker)>> \o Tail(s) \in StopSequences
           /\ Head(s).fn = "Stop" => \E i \in DOMAIN Tail(s) : Tail(s)[i] = Join(Head(s).worker)
<1> DEFINE ss == Stop("session")
           js == Join("session")
           ns == Notify("session")
           sr == Stop("reconcile")
           jr == Join("reconcile")
           nr == Notify("reconcile")
<1>1. /\ ss \in Frames /\ js \in Frames /\ ns \in Frames
      /\ sr \in Frames /\ jr \in Frames /\ nr \in Frames /\ Drain \in Frames
  BY CallsAreFrames DEF Workers
<1>2. /\ ss.fn = "Stop" /\ ss.worker = "session" /\ js.fn = "Join" /\ ns.fn = "Notify"
      /\ sr.fn = "Stop" /\ sr.worker = "reconcile" /\ jr.fn = "Join" /\ nr.fn = "Notify"
      /\ Drain.fn = "Drain"
  BY DEF Stop, Join, Notify, Drain
<1>3. StopSequences = {<<ss, js, sr, jr, Drain>>, <<ns, js, sr, jr, Drain>>,
                       <<js, sr, jr, Drain>>, <<sr, jr, Drain>>, <<nr, jr, Drain>>,
                       <<jr, Drain>>, <<Drain>>}
  BY DEF StopSequences, StopWorkers
<1>4. Notify("session") = ns /\ Notify("reconcile") = nr
      /\ Join("session") = js /\ Join("reconcile") = jr
  OBVIOUS
<1> HIDE DEF ss, js, ns, sr, jr, nr
<1>5. CASE s = <<ss, js, sr, jr, Drain>>
  <2>1. /\ s \in Seq(Frames) /\ Head(s) = ss /\ Tail(s) = <<js, sr, jr, Drain>>
        /\ Tail(s) \in Seq(Frames) /\ Len(Tail(s)) = 4
    BY <1>1, <1>5
  <2> DEFINE t == <<ns>> \o <<js, sr, jr, Drain>>
  <2>2. /\ t \in Seq(Frames) /\ Len(t) = 5
        /\ t[1] = ns /\ t[2] = js /\ t[3] = sr /\ t[4] = jr /\ t[5] = Drain
    BY <1>1
  <2> HIDE DEF t
  <2>3. t = <<ns, js, sr, jr, Drain>>  BY <1>1, <2>2
  <2>4. 1 \in DOMAIN Tail(s) /\ Tail(s)[1] = js
    <3>1. \A r \in Seq(Frames) : Len(r) = 4 => 1 \in DOMAIN r  OBVIOUS
    <3>2. <<js, sr, jr, Drain>>[1] = js  BY <1>1
    <3> QED  BY <2>1, <3>1, <3>2
  <2>5. Notify(Head(s).worker) = ns /\ Join(Head(s).worker) = js
        /\ Tail(s) # <<>> /\ Head(s).fn = "Stop"
    BY <1>2, <1>4, <2>1
  <2> QED  BY <1>2, <1>3, <1>5, <2>1, <2>3, <2>4, <2>5 DEF t
<1>6. CASE s = <<sr, jr, Drain>>
  <2>1. /\ s \in Seq(Frames) /\ Head(s) = sr /\ Tail(s) = <<jr, Drain>>
        /\ Tail(s) \in Seq(Frames) /\ Len(Tail(s)) = 2
    BY <1>1, <1>6
  <2> DEFINE t == <<nr>> \o <<jr, Drain>>
  <2>2. /\ t \in Seq(Frames) /\ Len(t) = 3
        /\ t[1] = nr /\ t[2] = jr /\ t[3] = Drain
    BY <1>1
  <2> HIDE DEF t
  <2>3. t = <<nr, jr, Drain>>  BY <1>1, <2>2
  <2>4. 1 \in DOMAIN Tail(s) /\ Tail(s)[1] = jr
    <3>1. \A r \in Seq(Frames) : Len(r) = 2 => 1 \in DOMAIN r  OBVIOUS
    <3>2. <<jr, Drain>>[1] = jr  BY <1>1
    <3> QED  BY <2>1, <3>1, <3>2
  <2>5. Notify(Head(s).worker) = nr /\ Join(Head(s).worker) = jr /\ Head(s).fn = "Stop"
    BY <1>2, <1>4, <2>1
  <2>6. Tail(s) # <<>>  BY <2>1
  <2> QED  BY <1>2, <1>3, <1>6, <2>1, <2>3, <2>4, <2>5, <2>6 DEF t
<1>7. CASE s = <<Drain>>
  <2>1. s \in Seq(Frames) /\ Head(s) = Drain /\ Tail(s) = <<>>  BY <1>1, <1>7
  <2> QED  BY <1>2, <1>7, <2>1
<1>8. CASE s = <<jr, Drain>>
  <2>1. s \in Seq(Frames) /\ Head(s) = jr /\ Tail(s) = <<Drain>> /\ Tail(s) # <<>>
    BY <1>1, <1>8
  <2> QED  BY <1>2, <1>3, <1>8, <2>1
<1>9. CASE s = <<nr, jr, Drain>>
  <2>1. s \in Seq(Frames) /\ Head(s) = nr /\ Tail(s) = <<jr, Drain>> /\ Tail(s) # <<>>
    BY <1>1, <1>9
  <2> QED  BY <1>2, <1>3, <1>9, <2>1
<1>10. CASE s = <<js, sr, jr, Drain>>
  <2>1. /\ s \in Seq(Frames) /\ Head(s) = js /\ Tail(s) = <<sr, jr, Drain>>
        /\ Tail(s) # <<>>
    BY <1>1, <1>10
  <2> QED  BY <1>2, <1>3, <1>10, <2>1
<1>11. CASE s = <<ns, js, sr, jr, Drain>>
  <2>1. /\ s \in Seq(Frames) /\ Head(s) = ns /\ Tail(s) = <<js, sr, jr, Drain>>
        /\ Tail(s) # <<>>
    BY <1>1, <1>11
  <2> QED  BY <1>2, <1>3, <1>11, <2>1
<1> QED  BY <1>3, <1>5, <1>6, <1>7, <1>8, <1>9, <1>10, <1>11

LEMMA ElseKeeps ==
    ASSUME Inv, UiInv, UNCHANGED <<ui, quit, pending, order, thread, stopping, msgs, stack>>,
           WorkTyped'
    PROVE  UiInv'
<1>1. EveryoneWaits' /\ CallsFit'
  BY DEF UiInv, EveryoneWaits, AsksFor, Live, Outstanding, CallsFit, Running
<1>2. Unasked' = Unasked /\ \A r : Superseded(r)' <=> Superseded(r)
  BY DEF Unasked, Superseded
<1>3. Lossless'
  <2>1. \A w, r : At(w, r)' <=> At(w, r)  BY DEF At
  <2> QED  BY <2>1 DEF UiInv, Lossless, Running
<1>4. Stopped'  BY DEF UiInv, Stopped, HasWork, Running
<1>5. \A w \in Workers : thread'[w].status # "Superseded"  BY DEF UiInv, Served
<1> QED  BY <1>1, <1>2, <1>3, <1>4, <1>5, MovedKeeps DEF Running

LEMMA WorldKeeps ==
    ASSUME Inv, UiInv, NEW a \in Apps, NEW step \in {0, 1}, WindowsChange(a, step)
    PROVE  UiInv'
<1>1. /\ world \in [Apps -> Snapshots] /\ \A b \in Apps : world[b].set <= world[b].content
      /\ MaxChanges \in Nat
  BY PipelineAssumption DEF UiInv, WorkTyped
<1>2. /\ world[a].content < MaxChanges   \* as of every application
      /\ world' = [world EXCEPT ![a].content = @ + 1, ![a].set = @ + step]
      /\ UNCHANGED <<ui, autoFix, quit, pending, order, thread, stopping, msgs, stack>>
  BY DEF WindowsChange, workerVars
<1>3. world[a] \in Snapshots  BY <1>1
<1> DEFINE new == [world[a] EXCEPT !.content = @ + 1, !.set = @ + step]
<1>5. new \in Snapshots /\ new.set <= new.content
  <2>1. /\ world[a].set \in 0..MaxChanges /\ world[a].content \in 0..MaxChanges
        /\ world[a].set <= world[a].content
    BY <1>1, <1>3 DEF Snapshots
  <2>2. /\ world[a].set + step \in 0..MaxChanges /\ world[a].content + 1 \in 0..MaxChanges
        /\ world[a].set + step <= world[a].content + 1
    BY <1>1, <1>2, <2>1
  <2>3. new.set = world[a].set + step /\ new.content = world[a].content + 1
    BY <1>3 DEF Snapshots
  <2>4. new \in Snapshots  BY <1>3, <2>2 DEF Snapshots
  <2> QED  BY <2>2, <2>3, <2>4
<1>6. /\ world' \in [Apps -> Snapshots] /\ world'[a] = new
      /\ \A b \in Apps \ {a} : world'[b] = world[b]
  BY <1>1, <1>2, <1>5
<1>7. WorkTyped'
  <2>1. \A b \in Apps : world'[b].set <= world'[b].content  BY <1>1, <1>5, <1>6
  <2> QED  BY <1>2, <1>6, <2>1 DEF UiInv, WorkTyped
<1> QED  BY <1>2, <1>7, ElseKeeps

\* Who may be calling.
LEMMA WhoCalls ==
    ASSUME Inv, UiInv, NEW fn, Calling(fn)
    PROVE  /\ stack \in Seq(Frames) /\ stack # <<>> /\ 1 \in DOMAIN stack
           /\ Head(stack) = stack[1] /\ Head(stack).fn = fn /\ Rest = Tail(stack)
           /\ \/ Running /\ fn \in {"Ask", "PostSuperseded", "Notify"}
              \/ ~Running /\ quit = "quiescing" /\ stack \in StopSequences
<1>1. /\ stack \in Seq(Frames) /\ stack # <<>> /\ Head(stack).fn = fn
      /\ Rest = Tail(stack)
  BY CallTyped DEF Inv, WorkersTyped
<1>2. 1 \in DOMAIN stack /\ Head(stack) = stack[1]  BY <1>1
<1>3. CASE quit = "quiesced"  BY <1>1, <1>3 DEF UiInv, CallsFit
<1>4. CASE quit = "quiescing"  BY <1>1, <1>2, <1>4 DEF UiInv, CallsFit, Running
<1>5. CASE Running  BY <1>1, <1>2, <1>5 DEF UiInv, CallsFit
<1> QED  BY <1>1, <1>2, <1>3, <1>4, <1>5 DEF UiInv, WorkTyped, Running

LEMMA WritingKeeps == ASSUME Inv, UiInv, WritesSave  PROVE UiInv'
<1>1. /\ Running /\ Idle
      /\ UNCHANGED <<world, autoFix, quit, pending, order, thread, stopping, msgs, stack>>
  BY DEF WritesSave, workerVars
<1>2. PICK s \in ui.writing : \E done \in {{}, {s.op}} :
        ui' = [ui EXCEPT !.writing = @ \ {s}, !.published = @ \cup done]
  BY DEF WritesSave
<1>3. Sound(ui, {}) /\ ui \in UiStates /\ Ticking(ui) /\ s.op \in OpIds
  <2>1. ui \in UiStates  BY DEF UiInv, Sound
  <2>2. s \in Drafts  BY <2>1 DEF UiStates
  <2> QED  BY <1>1, <2>1, <2>2 DEF UiInv, Drafts
<1>4. /\ ui' \in UiStates
      /\ ui'.phase = ui.phase /\ ui'.session = ui.session /\ ui'.matching = ui.matching
      /\ ui'.mode = ui.mode /\ ui'.gate = ui.gate /\ ui'.routes = ui.routes
      /\ ui'.due = ui.due /\ ui'.monitor = ui.monitor
  <2>1. PICK done \in {{}, {s.op}} :
          ui' = [ui EXCEPT !.writing = @ \ {s}, !.published = @ \cup done]
    BY <1>2
  <2>2. ui.writing \ {s} \in SUBSET Drafts /\ ui.published \cup done \in SUBSET OpIds
    BY <1>3, <2>1 DEF UiStates
  <2> QED  BY <1>3, <2>1, <2>2 DEF UiStates
<1>5. Sound(ui', {})  BY <1>3, <1>4 DEF Sound, Outstanding, Live
<1>6. Ticking(ui') /\ Winds(ui, ui')  BY <1>3, <1>4 DEF Ticking, Winds
<1>7. Less(ui, ui')  BY <1>3, <1>4, <1>6, WindsLess
<1>8. \A o \in OpIds : Waiting(ui', o)
  BY <1>1, <1>4 DEF UiInv, EveryoneWaits, AsksFor, Waiting, Live, Outstanding, Idle
<1>9. autoFix' \in BOOLEAN  BY <1>1 DEF UiInv, WorkTyped
<1> QED  BY <1>1, <1>5, <1>6, <1>7, <1>8, <1>9, QuietKeeps

LEMMA PostedKeeps == ASSUME Inv, UiInv, PostsSuperseded  PROVE UiInv'
<1> DEFINE f == Head(stack)
           result == Result(f.worker, f.req, "Superseded")
<1>1. /\ Calling("PostSuperseded") /\ Post(result) /\ stack' = Rest
      /\ UNCHANGED <<ui, world, autoFix, quit, pending, order, thread, stopping>>
  BY DEF PostsSuperseded, uiVars, workerVars
<1>2. /\ stack # <<>> /\ f = stack[1] /\ 1 \in DOMAIN stack
      /\ f.fn = "PostSuperseded" /\ Rest = Tail(stack) /\ Running
  <2>1. \A s \in StopSequences : Head(s).fn # "PostSuperseded"
    <3>1. \A s \in StopSequences : Head(s).fn \in {"Notify", "Stop", "Join", "Drain"}
      BY StopsInOrder
    <3> QED  BY <3>1
  <2> QED  BY <1>1, <2>1, WhoCalls
<1>3. /\ f \in Frames /\ f.worker \in Workers /\ f.req \in Requests
  BY <1>1, CallTyped DEF Inv
<1>4. f = PostSuperseded(f.worker, f.req)
  BY <1>2, <1>3 DEF Frames, PostSuperseded
<1>5. result.worker = f.worker /\ result.req = f.req /\ result.status = "Superseded"
  BY DEF Result
<1>6. msgs \in Seq(Results) /\ result \in Results
  <2>1. result \in Results  BY <1>3 DEF Result, Results, Statuses
  <2> QED  BY <2>1 DEF Inv, WorkersTyped
<1> HIDE DEF result
<1>7. /\ \A i \in DOMAIN msgs' : msgs'[i] = result \/ \E j \in DOMAIN msgs : msgs'[i] = msgs[j]
      /\ Faults = {} => /\ \A j \in DOMAIN msgs : \E i \in DOMAIN msgs' : msgs'[i] = msgs[j]
                        /\ \E i \in DOMAIN msgs' : msgs'[i] = result
  <2>1. CASE msgs' = Append(msgs, result)
    <3>1. /\ DOMAIN msgs = 1..Len(msgs) /\ DOMAIN msgs' = 1..(Len(msgs) + 1)
          /\ Len(msgs) \in Nat
          /\ msgs'[Len(msgs) + 1] = result
          /\ \A i \in 1..Len(msgs) : msgs'[i] = msgs[i]
      BY <1>6, <2>1
    <3> QED  BY <3>1
  <2>2. CASE "post" \in Faults /\ UNCHANGED msgs  BY <2>2
  <2> QED  BY <1>1, <2>1, <2>2 DEF Post
<1>8. /\ \A i \in DOMAIN stack' : /\ i + 1 \in DOMAIN stack
                                  /\ stack'[i] = stack[i + 1]
                                  /\ i + 1 = Len(stack) => i = Len(stack')
      /\ \A j \in DOMAIN stack :
            stack[j] = f \/ \E i \in DOMAIN stack' : stack'[i] = stack[j]
      /\ EveryoneWaits' /\ Unasked' \subseteq Unasked /\ CallsFit'
  BY <1>1, <1>2, CallMade
<1>9. \A r \in Requests : Superseded(r)' => Superseded(r)
  <2> SUFFICES ASSUME NEW r \in Requests, Superseded(r)'  PROVE Superseded(r)
    OBVIOUS
  <2>1. CASE \E i \in DOMAIN msgs' : /\ msgs'[i].worker = "session" /\ msgs'[i].req = r
                                     /\ msgs'[i].status = "Superseded"
    <3>1. CASE f.worker = "session" /\ f.req = r
      BY <1>2, <1>4, <3>1 DEF Superseded
    <3>2. CASE ~(f.worker = "session" /\ f.req = r)
      BY <1>5, <1>7, <2>1, <3>2 DEF Superseded
    <3> QED  BY <3>1, <3>2
  <2>2. CASE \E i \in DOMAIN stack' : stack'[i] = PostSuperseded("session", r)
    BY <1>8, <2>2 DEF Superseded
  <2> QED  BY <2>1, <2>2 DEF Superseded
<1>10. Lossless'
  <2> SUFFICES ASSUME Faults = {}, NEW x \in Waits(ui)  PROVE At(x[1], x[2])'
    BY <1>1 DEF Lossless
  <2>1. At(x[1], x[2])  BY <1>2 DEF UiInv, Lossless
  <2>2. CASE \E i \in DOMAIN stack : stack[i] = PostSuperseded(x[1], x[2])
    <3>1. PICK i \in DOMAIN stack : stack[i] = PostSuperseded(x[1], x[2])  BY <2>2
    <3>2. CASE stack[i] = f
      <4>1. f.worker = x[1] /\ f.req = x[2]  BY <3>1, <3>2 DEF PostSuperseded
      <4> QED  BY <1>5, <1>7, <4>1 DEF At
    <3>3. CASE stack[i] # f  BY <1>8, <3>1, <3>3 DEF At
    <3> QED  BY <3>2, <3>3
  <2>3. CASE ~ \E i \in DOMAIN stack : stack[i] = PostSuperseded(x[1], x[2])
    BY <1>1, <1>7, <2>1, <2>3 DEF At
  <2> QED  BY <2>2, <2>3
<1>11. WorkTyped'  BY <1>1 DEF UiInv, WorkTyped
<1>12. Stopped'  BY <1>1, <1>2 DEF UiInv, Stopped, HasWork, Running
<1>13. \A w \in Workers : thread'[w].status # "Superseded"
  BY <1>1 DEF UiInv, Served
<1> QED  BY <1>1, <1>2, <1>8, <1>9, <1>10, <1>11, <1>12, <1>13, MovedKeeps

LEMMA NotifiedKeeps == ASSUME Inv, UiInv, Notifies  PROVE UiInv'
<1> DEFINE w == Head(stack).worker
<1>1. /\ Calling("Notify") /\ WakeUp(w) /\ stack' = Rest
      /\ UNCHANGED <<ui, world, autoFix, quit, pending, order, stopping, msgs>>
  BY DEF Notifies, uiVars
<1>2. /\ stack # <<>> /\ Head(stack).fn = "Notify" /\ Rest = Tail(stack)
      /\ \/ Running
         \/ ~Running /\ quit = "quiescing" /\ stack \in StopSequences
  BY <1>1, WhoCalls
<1>3. /\ w \in Workers /\ Head(stack) = Notify(w) /\ thread \in [Workers -> Threads]
  BY <1>1, CallTyped DEF Inv, WorkersTyped
<1>4. \A v \in Workers :
        /\ thread'[v].req = thread[v].req /\ thread'[v].status = thread[v].status
        /\ \/ thread'[v].pc = thread[v].pc
           \/ thread[v].pc = "asleep" /\ thread'[v].pc = "awake"
  <2>1. thread[w] \in Threads  BY <1>3
  <2> QED  BY <1>1, <1>3, <2>1 DEF WakeUp, Threads
<1>5. /\ \A i \in DOMAIN stack' : /\ i + 1 \in DOMAIN stack
                                  /\ stack'[i] = stack[i + 1]
                                  /\ i + 1 = Len(stack) => i = Len(stack')
      /\ \A j \in DOMAIN stack :
            stack[j] = Head(stack) \/ \E i \in DOMAIN stack' : stack'[i] = stack[j]
      /\ EveryoneWaits' /\ Unasked' \subseteq Unasked
      /\ Running /\ UNCHANGED quit => CallsFit'
  BY <1>1, <1>2, CallMade
<1>6. CallsFit'
  <2>1. CASE Running  BY <1>1, <1>5, <2>1
  <2>2. CASE ~Running /\ quit = "quiescing" /\ stack \in StopSequences
    <3>1. Tail(stack) \in StopSequences  BY <1>2, <2>2, StopsInOrder
    <3> QED  BY <1>1, <1>2, <2>2, <3>1 DEF CallsFit, Running
  <2> QED  BY <1>2, <2>1, <2>2
<1>7. \A r \in Requests : Superseded(r)' => Superseded(r)
  BY <1>1, <1>5 DEF Superseded
<1>8. Lossless'
  <2> SUFFICES ASSUME Faults = {}, Running, NEW x \in Waits(ui)  PROVE At(x[1], x[2])'
    BY <1>1 DEF Lossless, Running
  <2>1. At(x[1], x[2])  BY DEF UiInv, Lossless
  <2>2. x[1] \in Workers  BY WaitsTyped DEF UiInv, Sound
  <2>3. Head(stack) # PostSuperseded(x[1], x[2])  BY <1>2 DEF PostSuperseded
  <2> QED  BY <1>1, <1>4, <1>5, <2>1, <2>2, <2>3 DEF At
<1>9. WorkTyped'  BY <1>1 DEF UiInv, WorkTyped
<1>10. Stopped'
  <2>1. \A v \in Workers : Head(stack) # Stop(v) /\ Head(stack) # Join(v)
    BY <1>2 DEF Stop, Join
  <2> QED  BY <1>1, <1>4, <1>5, <2>1 DEF UiInv, Stopped, HasWork, Running
<1>11. \A v \in Workers : thread'[v].status # "Superseded"
  BY <1>4 DEF UiInv, Served
<1>12. Running' => Running  BY <1>1 DEF Running
<1> QED  BY <1>1, <1>5, <1>6, <1>7, <1>8, <1>9, <1>10, <1>11, <1>12, MovedKeeps

LEMMA StoppedKeeps == ASSUME Inv, UiInv, StopsWorker  PROVE UiInv'
<1> DEFINE w == Head(stack).worker
           none == [a \in Apps |-> NoRequest]
<1>1. /\ Calling("Stop") /\ stack' = <<Notify(w)>> \o Rest
      /\ stopping' = [stopping EXCEPT ![w] = TRUE]
      /\ pending' = [pending EXCEPT ![w] = none]
      /\ order' = IF w = "session" THEN <<>> ELSE order
      /\ UNCHANGED <<ui, world, autoFix, quit, thread, msgs>>
  BY DEF StopsWorker, AfterStopping, uiVars
<1>2. /\ stack # <<>> /\ Head(stack).fn = "Stop" /\ Rest = Tail(stack) /\ ~Running
      /\ quit = "quiescing" /\ stack \in StopSequences
      /\ stack \in Seq(Frames) /\ Head(stack) = stack[1]
  BY <1>1, WhoCalls
<1>3. /\ w \in Workers /\ stopping \in [Workers -> BOOLEAN]
      /\ pending \in [Workers -> [Apps -> Slots]]
  BY <1>1, CallTyped DEF Inv, WorkersTyped
<1>4. /\ stack' \in StopSequences
      /\ \E i \in DOMAIN Tail(stack) : Tail(stack)[i] = Join(w)
  BY <1>1, <1>2, StopsInOrder
<1>5. Notify(w) \in Frames /\ Tail(stack) \in Seq(Frames)  BY <1>2, <1>3, CallsAreFrames
<1>6. /\ \A i \in DOMAIN stack' : stack'[i] = Notify(w)
                                  \/ \E j \in DOMAIN Tail(stack) : stack'[i] = Tail(stack)[j]
      /\ \A j \in DOMAIN Tail(stack) : \E i \in DOMAIN stack' : stack'[i] = Tail(stack)[j]
  <2> DEFINE one == <<Notify(w)>>
  <2>1. one \in Seq(Frames) /\ \A i \in DOMAIN one : one[i] = Notify(w)  BY <1>5
  <2>2. stack' = one \o Tail(stack)  BY <1>1, <1>2
  <2> HIDE DEF one
  <2>3. /\ \A i \in DOMAIN (one \o Tail(stack)) :
             \/ i \in DOMAIN one /\ (one \o Tail(stack))[i] = one[i]
             \/ \E j \in DOMAIN Tail(stack) : i = Len(one) + j
                                /\ (one \o Tail(stack))[i] = Tail(stack)[j]
        /\ \A j \in DOMAIN Tail(stack) :
             /\ Len(one) + j \in DOMAIN (one \o Tail(stack))
             /\ (one \o Tail(stack))[Len(one) + j] = Tail(stack)[j]
    BY <1>5, <2>1, ConcatIs
  <2> QED  BY <2>1, <2>2, <2>3
<1>7. /\ \A i \in DOMAIN Tail(stack) : i + 1 \in DOMAIN stack
                                       /\ Tail(stack)[i] = stack[i + 1]
      /\ \A j \in DOMAIN stack :
            \/ j = 1 /\ stack[j] = Head(stack)
            \/ j - 1 \in DOMAIN Tail(stack) /\ Tail(stack)[j - 1] = stack[j]
  BY <1>2
<1>8. /\ \A i \in DOMAIN stack' : stack'[i] = Notify(w)
                                  \/ \E j \in DOMAIN stack : stack'[i] = stack[j]
      /\ \A j \in DOMAIN stack :
            stack[j] = Head(stack) \/ \E i \in DOMAIN stack' : stack'[i] = stack[j]
  BY <1>6, <1>7
<1>9. EveryoneWaits'
  <2>1. \A o : AsksFor(stack, o) => AsksFor(stack', o)  BY <1>2, <1>8 DEF AsksFor
  <2> QED  BY <1>1, <2>1 DEF UiInv, EveryoneWaits, Live, Outstanding
<1>10. Unasked' \subseteq Unasked
  <2>1. Notify(w).fn # "Ask"  BY DEF Notify
  <2> QED  BY <1>1, <1>8, <2>1 DEF Unasked
<1>11. CallsFit'  BY <1>1, <1>2, <1>4 DEF CallsFit, Running
<1>12. /\ \A a \in Apps : pending'[w][a] = NoRequest
       /\ \A v \in Workers \ {w} : pending'[v] = pending[v] /\ stopping'[v] = stopping[v]
       /\ stopping'[w]
  BY <1>1, <1>3
<1>13. \A a \in Apps : pending'["session"][a] # NoRequest =>
                            pending'["session"][a] = pending["session"][a]
  BY <1>12 DEF Workers
<1>14. \A r \in Requests : Superseded(r)' => Superseded(r)
  <2>1. \A r : Notify(w) # PostSuperseded("session", r)  BY DEF Notify, PostSuperseded
  <2> QED  BY <1>1, <1>8, <2>1 DEF Superseded
<1>15. ~Running' /\ Lossless'  BY <1>1, <1>2 DEF Lossless, Running
<1>16. WorkTyped'
  <2>1. \A v \in Workers, a \in Apps : pending'[v][a] # NoRequest => pending'[v][a].app = a
    BY <1>12 DEF UiInv, WorkTyped
  <2>2. /\ order' \in Seq(Apps) /\ IsInjective(order')
        /\ ToSet(order') = {a \in Apps : pending'["session"][a] # NoRequest}
    <3>1. CASE w = "session"
      <4>1. order' = <<>> /\ DOMAIN order' = {}  BY <1>1, <3>1
      <4>2. ToSet(order') = {} /\ IsInjective(order')  BY <4>1 DEF ToSet, IsInjective
      <4> QED  BY <1>12, <3>1, <4>1, <4>2
    <3>2. CASE w # "session"
      <4>1. order' = order /\ pending'["session"] = pending["session"]
        BY <1>1, <1>12, <3>2 DEF Workers
      <4> QED  BY <4>1 DEF UiInv, WorkTyped
    <3> QED  BY <3>1, <3>2
  <2> QED  BY <1>1, <2>1, <2>2 DEF UiInv, WorkTyped
<1>17. Stopped'
  <2>1. ASSUME NEW v \in Workers
        PROVE  /\ stopping'[v] => ~HasWork(v)'
               /\ stopping'[v] \/ \E i \in DOMAIN stack' : stack'[i] = Stop(v)
               /\ thread'[v].pc = "ended" \/ \E i \in DOMAIN stack' : stack'[i] = Join(v)
    <3>1. Head(stack) # Join(v) /\ (Head(stack) = Stop(v) => v = w)
      BY <1>2 DEF Join, Stop
    <3>2. thread'[v].pc = "ended" \/ \E i \in DOMAIN stack' : stack'[i] = Join(v)
      <4>1. thread[v].pc = "ended" \/ \E i \in DOMAIN stack : stack[i] = Join(v)
        BY <1>2 DEF UiInv, Stopped
      <4> QED  BY <1>1, <1>8, <3>1, <4>1
    <3>3. CASE v = w
      <4>1. stopping'[v] /\ ~HasWork(v)'  BY <1>12, <3>3 DEF HasWork
      <4> QED  BY <3>2, <4>1
    <3>4. CASE v # w
      <4>1. pending'[v] = pending[v] /\ stopping'[v] = stopping[v]  BY <1>12, <3>4
      <4>2. HasWork(v)' <=> HasWork(v)  BY <4>1 DEF HasWork
      <4>3. stopping'[v] \/ \E i \in DOMAIN stack' : stack'[i] = Stop(v)
        BY <1>2, <1>8, <3>1, <3>4, <4>1 DEF UiInv, Stopped
      <4> QED  BY <3>2, <4>1, <4>2, <4>3 DEF UiInv, Stopped
    <3> QED  BY <3>3, <3>4
  <2> QED  BY <1>1, <1>2, <1>15, <2>1 DEF Stopped
<1>18. \A v \in Workers : thread'[v].status # "Superseded"  BY <1>1 DEF UiInv, Served
<1> QED  BY <1>1, <1>9, <1>10, <1>11, <1>13, <1>14, <1>15, <1>16, <1>17, <1>18, MovedKeeps

\* Stop has joined a thread, or the results are drained.
LEMMA EndedKeeps == ASSUME Inv, UiInv, JoinsWorker \/ DrainsResults  PROVE UiInv'
<1> DEFINE f == Head(stack)
<1>1. /\ \/ Calling("Join") /\ thread[f.worker].pc = "ended" /\ msgs' = msgs
         \/ Calling("Drain") /\ msgs' = <<>>
      /\ Quiesces /\ stack' = Rest
      /\ UNCHANGED <<ui, world, autoFix, pending, order, thread, stopping>>
  BY DEF JoinsWorker, DrainsResults, workerVars
<1>2. /\ stack # <<>> /\ f.fn \in {"Join", "Drain"} /\ Rest = Tail(stack) /\ ~Running
      /\ quit = "quiescing" /\ stack \in StopSequences
      /\ stack \in Seq(Frames)
      /\ f.fn = "Join" => Calling("Join") /\ thread[f.worker].pc = "ended" /\ msgs' = msgs
      /\ f.fn = "Drain" => msgs' = <<>>
  <2>1. CASE Calling("Join") /\ thread[f.worker].pc = "ended" /\ msgs' = msgs
    BY <2>1, WhoCalls
  <2>2. CASE Calling("Drain") /\ msgs' = <<>>  BY <2>2, WhoCalls
  <2> QED  BY <1>1, <2>1, <2>2
<1>3. /\ f.fn = "Join" => Tail(stack) \in StopSequences /\ Tail(stack) # <<>>
      /\ f.fn = "Drain" => Tail(stack) = <<>>
  BY <1>2, StopsInOrder
<1>4. /\ f.fn = "Join" => quit' = "quiescing"
      /\ f.fn = "Drain" => quit' = "quiesced"
  BY <1>1, <1>2, <1>3 DEF Quiesces
<1>5. /\ \A i \in DOMAIN stack' : /\ i + 1 \in DOMAIN stack
                                  /\ stack'[i] = stack[i + 1]
                                  /\ i + 1 = Len(stack) => i = Len(stack')
      /\ \A j \in DOMAIN stack :
            stack[j] = f \/ \E i \in DOMAIN stack' : stack'[i] = stack[j]
      /\ EveryoneWaits' /\ Unasked' \subseteq Unasked
  BY <1>1, <1>2, CallMade
<1>6. CallsFit'  BY <1>1, <1>2, <1>3, <1>4 DEF CallsFit, Running
<1>7. \A r \in Requests : Superseded(r)' => Superseded(r)
  <2>1. \A i \in DOMAIN msgs' : i \in DOMAIN msgs /\ msgs'[i] = msgs[i]  BY <1>1
  <2> QED  BY <1>5, <2>1 DEF Superseded
<1>8. ~Running' /\ Lossless'  BY <1>2, <1>4 DEF Lossless, Running
<1>9. WorkTyped'  BY <1>1, <1>2, <1>4 DEF UiInv, WorkTyped
<1>10. Stopped'
  <2>1. ASSUME NEW v \in Workers
        PROVE  /\ stopping'[v] => ~HasWork(v)'
               /\ stopping'[v] \/ \E i \in DOMAIN stack' : stack'[i] = Stop(v)
               /\ thread'[v].pc = "ended" \/ \E i \in DOMAIN stack' : stack'[i] = Join(v)
    <3>1. f # Stop(v) /\ (f = Join(v) => f.fn = "Join" /\ f.worker = v)
      BY <1>2 DEF Join, Stop
    <3>2. HasWork(v)' <=> HasWork(v)  BY <1>1 DEF HasWork
    <3>3. stopping'[v] \/ \E i \in DOMAIN stack' : stack'[i] = Stop(v)
      BY <1>1, <1>2, <1>5, <3>1 DEF UiInv, Stopped
    <3>4. thread'[v].pc = "ended" \/ \E i \in DOMAIN stack' : stack'[i] = Join(v)
      BY <1>1, <1>2, <1>5, <3>1 DEF UiInv, Stopped
    <3> QED  BY <1>1, <3>2, <3>3, <3>4 DEF UiInv, Stopped
  <2>2. quit' = "quiesced" => msgs' = <<>>  BY <1>2, <1>4
  <2> QED  BY <1>8, <2>1, <2>2 DEF Stopped
<1>11. \A v \in Workers : thread'[v].status # "Superseded"  BY <1>1 DEF UiInv, Served
<1>12. \A a \in Apps : pending'["session"][a] = pending["session"][a]  BY <1>1
<1> QED
  BY <1>1, <1>5, <1>6, <1>7, <1>8, <1>9, <1>10, <1>11, <1>12, MovedKeeps

LEMMA QuiescedKeeps == ASSUME Inv, UiInv, QuiesceRuntime  PROVE UiInv'
<1>1. /\ Running /\ stack = <<>> /\ quit' = "quiescing"
      /\ ui' = [ui EXCEPT !.monitor = FALSE] /\ stack' = StopWorkers
      /\ UNCHANGED <<world, autoFix, pending, order, thread, stopping, msgs>>
  BY DEF QuiesceRuntime, Handler, Idle, workerVars
<1>2. ~Running'  BY <1>1 DEF Running
<1>3. /\ Sound(ui', {})
      /\ ui'.phase = ui.phase /\ ui'.session = ui.session /\ ui'.matching = ui.matching
      /\ ui'.routes = ui.routes
  BY <1>1, MonitorSound DEF UiInv
<1>4. /\ stack' \in StopSequences /\ DOMAIN stack' = 1..5
      /\ \E i \in DOMAIN stack' : stack'[i] = Stop("session")
      /\ \E i \in DOMAIN stack' : stack'[i] = Join("session")
      /\ \E i \in DOMAIN stack' : stack'[i] = Stop("reconcile")
      /\ \E i \in DOMAIN stack' : stack'[i] = Join("reconcile")
      /\ \A i \in DOMAIN stack' : stack'[i].fn \in {"Stop", "Join", "Drain"}
  <2>1. /\ stack'[1] = Stop("session") /\ stack'[2] = Join("session")
        /\ stack'[3] = Stop("reconcile") /\ stack'[4] = Join("reconcile")
        /\ stack'[5] = Drain /\ DOMAIN stack' = 1..5
    BY <1>1 DEF StopWorkers
  <2>2. \A w : Stop(w).fn = "Stop" /\ Join(w).fn = "Join"  BY DEF Stop, Join
  <2>3. Drain.fn = "Drain"  BY DEF Drain
  <2>4. 1 \in 1..5 /\ 2 \in 1..5 /\ 3 \in 1..5 /\ 4 \in 1..5 /\ 5 \in 1..5
        /\ \A i \in 1..5 : i \in {1, 2, 3, 4, 5}
    OBVIOUS
  <2>5. stack' \in StopSequences  BY <1>1 DEF StopSequences
  <2> QED  BY <2>1, <2>2, <2>3, <2>4, <2>5
<1>5. EveryoneWaits'
  <2>1. \A o : ~AsksFor(stack, o)  BY <1>1 DEF AsksFor
  <2> QED  BY <1>3, <2>1 DEF UiInv, EveryoneWaits, Live, Outstanding
<1>6. CallsFit'  BY <1>1, <1>4 DEF CallsFit, Running
<1>7. Unasked' \subseteq Unasked  BY <1>3, <1>4 DEF Unasked
<1>8. Served'
  <2>1. \A r : \A i \in DOMAIN stack' : stack'[i] # PostSuperseded("session", r)
    BY <1>4 DEF PostSuperseded
  <2>2. \A r : Superseded(r)' => Superseded(r)  BY <1>1, <2>1 DEF Superseded
  <2> QED  BY <1>1, <1>3, <1>7, <2>2 DEF UiInv, Served
<1>9. Lossless'  BY <1>2 DEF Lossless
<1>10. WorkTyped'  BY <1>1 DEF UiInv, WorkTyped
<1>11. Stopped'
  <2>1. \A v \in Workers : ~stopping[v]  BY <1>1 DEF UiInv, Stopped
  <2>2. \A v \in Workers : v = "session" \/ v = "reconcile"  BY DEF Workers
  <2> QED  BY <1>1, <1>4, <2>1, <2>2 DEF Stopped
<1> QED  BY <1>2, <1>3, <1>5, <1>6, <1>8, <1>9, <1>10, <1>11 DEF UiInv

\* A worker thread takes a step.
LEMMA WorkerMoves ==
    ASSUME Inv, UiInv, NEW w \in Workers, NEW pc, NEW r, NEW status,
           Becomes(w, pc, r, status), status # "Superseded",
           UNCHANGED <<ui, world, autoFix, quit, stopping, stack>>,
           thread[w].pc # "ended", WorkTyped',
           \A a \in Apps : pending'[w][a] = pending[w][a] \/ pending'[w][a] = NoRequest,
           \A v \in Workers \ {w} : pending'[v] = pending[v],
           \A i \in DOMAIN msgs : \E j \in DOMAIN msgs' : msgs'[j] = msgs[i],
           \A j \in DOMAIN msgs' : \/ \E i \in DOMAIN msgs : msgs'[j] = msgs[i]
                                   \/ msgs'[j].status # "Superseded",
           Faults = {} /\ Running => \A q \in Requests : At(w, q) => At(w, q)'
    PROVE  UiInv'
<1>1. /\ \A v \in Workers \ {w} : thread'[v] = thread[v]
      /\ thread'[w].pc = pc /\ thread'[w].req = r /\ thread'[w].status = status
  BY DEF Becomes, Inv, WorkersTyped
<1>2. EveryoneWaits' /\ CallsFit'
  BY DEF UiInv, EveryoneWaits, AsksFor, Live, Outstanding, CallsFit, Running
<1>3. Unasked' \subseteq Unasked  BY DEF Unasked
<1>4. \A q \in Requests : Superseded(q)' => Superseded(q)
  BY DEF Superseded
<1>5. Lossless'
  <2> SUFFICES ASSUME Faults = {}, Running, NEW x \in Waits(ui)  PROVE At(x[1], x[2])'
    BY DEF Lossless, Running
  <2>1. At(x[1], x[2])  BY DEF UiInv, Lossless
  <2>2. x[1] \in Workers /\ x[2] \in Requests  BY WaitsTyped DEF UiInv, Sound
  <2>3. CASE x[1] = w  BY <2>1, <2>2, <2>3
  <2>4. CASE x[1] # w  BY <1>1, <2>1, <2>2, <2>4 DEF At
  <2> QED  BY <2>3, <2>4
<1>6. Stopped'
  <2>1. quit # "quiesced"
    <3>1. quit = "quiesced" => stack = <<>>  BY DEF UiInv, CallsFit
    <3> QED  BY <3>1 DEF UiInv, Stopped, Running
  <2>2. ASSUME NEW v \in Workers
        PROVE  /\ stopping'[v] => ~HasWork(v)' /\ ~Running'
               /\ ~Running' => stopping'[v] \/ \E i \in DOMAIN stack' : stack'[i] = Stop(v)
               /\ ~Running' => thread'[v].pc = "ended"
                               \/ \E i \in DOMAIN stack' : stack'[i] = Join(v)
    <3>1. HasWork(v)' => HasWork(v)  BY DEF HasWork
    <3> QED  BY <1>1, <3>1 DEF UiInv, Stopped, Running
  <2> QED  BY <2>1, <2>2 DEF Stopped
<1>7. \A v \in Workers : thread'[v].status # "Superseded"
  BY <1>1 DEF UiInv, Served
<1>8. \A a \in Apps : pending'["session"][a] # NoRequest =>
                           pending'["session"][a] = pending["session"][a]
  BY DEF Workers
<1>9. Running' => Running  BY DEF Running
<1> QED  BY <1>2, <1>3, <1>4, <1>5, <1>6, <1>7, <1>8, <1>9, MovedKeeps

LEMMA TakenKeeps == ASSUME Inv, UiInv, NEW w \in Workers, TakeRequest(w)  PROVE UiInv'
<1>1. /\ thread[w].pc = "awake" /\ thread[w].pc # "ended"
      /\ UNCHANGED <<ui, world, autoFix, quit, stopping, msgs, stack>>
  BY DEF TakeRequest, uiVars
<1>2. pending \in [Workers -> [Apps -> Slots]] /\ thread \in [Workers -> Threads]
  BY DEF Inv, WorkersTyped
<1>3. \A j \in DOMAIN msgs' : \E i \in DOMAIN msgs : msgs'[j] = msgs[i]  BY <1>1
<1>4. \A i \in DOMAIN msgs : \E j \in DOMAIN msgs' : msgs'[j] = msgs[i]  BY <1>1
<1>5. CASE /\ Becomes(w, IF stopping[w] THEN "ended" ELSE "asleep", NoRequest, "none")
           /\ UNCHANGED <<pending, order>>
  <2>1. WorkTyped'  BY <1>1, <1>5 DEF UiInv, WorkTyped
  <2>2. \A q \in Requests : At(w, q) => At(w, q)'  BY <1>1, <1>5 DEF At
  <2> QED  BY <1>1, <1>3, <1>4, <1>5, <2>1, <2>2, WorkerMoves
<1>6. ASSUME NEW a \in Apps, Chosen(w, a), Becomes(w, "busy", pending[w][a], "none"),
             pending' = [pending EXCEPT ![w][a] = NoRequest],
             order' = IF w = "session" THEN Without(a) ELSE order
      PROVE  UiInv'
  <2>1. /\ pending'[w][a] = NoRequest
        /\ \A b \in Apps \ {a} : pending'[w][b] = pending[w][b]
        /\ \A v \in Workers \ {w} : pending'[v] = pending[v]
    <3>1. pending[w] \in [Apps -> Slots]  BY <1>2
    <3> QED  BY <1>2, <1>6, <3>1
  <2>2. thread'[w].pc = "busy" /\ thread'[w].req = pending[w][a]
    BY <1>2, <1>6 DEF Becomes
  <2>3. \A q \in Requests : At(w, q) => At(w, q)'
    <3> SUFFICES ASSUME NEW q \in Requests, At(w, q)  PROVE At(w, q)'
      OBVIOUS
    <3>1. q.app \in Apps  BY DEF Requests
    <3>2. CASE pending[w][q.app] = q
      <4>1. CASE q.app = a  BY <2>2, <3>2, <4>1 DEF At
      <4>2. CASE q.app # a  BY <2>1, <3>1, <3>2, <4>2 DEF At
      <4> QED  BY <4>1, <4>2
    <3>3. CASE pending[w][q.app] # q  BY <1>1, <3>3 DEF At
    <3> QED  BY <3>2, <3>3
  <2>4. WorkTyped'
    <3>1. \A v \in Workers, b \in Apps : pending'[v][b] # NoRequest => pending'[v][b].app = b
      BY <2>1 DEF UiInv, WorkTyped
    <3>2. /\ order \in Seq(Apps) /\ IsInjective(order)
          /\ ToSet(order) = {b \in Apps : pending["session"][b] # NoRequest}
      BY DEF UiInv, WorkTyped
    <3>3. /\ order' \in Seq(Apps) /\ IsInjective(order')
          /\ ToSet(order') = {b \in Apps : pending'["session"][b] # NoRequest}
      <4>1. CASE w = "session"
        <5> DEFINE line == Without(a)
        <5>1. /\ line \in Seq(Apps) /\ IsInjective(line)
              /\ ToSet(line) = ToSet(order) \ {a}
          BY <3>2, WithoutIs
        <5>2. order' = line  BY <1>6, <4>1
        <5> HIDE DEF line
        <5> QED  BY <2>1, <3>2, <4>1, <5>1, <5>2
      <4>2. CASE w # "session"
        <5>1. order' = order /\ pending'["session"] = pending["session"]
          BY <1>6, <2>1, <4>2 DEF Workers
        <5> QED  BY <3>2, <5>1
      <4> QED  BY <4>1, <4>2
    <3> QED  BY <1>1, <3>1, <3>3 DEF UiInv, WorkTyped
  <2> QED  BY <1>1, <1>3, <1>4, <1>6, <2>1, <2>3, <2>4, WorkerMoves
<1> QED  BY <1>5, <1>6 DEF TakeRequest

LEMMA ProcessedKeeps == ASSUME Inv, UiInv, NEW w \in Workers, ProcessRequest(w)  PROVE UiInv'
<1>1. /\ thread[w].pc = "busy" /\ thread[w].pc # "ended"
      /\ UNCHANGED <<ui, world, autoFix, quit, pending, order, stopping, msgs, stack>>
  BY DEF ProcessRequest, uiVars
<1>2. thread \in [Workers -> Threads]  BY DEF Inv, WorkersTyped
<1>3. \A j \in DOMAIN msgs' : \E i \in DOMAIN msgs : msgs'[j] = msgs[i]  BY <1>1
<1>4. \A i \in DOMAIN msgs : \E j \in DOMAIN msgs' : msgs'[j] = msgs[i]  BY <1>1
<1>5. WorkTyped'  BY <1>1 DEF UiInv, WorkTyped
<1>6. ASSUME NEW status \in Outcomes(w), Becomes(w, "posting", thread[w].req, status)
      PROVE  UiInv'
  <2>1. status # "Superseded"  BY <1>6 DEF Outcomes
  <2>2. thread'[w].pc = "posting" /\ thread'[w].req = thread[w].req
    BY <1>2, <1>6 DEF Becomes
  <2>3. \A q \in Requests : At(w, q) => At(w, q)'  BY <1>1, <2>2 DEF At
  <2> QED  BY <1>1, <1>3, <1>4, <1>5, <1>6, <2>1, <2>3, WorkerMoves
<1>7. CASE /\ stopping[w] \/ (w = "session" /\ "alloc" \in Faults)
           /\ Becomes(w, "awake", NoRequest, "none")
  <2>1. ~(Faults = {} /\ Running)  BY <1>7 DEF UiInv, Stopped
  <2> QED  BY <1>1, <1>3, <1>4, <1>5, <1>7, <2>1, WorkerMoves
<1> QED  BY <1>6, <1>7 DEF ProcessRequest

LEMMA PostingKeeps == ASSUME Inv, UiInv, NEW w \in Workers, PostResult(w)  PROVE UiInv'
<1> DEFINE result == Result(w, thread[w].req, thread[w].status)
<1>1. /\ thread[w].pc = "posting" /\ thread[w].pc # "ended" /\ Post(result)
      /\ Becomes(w, "awake", NoRequest, "none")
      /\ UNCHANGED <<ui, world, autoFix, quit, pending, order, stopping, stack>>
  BY DEF PostResult, uiVars
<1>2. /\ thread \in [Workers -> Threads] /\ msgs \in Seq(Results)
      /\ thread[w].req \in Requests
  BY <1>1 DEF Inv, WorkersTyped
<1>3. result \in Results  BY <1>2 DEF Result, Results, Threads
<1>4. /\ result.worker = w /\ result.req = thread[w].req
      /\ result.status # "Superseded"
  BY DEF Result, UiInv, Served
<1>5. WorkTyped'  BY <1>1 DEF UiInv, WorkTyped
<1> HIDE DEF result
<1>6. /\ \A i \in DOMAIN msgs' : msgs'[i] = result \/ \E j \in DOMAIN msgs : msgs'[i] = msgs[j]
      /\ \A j \in DOMAIN msgs : \E i \in DOMAIN msgs' : msgs'[i] = msgs[j]
      /\ Faults = {} => \E i \in DOMAIN msgs' : msgs'[i] = result
  <2>1. CASE msgs' = Append(msgs, result)
    <3>1. /\ DOMAIN msgs = 1..Len(msgs) /\ DOMAIN msgs' = 1..(Len(msgs) + 1)
          /\ Len(msgs) \in Nat
          /\ msgs'[Len(msgs) + 1] = result
          /\ \A i \in 1..Len(msgs) : msgs'[i] = msgs[i]
      BY <1>2, <1>3, <2>1
    <3> QED  BY <3>1
  <2>2. CASE "post" \in Faults /\ UNCHANGED msgs  BY <2>2
  <2> QED  BY <1>1, <2>1, <2>2 DEF Post
<1>7. Faults = {} => \A q \in Requests : At(w, q) => At(w, q)'
  BY <1>1, <1>4, <1>6 DEF At
<1>8. \A j \in DOMAIN msgs' :
        \/ \E i \in DOMAIN msgs : msgs'[j] = msgs[i]
        \/ msgs'[j].status # "Superseded"
  BY <1>4, <1>6
<1> QED  BY <1>1, <1>5, <1>6, <1>7, <1>8, WorkerMoves

-----------------------------------------------------------------------------
LEMMA BegunKeeps == ASSUME Inv, UiInv, NEW o \in OpIds, Begin(o)  PROVE UiInv'
<1> DEFINE ops == {p \in OpIds : /\ Live(ui, p) /\ KindOf[p] = KindOf[o]
                                 /\ KindOf[o] \in {"save", "restore"}}
           u == Cancel(ui, ops)
           call == Ask(o, AppsOf[o])
<1>1. /\ Handler /\ Running /\ quit = "running" /\ stack = <<>> /\ stack' = <<call>>
      /\ ui.phase[o] = "new"
      /\ ui' = Opened(u, o)
      /\ UNCHANGED <<world, autoFix, quit, pending, order, thread, stopping, msgs>>
  BY DEF Begin, CancelOlder, Opened, Handler, Idle, Running, workerVars
<1>2. /\ Sound(ui, {}) /\ Ticking(ui) /\ ui \in UiStates
      /\ world \in [Apps -> Snapshots]
  BY <1>1 DEF UiInv, WorkTyped, Sound
<1>3. ops \in SUBSET OpIds /\ o \notin ops  BY <1>1 DEF Live
<1>4. u = Cancel(ui, ops)  OBVIOUS
<1>5. AppsOf[o] \in SUBSET Apps  BY PipelineAssumption
<1>6. call.fn = "Ask" /\ call.op = o /\ call.apps = AppsOf[o] /\ call \in Frames
  BY <1>5, CallsAreFrames DEF Ask
<1>7. \A r : call # PostSuperseded("session", r)
  BY <1>6 DEF PostSuperseded
<1> HIDE DEF ops, u, call
<1>8. /\ Sound(u, {}) /\ Winds(ui, u)
      /\ \A p \in ops : Over(u, p)
      /\ \A p \in OpIds \ ops : Same(ui, u, p)
  BY <1>2, <1>3, <1>4, CancelSound
<1>9. u.phase[o] = "new" /\ u \in UiStates  BY <1>1, <1>3, <1>8 DEF Same, Sound
<1>10. /\ Sound(ui', {}) /\ Live(ui', o)
       /\ \A p \in OpIds \ {o} : ui'.phase[p] = u.phase[p]
       /\ ui'.session = u.session /\ ui'.matching = u.matching /\ ui'.mode = u.mode
       /\ ui'.gate = u.gate /\ ui'.routes = u.routes /\ ui'.monitor = u.monitor
       /\ ui'.due = u.due
  BY <1>1, <1>2, <1>8, <1>9, OpBegins
<1>11. Less(ui, u) /\ Ticking(u)  BY <1>2, <1>8, <1>9, WindsLess, TickingKept
<1>12. Ticking(ui')  BY <1>10, <1>11 DEF Ticking
<1>13. Waits(ui') \subseteq Waits(ui)
  <2>1. Waits(ui') = Waits(u)  BY <1>10 DEF Waits
  <2> QED  BY <1>11, <2>1 DEF Less
<1>14. DOMAIN stack' = {1} /\ Len(stack') = 1 /\ stack'[1] = call  BY <1>1, <1>6
<1>15. AskFits(ui', call)
  <2>1. \A a \in Apps : u.gate[a] # o  BY <1>8, <1>9 DEF Sound
  <2>2. Outstanding(u, o) = {}  BY <1>8, <1>9 DEF Sound, Live
  <2> QED  BY <1>5, <1>6, <1>10, <2>1, <2>2 DEF AskFits, Outstanding
<1>16. EveryoneWaits'
  <2> SUFFICES ASSUME NEW p \in OpIds, Live(ui', p)
               PROVE  Outstanding(ui', p) # {} \/ AsksFor(stack', p)
    BY DEF EveryoneWaits, AsksFor
  <2>1. CASE p = o  BY <1>6, <1>14, <2>1 DEF AsksFor
  <2>2. CASE p # o
    <3>1. Live(u, p) /\ p \notin ops  BY <1>8, <1>10, <2>2 DEF Live, Over
    <3>2. Same(ui, u, p)  BY <1>8, <3>1
    <3>3. ~AsksFor(stack, p)  BY <1>1 DEF AsksFor
    <3> QED  BY <1>10, <3>1, <3>2, <3>3 DEF UiInv, EveryoneWaits, Same, Live, Outstanding
  <2> QED  BY <2>1, <2>2
<1>17. CallsFit'  BY <1>1, <1>6, <1>14, <1>15 DEF CallsFit, Running
<1>18. Unasked' \subseteq Unasked
  <2> SUFFICES ASSUME NEW r \in Unasked'  PROVE ui.phase[r[1]] = "new"
    BY DEF Unasked
  <2>1. r[1] \in OpIds  BY DEF Unasked, Pairs
  <2>2. CASE ui'.phase[r[1]] = "new"
    <3>1. r[1] # o  BY <1>10, <2>2 DEF Live
    <3> QED  BY <1>8, <1>10, <2>1, <2>2, <3>1 DEF Winds
  <2>3. CASE r[1] = o  BY <1>1, <2>3
  <2> QED  BY <1>6, <1>14, <2>2, <2>3 DEF Unasked
<1>19. Served'
  <2>1. \A r : Superseded(r)' => Superseded(r)  BY <1>1, <1>7, <1>14 DEF Superseded
  <2>2. ui'.routes \subseteq ui.routes  BY <1>8, <1>10 DEF Winds
  <2> QED  BY <1>1, <1>18, <2>1, <2>2 DEF UiInv, Served
<1>20. Lossless'
  <2> SUFFICES ASSUME Faults = {}, NEW x \in Waits(ui')  PROVE At(x[1], x[2])'
    BY DEF Lossless
  <2>1. x \in Waits(ui)  BY <1>13
  <2>2. At(x[1], x[2])  BY <1>1, <2>1 DEF UiInv, Lossless
  <2> QED  BY <1>1, <2>2 DEF At
<1>21. WorkTyped'  BY <1>1 DEF UiInv, WorkTyped
<1>22. Stopped'  BY <1>1 DEF UiInv, Stopped, HasWork, Running
<1> QED  BY <1>10, <1>12, <1>16, <1>17, <1>19, <1>20, <1>21, <1>22 DEF UiInv

LEMMA UiBegins == Init => UiInv
<1> SUFFICES ASSUME Init  PROVE UiInv
  OBVIOUS
<1>1. Unseen \in [Apps -> Snapshots] /\ \A a \in Apps : Unseen[a].set <= Unseen[a].content
  BY PipelineAssumption DEF Unseen, Snapshots
<1>2. /\ ui.phase = [o \in OpIds |-> "new"] /\ ui.captured = [o \in OpIds |-> Unseen]
      /\ ui.session = [o \in OpIds |-> {}] /\ ui.matching = [o \in OpIds |-> {}]
      /\ ui.mode = [o \in OpIds |-> "none"] /\ ui.gate = [a \in Apps |-> NoOp]
      /\ ui.routes = {} /\ ui.due = [o \in OpIds |-> 0] /\ ui.monitor = TRUE
      /\ ui.published = {} /\ ui.writing = {} /\ ui.got = [o \in OpIds |-> Ungot]
      /\ world = Unseen /\ autoFix = TRUE /\ quit = "running" /\ order = <<>>
      /\ pending = [w \in Workers |-> [a \in Apps |-> NoRequest]]
      /\ thread = [w \in Workers |-> [pc |-> "awake", req |-> NoRequest, status |-> "none"]]
      /\ stopping = [w \in Workers |-> FALSE]
      /\ msgs = <<>> /\ stack = <<>>
  BY DEF Init
<1>3. ui \in UiStates
  <2>1. /\ [o \in OpIds |-> "new"] \in [OpIds -> {"new", "live", "ended"}]
        /\ [o \in OpIds |-> Unseen] \in [OpIds -> [Apps -> Snapshots]]
        /\ [o \in OpIds |-> {}] \in [OpIds -> SUBSET Apps]
        /\ [o \in OpIds |-> "none"] \in [OpIds -> Modes]
        /\ [a \in Apps |-> NoOp] \in [Apps -> OpIds \cup {NoOp}]
        /\ [o \in OpIds |-> 0] \in [OpIds -> Nat]
        /\ [o \in OpIds |-> Ungot] \in [OpIds -> [Apps -> Had]]
    BY <1>1 DEF Modes, Ungot, Had, Gains
  <2> QED  BY <2>1 DEF Init, UiStates
<1>4. Sound(ui, {})
  <2>1. \A o \in OpIds : NoOp # o  BY PipelineAssumption
  <2>2. \A o \in OpIds : /\ ui.session[o] = {} /\ ui.matching[o] = {} /\ ui.due[o] = 0
                         /\ ui.phase[o] = "new"
    BY <1>2
  <2>3. Cardinality({}) = 0  BY FS_EmptySet
  <2>4. \A a \in Apps : ui.gate[a] = NoOp  BY <1>2
  <2> QED  BY <1>2, <1>3, <2>1, <2>2, <2>3, <2>4 DEF Sound, Outstanding, Live
<1>5. Ticking(ui)  BY <1>2 DEF Ticking
<1>6. EveryoneWaits  BY <1>2 DEF EveryoneWaits, Live
<1>7. CallsFit  BY <1>2 DEF CallsFit
<1>8. Served
  <2>1. \A r : ~Superseded(r)  BY <1>2 DEF Superseded
  <2>2. \A w \in Workers, a \in Apps : pending[w][a] = NoRequest  BY <1>2
  <2> QED  BY <1>2, <2>1, <2>2 DEF Served, Workers
<1>9. Lossless
  <2>1. \A q : <<"session", q>> \notin Waits(ui) /\ <<"reconcile", q>> \notin Waits(ui)
    BY <1>2, <1>3, WaitsAre
  <2>2. \A x \in Waits(ui) : \E q : x = <<"session", q>> \/ x = <<"reconcile", q>>
    BY DEF Waits
  <2> QED  BY <2>1, <2>2 DEF Lossless
<1>10. WorkTyped
  <2>1. \A w \in Workers, a \in Apps : pending[w][a] = NoRequest  BY <1>2
  <2>2. /\ order \in Seq(Apps) /\ DOMAIN order = {}  BY <1>2
  <2>3. ToSet(order) = {} /\ IsInjective(order)  BY <2>2 DEF ToSet, IsInjective
  <2> QED  BY <1>1, <1>2, <2>1, <2>2, <2>3 DEF WorkTyped, Workers
<1>11. Stopped  BY <1>2 DEF Stopped, Running
<1> QED  BY <1>4, <1>5, <1>6, <1>7, <1>8, <1>9, <1>10, <1>11 DEF UiInv

LEMMA StepKeepsUi == Inv /\ UiInv /\ [Next]_vars => UiInv'
<1> SUFFICES ASSUME Inv, UiInv, [Next]_vars  PROVE UiInv'
  OBVIOUS
<1>1. CASE HandlerStep
  BY <1>1, AskKeepsUi, PostedKeeps, NotifiedKeeps, WritingKeeps DEF HandlerStep
<1>2. CASE StopStep  BY <1>2, StoppedKeeps, EndedKeeps DEF StopStep
<1>3. CASE HandleSessionResult  BY <1>3, SessionResultKeeps
<1>4. CASE HandleReconcileResult  BY <1>4, ReconcileResultKeeps
<1>5. ASSUME NEW o \in OpIds, Begin(o)  PROVE UiInv'  BY <1>5, BegunKeeps
<1>6. ASSUME NEW old \in SUBSET InGate, NEW late \in SUBSET Counted,
             RunMonitorTick(old, late)
      PROVE  UiInv'
  BY <1>6, TickKeeps
<1>7. CASE ApplyAutoFix  BY <1>7, SwitchKeeps
<1>8. CASE QuiesceRuntime  BY <1>8, QuiescedKeeps
<1>9. ASSUME NEW w \in Workers, WorkerStep(w)  PROVE UiInv'
  BY <1>9, TakenKeeps, ProcessedKeeps, PostingKeeps DEF WorkerStep
<1>10. ASSUME NEW a \in Apps, NEW step \in {0, 1}, WindowsChange(a, step)  PROVE UiInv'
  BY <1>10, WorldKeeps
<1>11. CASE UNCHANGED vars
  <2>1. /\ UNCHANGED <<ui, quit, pending, order, thread, stopping, msgs, stack>>
        /\ UNCHANGED <<world, autoFix>>
    BY <1>11 DEF vars, uiVars, workerVars
  <2>2. WorkTyped'  BY <2>1 DEF UiInv, WorkTyped
  <2> QED  BY <2>1, <2>2, ElseKeeps
<1>12. CASE Exited  BY <1>11, <1>12 DEF Exited
<1> QED
  BY <1>1, <1>2, <1>3, <1>4, <1>5, <1>6, <1>7, <1>8, <1>9, <1>10, <1>11, <1>12 DEF Next

-----------------------------------------------------------------------------
\* What the UI thread keeps agrees with itself, with what the workers hold and
\* with what the handlers still have to call, in every reachable state.
THEOREM UiInvariant == Spec => []UiInv
<1>1. Inv /\ UiInv /\ [Next]_vars => UiInv'  BY StepKeepsUi
<1> QED  BY UiBegins, <1>1, PipelineInvariant, PTL DEF Spec

\* Every request is answered or can be timed out: none that is waited for is
\* lost on its way, and the timer that would expire it runs (Request,
\* ProcessQueued, PostIfRunning, KillTimer(TIMER_MONITOR)).
THEOREM RequestsAreAnsweredAlways == Spec => []RequestsAreAnswered
<1>1. UiInv => MonitorRuns  BY DEF UiInv, MonitorRuns, Handler, Ticking
<1>2. UiInv => NoRequestIsLost
  <2> SUFFICES ASSUME UiInv, Faults = {}, Handler, NEW o \in OpIds
               PROVE  /\ \A a \in ui.session[o] : Somewhere("session", o, a)
                      /\ \A a \in ui.matching[o] : Somewhere("reconcile", o, a)
    BY DEF NoRequestIsLost
  <2>1. ui \in UiStates /\ stack = <<>> /\ Running
    BY DEF UiInv, Sound, Handler, Idle
  <2>2. \A x \in Waits(ui) : At(x[1], x[2])  BY <2>1 DEF UiInv, Lossless
  <2>3. \A w, q : At(w, q) => Somewhere(w, q.op, q.app)
    BY <2>1 DEF At, Somewhere
  <2>4. \A w, q : <<w, q>> \in Waits(ui) => Somewhere(w, q.op, q.app)
    BY <2>2, <2>3
  <2>5. \A mode, a : Request(o, a, mode).op = o /\ Request(o, a, mode).app = a
    BY DEF Request
  <2>6. ASSUME NEW a \in ui.session[o]  PROVE Somewhere("session", o, a)
    <3>1. <<"session", Request(o, a, "none")>> \in Waits(ui)  BY <2>1, WaitsAre
    <3> QED  BY <2>4, <2>5, <3>1
  <2>7. ASSUME NEW a \in ui.matching[o]  PROVE Somewhere("reconcile", o, a)
    <3>1. <<"reconcile", Request(o, a, ui.mode[o])>> \in Waits(ui)  BY <2>1, WaitsAre
    <3> QED  BY <2>4, <2>5, <3>1
  <2> QED  BY <2>6, <2>7
<1> QED  BY <1>1, <1>2, UiInvariant, PTL DEF RequestsAreAnswered

\* The worker never refuses in favour of an abandoned request what a manual
\* save or restore waits for, since its priority is the highest there is and
\* a displaced request has lost its route (SessionWorker::Request,
\* HandleManualSaveSessionResult).
THEOREM ManualWorkIsServedAlways == Spec => []ManualWorkIsServed
<1>1. Inv /\ UiInv => ManualWorkIsServed
  <2> SUFFICES ASSUME Inv, UiInv, NEW i \in DOMAIN msgs, msgs[i].worker = "session",
                      msgs[i].status = "Superseded",
                      <<msgs[i].req.op, msgs[i].req.app>> \in ui.routes
               PROVE  KindOf[msgs[i].req.op] \notin {"save", "restore"}
    BY DEF ManualWorkIsServed
  <2>1. msgs[i].req \in Requests
    <3>1. msgs[i] \in Results  BY DEF Inv, WorkersTyped
    <3> QED  BY <3>1 DEF Results
  <2>2. Superseded(msgs[i].req)  BY DEF Superseded
  <2> QED  BY <2>1, <2>2 DEF UiInv, Served
<1> QED  BY <1>1, PipelineInvariant, UiInvariant, PTL

\* When the program is quiesced no thread runs, nothing is pending and no
\* result is left that nobody would free (StopWorkers,
\* DrainPostedSessionResults).
THEOREM StopLeavesNothingAlways == Spec => []StopLeavesNothing
<1>1. UiInv => StopLeavesNothing
  <2> SUFFICES ASSUME UiInv, quit = "quiesced"
               PROVE  /\ msgs = <<>>
                      /\ \A w \in Workers : thread[w].pc = "ended" /\ ~HasWork(w)
    BY DEF StopLeavesNothing
  <2>1. stack = <<>> /\ ~Running  BY DEF UiInv, CallsFit, Running
  <2>2. "session" \in Workers  BY DEF Workers
  <2> QED  BY <2>1, <2>2 DEF UiInv, Stopped
<1> QED  BY <1>1, UiInvariant, PTL

-----------------------------------------------------------------------------
(* What a manual save has gathered when it is written. *)

Answered == {"Prepared", "CachedStale", "Unavailable"}

\* The pairs that a call on the stack will still ask for.
ToAsk(s) == {r \in Pairs : \E i \in DOMAIN s : /\ s[i].fn = "Ask" /\ s[i].op = r[1]
                                               /\ r[2] \in s[i].apps}

\* Each application of a save has answered, is waited for or is still to be
\* asked for.
Gathered(u, asked) ==
    \A o \in OpIds :
        /\ ~Live(u, o) => u.got[o] = Ungot
        /\ Live(u, o) /\ KindOf[o] = "save" =>
             \A a \in AppsOf[o] : \/ a \in Outstanding(u, o) \/ <<o, a>> \in asked
                                  \/ u.got[o][a] \in Answered

Known(u) == \A o \in OpIds, a \in Apps : u.got[o][a] \in Answered \cup {"nothing"}

Complete(drafts) ==
    /\ \A s, t \in drafts : s = t
    /\ \A s \in drafts : \A a \in AppsOf[s.op] : s.got[a] \in Answered

\* What the session worker may answer.
SessionAnswers ==
    /\ thread["session"].pc = "posting" => thread["session"].status \in Outcomes("session")
    /\ \A i \in DOMAIN msgs : msgs[i].worker = "session" =>
            msgs[i].status \in Outcomes("session") \cup {"Superseded"}

Gathering == /\ Running => Gathered(ui, ToAsk(stack))
             /\ Known(ui) /\ Complete(ui.writing)
             /\ ui.writing # {} => Running /\ Idle

SavesInv == Gathering /\ SessionAnswers

\* From u to v an operation has ended, or has lost nothing of what it has got
\* or, if it is a save, waits for.
Keeps(u, v) ==
    /\ v \in UiStates /\ v.writing = u.writing
    /\ \A o \in OpIds :
        \/ v.phase[o] = "ended" /\ v.got[o] = Ungot
        \/ /\ v.phase[o] = u.phase[o] /\ v.got[o] = u.got[o]
           /\ Live(u, o) /\ KindOf[o] = "save" =>
                Outstanding(u, o) \subseteq Outstanding(v, o)

LEMMA KeepsTwice ==
    ASSUME NEW u, NEW v, NEW w, Keeps(u, v), Keeps(v, w)
    PROVE  Keeps(u, w)
BY DEF Keeps, Live

LEMMA KeepsGathered ==
    ASSUME NEW u \in UiStates, NEW v, Keeps(u, v), NEW asked
    PROVE  /\ Gathered(u, asked) => Gathered(v, asked)
           /\ Known(u) => Known(v)
<1>1. ASSUME Known(u)  PROVE Known(v)
  <2>1. \A a \in Apps : Ungot[a] = "nothing"  BY DEF Ungot
  <2> QED  BY <1>1, <2>1 DEF Keeps, Known
<1>2. ASSUME Gathered(u, asked)  PROVE Gathered(v, asked)
  <2> SUFFICES ASSUME NEW o \in OpIds
               PROVE  /\ ~Live(v, o) => v.got[o] = Ungot
                      /\ Live(v, o) /\ KindOf[o] = "save" =>
                           \A a \in AppsOf[o] : \/ a \in Outstanding(v, o)
                                                \/ <<o, a>> \in asked
                                                \/ v.got[o][a] \in Answered
    BY DEF Gathered
  <2>1. CASE v.phase[o] = "ended" /\ v.got[o] = Ungot  BY <2>1 DEF Live
  <2>2. CASE /\ v.phase[o] = u.phase[o] /\ v.got[o] = u.got[o]
             /\ Live(u, o) /\ KindOf[o] = "save" =>
                  Outstanding(u, o) \subseteq Outstanding(v, o)
    BY <1>2, <2>2 DEF Gathered, Live
  <2> QED  BY <2>1, <2>2 DEF Keeps
<1> QED  BY <1>1, <1>2

LEMMA EndsKeep ==
    ASSUME NEW u \in UiStates, NEW ops \in SUBSET OpIds
    PROVE  Keeps(u, Close(u, ops)) /\ Keeps(u, Cancel(u, ops))
<1>1. ASSUME NEW v \in UiStates  PROVE Keeps(v, Close(v, ops))
  <2> DEFINE w == Close(v, ops)
  <2>1. /\ w \in UiStates /\ w.writing = v.writing
        /\ \A o \in OpIds :
             /\ w.phase[o] = IF o \in ops THEN "ended" ELSE v.phase[o]
             /\ w.session[o] = IF o \in ops THEN {} ELSE v.session[o]
             /\ w.matching[o] = IF o \in ops THEN {} ELSE v.matching[o]
             /\ w.got[o] = IF o \in ops THEN Ungot ELSE v.got[o]
    BY CloseFields
  <2> HIDE DEF w
  <2>2. Keeps(v, w)  BY <2>1 DEF Keeps, Outstanding
  <2> QED  BY <2>2 DEF w
<1>2. Keeps(u, RetireSessionRoutesForOperation(u, ops))
  <2> DEFINE w == RetireSessionRoutesForOperation(u, ops)
  <2>1. /\ w \in UiStates /\ w.writing = u.writing /\ w.phase = u.phase /\ w.got = u.got
        /\ w.session = u.session /\ w.matching = u.matching
    BY RetireFields
  <2> HIDE DEF w
  <2>2. Keeps(u, w)  BY <2>1 DEF Keeps, Outstanding
  <2> QED  BY <2>2 DEF w
<1>3. RetireSessionRoutesForOperation(u, ops) \in UiStates  BY <1>2 DEF Keeps
<1>4. Keeps(RetireSessionRoutesForOperation(u, ops), Cancel(u, ops))
  BY <1>1, <1>3 DEF Cancel
<1> QED  BY <1>1, <1>2, <1>4, KeepsTwice

LEMMA UnrouteKeeps ==
    ASSUME NEW u \in UiStates, NEW old  PROVE Keeps(u, Unroute(u, old))
<1> DEFINE w == Unroute(u, old)
<1>1. /\ w \in UiStates /\ w.writing = u.writing /\ w.phase = u.phase /\ w.got = u.got
      /\ w.session = u.session /\ w.matching = u.matching
  BY UnrouteFields
<1> HIDE DEF w
<1>2. Keeps(u, w)  BY <1>1 DEF Keeps, Outstanding
<1> QED  BY <1>2 DEF w

\* Only a search goes on without an application.
LEMMA LeaveKeeps ==
    ASSUME NEW u \in UiStates, NEW o \in OpIds, NEW a, KindOf[o] # "save"
    PROVE  Keeps(u, Leave(u, {<<o, a>>}))
<1> DEFINE given == {<<o, a>>}
           w == Leave(u, given)
<1>2. \A p \in OpIds : \A b : <<p, b>> \in given => p = o  OBVIOUS
<1> HIDE DEF given
<1>1. /\ w \in UiStates /\ w.writing = u.writing /\ w.phase = u.phase /\ w.got = u.got
      /\ \A p \in OpIds : /\ w.session[p] = {b \in u.session[p] : <<p, b>> \notin given}
                          /\ w.matching[p] = {b \in u.matching[p] : <<p, b>> \notin given}
  BY LeaveFields
<1> HIDE DEF w
<1>3. Keeps(u, w)  BY <1>1, <1>2 DEF Keeps, Outstanding
<1> QED  BY <1>3 DEF w, given

\* A save that loses a route ends.
LEMMA RetiresKeep ==
    ASSUME NEW u \in UiStates, NEW old
    PROVE  Keeps(u, RetireAsyncSessionOperation(u, old))
<1> DEFINE losers == {o \in OpIds : Live(u, o) /\ \E a \in Apps : <<o, a>> \in old}
           over == {o \in losers : KindOf[o] = "search" =>
                                     \A a \in Outstanding(u, o) : <<o, a>> \in old}
           cancelled == {o \in losers : KindOf[o] \in {"auto", "save", "restore"}}
           mid == RetireSessionRoutesForOperation(u, cancelled)
           left == Leave(mid, old)
           v == Close(left, over)
<1>1. v = RetireAsyncSessionOperation(u, old)  BY DEF RetireAsyncSessionOperation
<1>2. over \in SUBSET OpIds /\ cancelled \in SUBSET OpIds  OBVIOUS
<1>3. \A o \in OpIds : Live(u, o) /\ KindOf[o] = "save" /\ o \notin over =>
            \A a \in Apps : <<o, a>> \notin old
  OBVIOUS
<1> HIDE DEF over, cancelled, losers
<1>4. /\ mid \in UiStates /\ mid.writing = u.writing /\ mid.phase = u.phase
      /\ mid.got = u.got /\ mid.session = u.session /\ mid.matching = u.matching
  BY <1>2, RetireFields
<1> HIDE DEF mid
<1>5. /\ left \in UiStates /\ left.writing = mid.writing /\ left.phase = mid.phase
      /\ left.got = mid.got
      /\ \A o \in OpIds : /\ left.session[o] = {a \in mid.session[o] : <<o, a>> \notin old}
                          /\ left.matching[o] = {a \in mid.matching[o] : <<o, a>> \notin old}
  BY <1>4, LeaveFields
<1> HIDE DEF left
<1>6. /\ v \in UiStates /\ v.writing = left.writing
      /\ \A o \in OpIds :
           /\ v.phase[o] = IF o \in over THEN "ended" ELSE left.phase[o]
           /\ v.session[o] = IF o \in over THEN {} ELSE left.session[o]
           /\ v.matching[o] = IF o \in over THEN {} ELSE left.matching[o]
           /\ v.got[o] = IF o \in over THEN Ungot ELSE left.got[o]
  BY <1>2, <1>5, CloseFields
<1> HIDE DEF v
<1>7. \A o \in OpIds : u.session[o] \subseteq Apps /\ u.matching[o] \subseteq Apps
  BY DEF UiStates
<1>8. ASSUME NEW o \in OpIds, o \notin over, Live(u, o), KindOf[o] = "save"
      PROVE  Outstanding(u, o) \subseteq Outstanding(v, o)
  BY <1>3, <1>4, <1>5, <1>6, <1>7, <1>8 DEF Outstanding
<1>9. Keeps(u, v)  BY <1>4, <1>5, <1>6, <1>8 DEF Keeps
<1> QED  BY <1>1, <1>9

LEMMA SettlesKeep ==
    ASSUME NEW u \in UiStates
    PROVE  /\ \A o \in OpIds : Keeps(u, Settle(u, o))
           /\ Keeps(u, KillMonitorIfIdle(u)) /\ Keeps(u, Finally(u)) /\ Keeps(u, u)
<1>1. Keeps(u, u)  BY DEF Keeps
<1>2. \A o \in OpIds : Keeps(u, Settle(u, o))  BY <1>1, EndsKeep DEF Settle
<1>3. Keeps(u, [u EXCEPT !.monitor = FALSE])  BY DEF Keeps, UiStates, Outstanding
<1>4. Keeps(u, KillMonitorIfIdle(u))  BY <1>1, <1>3 DEF KillMonitorIfIdle
<1> QED  BY <1>1, <1>2, <1>4 DEF Finally

\* A request for a matching.
LEMMA MatchingKeepsSaves ==
    ASSUME NEW u \in UiStates, NEW o \in OpIds, NEW a \in Apps, NEW mode,
           RequestReconcileWork(u, o, a, mode), ui' \in UiStates
    PROVE  Keeps(u, ui')
<1>1. CASE ui' = Finally(MatchRefused(u, o, a))
  <2> DEFINE v == MatchRefused(u, o, a)
  <2>1. Keeps(u, v)
    <3>1. CASE KindOf[o] = "search"
      <4>1. Keeps(u, Leave(u, {<<o, a>>}))  BY <3>1, LeaveKeeps
      <4>2. Leave(u, {<<o, a>>}) \in UiStates  BY <4>1 DEF Keeps
      <4>3. Keeps(Leave(u, {<<o, a>>}), Settle(Leave(u, {<<o, a>>}), o))
        BY <4>2, SettlesKeep
      <4> QED  BY <3>1, <4>1, <4>3, KeepsTwice DEF MatchRefused
    <3>2. CASE KindOf[o] # "search"  BY <3>2, EndsKeep DEF MatchRefused
    <3> QED  BY <3>1, <3>2
  <2>2. v \in UiStates  BY <2>1 DEF Keeps
  <2> HIDE DEF v
  <2>3. Keeps(v, Finally(v))  BY <2>2, SettlesKeep
  <2>4. ui' = Finally(v)  BY <1>1 DEF v
  <2> QED  BY <2>1, <2>3, <2>4, KeepsTwice
<1>2. CASE ui' = Matches(u, o, a, mode)
  <2>1. /\ ui'.writing = u.writing /\ ui'.phase = u.phase /\ ui'.got = u.got
        /\ ui'.session = [u.session EXCEPT ![o] = @ \ {a}]
        /\ ui'.matching = [u.matching EXCEPT ![o] = @ \cup {a}]
    BY <1>2 DEF Matches, BeginDeadline, UiStates
  <2>2. \A p \in OpIds : Outstanding(u, p) \subseteq Outstanding(ui', p)
    BY <2>1 DEF Outstanding, UiStates
  <2> QED  BY <2>1, <2>2 DEF Keeps
<1> QED  BY <1>1, <1>2 DEF RequestReconcileWork, Matches

\* A save is written when every application has answered.
LEMMA FinishCompletes ==
    ASSUME NEW u \in UiStates, NEW o \in OpIds, Live(u, o), KindOf[o] = "save",
           Gathered(u, {}), Known(u), u.writing = {},
           NEW v, v = FinishManualSave(u, o)
    PROVE  v \in UiStates /\ Gathered(v, {}) /\ Known(v) /\ Complete(v.writing)
<1>1. CASE Outstanding(u, o) # {}
  <2>1. v = u  BY <1>1 DEF FinishManualSave
  <2> QED  BY <2>1 DEF Complete
<1>2. CASE Outstanding(u, o) = {}
  <2> DEFINE mid == Close(u, {o})
             draft == [op |-> o, windows |-> u.captured[o], got |-> u.got[o]]
             new == IF \A a \in Apps : Current(u, o, a) THEN mid.writing \cup {draft}
                    ELSE mid.writing
  <2>1. v = [mid EXCEPT !.writing = new]  BY <1>2 DEF FinishManualSave
  <2>2. {o} \in SUBSET OpIds  OBVIOUS
  <2>3. Keeps(u, mid)  BY <2>2, EndsKeep
  <2>4. mid \in UiStates /\ mid.writing = {} /\ Gathered(mid, {}) /\ Known(mid)
    BY <2>3, KeepsGathered DEF Keeps
  <2>5. draft \in Drafts  BY DEF Drafts, UiStates
  <2>6. \A a \in AppsOf[o] : draft.got[a] \in Answered  BY <1>2 DEF Gathered
  <2>7. draft.op = o  OBVIOUS
  <2> HIDE DEF draft
  <2>8. new \in SUBSET Drafts /\ (new = {} \/ new = {draft})  BY <2>4, <2>5
  <2> HIDE DEF new, mid
  <2>9. /\ v \in UiStates /\ v.writing = new /\ v.phase = mid.phase /\ v.got = mid.got
        /\ v.session = mid.session /\ v.matching = mid.matching
    BY <2>1, <2>4, <2>8 DEF UiStates
  <2>10. Gathered(v, {}) /\ Known(v)
    BY <2>4, <2>9 DEF Gathered, Known, Live, Outstanding
  <2>11. Complete(v.writing)  BY <2>6, <2>7, <2>8, <2>9 DEF Complete
  <2> QED  BY <2>9, <2>10, <2>11
<1> QED  BY <1>1, <1>2

\* What an application has answered is one more of the save's.
LEMMA GainGathers ==
    ASSUME NEW u \in UiStates, NEW o \in OpIds, NEW a \in Apps, Live(u, o),
           Gathered(u, {<<o, a>>}), Known(u), NEW what \in Answered,
           NEW v, v = Gain(u, o, a, what)
    PROVE  /\ v \in UiStates /\ Gathered(v, {}) /\ Known(v) /\ Live(v, o)
           /\ v.writing = u.writing
<1>1. what \in Had  BY DEF Had, Gains, Answered
<1>2. /\ v \in UiStates /\ v.writing = u.writing
      /\ v.phase = u.phase /\ v.session = u.session /\ v.matching = u.matching
      /\ v.got[o][a] = what
      /\ \A p \in OpIds, b \in Apps : p # o \/ b # a => v.got[p][b] = u.got[p][b]
      /\ \A p \in OpIds \ {o} : v.got[p] = u.got[p]
  BY <1>1, GainFields
<1>3. Known(v)
  <2> SUFFICES ASSUME NEW p \in OpIds, NEW b \in Apps
               PROVE  v.got[p][b] \in Answered \cup {"nothing"}
    BY DEF Known
  <2>1. CASE p = o /\ b = a  BY <1>2, <2>1
  <2>2. CASE p # o \/ b # a  BY <1>2, <2>2 DEF Known
  <2> QED  BY <2>1, <2>2
<1>4. Live(v, o)  BY <1>2 DEF Live
<1>5. ASSUME NEW p \in OpIds, ~Live(v, p)  PROVE v.got[p] = Ungot
  BY <1>2, <1>4, <1>5 DEF Gathered, Live
<1>6. ASSUME NEW p \in OpIds, Live(v, p), KindOf[p] = "save", NEW b \in AppsOf[p]
      PROVE  b \in Outstanding(v, p) \/ v.got[p][b] \in Answered
  <2>1. b \in Apps  BY PipelineAssumption
  <2>2. Live(u, p) /\ Outstanding(v, p) = Outstanding(u, p)
    BY <1>2, <1>6 DEF Live, Outstanding
  <2>3. CASE p = o /\ b = a  BY <1>2, <2>3
  <2>4. CASE p # o \/ b # a
    <3>1. <<p, b>> \notin {<<o, a>>}  BY <2>4
    <3>2. b \in Outstanding(u, p) \/ u.got[p][b] \in Answered
      BY <1>6, <2>2, <3>1 DEF Gathered
    <3> QED  BY <1>2, <2>1, <2>2, <2>4, <3>2
  <2> QED  BY <2>3, <2>4
<1>7. Gathered(v, {})  BY <1>5, <1>6 DEF Gathered
<1> QED  BY <1>2, <1>3, <1>4, <1>7

LEMMA AskedFor ==
    ASSUME NEW u, NEW asked, NEW more, Gathered(u, asked),
           \A o \in OpIds, a \in Apps :
                Live(u, o) /\ KindOf[o] = "save" /\ <<o, a>> \in asked =>
                    <<o, a>> \in more \/ a \in Outstanding(u, o)
    PROVE  Gathered(u, more)
<1>1. \A o \in OpIds : AppsOf[o] \subseteq Apps  BY PipelineAssumption
<1> QED  BY <1>1 DEF Gathered

\* An application of a save that is no longer waited for has to have answered.
LEMMA LeaveGathers ==
    ASSUME NEW u \in UiStates, NEW o \in OpIds, NEW a \in Apps, Gathered(u, {}), Known(u),
           NEW v, v = Leave(u, {<<o, a>>})
    PROVE  /\ v \in UiStates /\ Gathered(v, {<<o, a>>}) /\ Known(v)
           /\ v.phase = u.phase /\ v.writing = u.writing
<1> DEFINE given == {<<o, a>>}
<1>1. \A p, b : <<p, b>> \in given <=> p = o /\ b = a  OBVIOUS
<1>0. v = Leave(u, given)  OBVIOUS
<1> HIDE DEF given
<1>2. /\ v \in UiStates /\ v.phase = u.phase /\ v.got = u.got /\ v.writing = u.writing
      /\ \A p \in OpIds : /\ v.session[p] = {b \in u.session[p] : <<p, b>> \notin given}
                          /\ v.matching[p] = {b \in u.matching[p] : <<p, b>> \notin given}
  <2> DEFINE w == Leave(u, given)
  <2>1. /\ w \in UiStates /\ w.phase = u.phase /\ w.got = u.got /\ w.writing = u.writing
        /\ \A p \in OpIds : /\ w.session[p] = {b \in u.session[p] : <<p, b>> \notin given}
                            /\ w.matching[p] = {b \in u.matching[p] : <<p, b>> \notin given}
    BY LeaveFields
  <2> QED  BY <1>0, <2>1
<1>3. Known(v)  BY <1>2 DEF Known
<1>4. ASSUME NEW p \in OpIds, Live(v, p), KindOf[p] = "save", NEW b \in AppsOf[p]
      PROVE  \/ b \in Outstanding(v, p) \/ <<p, b>> \in given \/ v.got[p][b] \in Answered
  <2>1. b \in Outstanding(u, p) \/ u.got[p][b] \in Answered
    BY <1>2, <1>4 DEF Gathered, Live
  <2> QED  BY <1>2, <2>1 DEF Outstanding
<1>5. Gathered(v, given)  BY <1>2, <1>4 DEF Gathered, Live
<1> QED  BY <1>2, <1>3, <1>5 DEF given

LEMMA CancelledIsOver ==
    ASSUME NEW u \in UiStates, NEW o \in OpIds
    PROVE  ~Live(Cancel(u, {o}), o) /\ ~Live(Close(u, {o}), o)
<1>1. {o} \in SUBSET OpIds  OBVIOUS
<1>2. \A v \in UiStates : ~Live(Close(v, {o}), o)
  <2> SUFFICES ASSUME NEW v \in UiStates  PROVE ~Live(Close(v, {o}), o)
    OBVIOUS
  <2> DEFINE ops == {o}
             w == Close(v, ops)
  <2>1. o \in ops /\ ops \in SUBSET OpIds  OBVIOUS
  <2> HIDE DEF ops
  <2>2. w.phase[o] = "ended"  BY <2>1, CloseFields
  <2> QED  BY <2>2 DEF Live, ops
<1>3. RetireSessionRoutesForOperation(u, {o}) \in UiStates  BY <1>1, RetireFields
<1> QED  BY <1>2, <1>3 DEF Cancel

-----------------------------------------------------------------------------
(* The steps that neither answer nor write. *)

LEMMA QuietGathers ==
    ASSUME UiInv, Gathering, UNCHANGED <<stack, quit>>, Keeps(ui, ui')
    PROVE  Gathering'
<1>1. ui \in UiStates  BY DEF UiInv, Sound
<1>2. ui'.writing = ui.writing  BY DEF Keeps
<1>3. Known(ui')  BY <1>1, KeepsGathered DEF Gathering
<1>4. Running => Gathered(ui', ToAsk(stack))  BY <1>1, KeepsGathered DEF Gathering
<1> QED  BY <1>2, <1>3, <1>4 DEF Gathering, Running, Idle

\* A call other than "Ask" has been made.
LEMMA CallGathers ==
    ASSUME Inv, UiInv, Gathering, UNCHANGED <<ui, quit>>, stack # <<>>,
           Head(stack).fn # "Ask", stack' = Tail(stack)
    PROVE  Gathering'
<1>1. \A j \in DOMAIN stack :
        stack[j] = Head(stack) \/ \E i \in DOMAIN stack' : stack'[i] = stack[j]
  BY CallMade
<1>2. ToAsk(stack) \subseteq ToAsk(stack')  BY <1>1 DEF ToAsk
<1>3. Running => Gathered(ui, ToAsk(stack'))  BY <1>2, AskedFor DEF Gathering
<1>4. ui.writing = {}  BY DEF Gathering, Idle
<1> QED  BY <1>3, <1>4 DEF Gathering, Running

\* The program stops.
LEMMA StopGathers ==
    ASSUME Gathering, ui.writing = {}, ~Running', Known(ui'), ui'.writing = ui.writing
    PROVE  Gathering'
BY DEF Gathering

LEMMA AskGathers == ASSUME Inv, UiInv, UiInv', Gathering, Asks  PROVE Gathering'
<1> DEFINE o == Head(stack).op
           apps == Head(stack).apps
<1>1. /\ Calling("Ask") /\ UNCHANGED quit
  BY DEF Asks
<1>2. /\ Running /\ Rest = <<>> /\ o \in OpIds /\ apps \in SUBSET Apps
      /\ DOMAIN stack = {1} /\ Head(stack) = stack[1] /\ stack # <<>>
  BY <1>1, AskIsLast DEF Calling
<1>3. ui \in UiStates /\ ui' \in UiStates  BY DEF UiInv, Sound
<1>4. ui.writing = {} /\ Gathered(ui, ToAsk(stack)) /\ Known(ui)
  BY <1>2 DEF Gathering, Idle
<1>5. \A p \in OpIds, b \in Apps : <<p, b>> \in ToAsk(stack) => p = o /\ b \in apps
  BY <1>2 DEF ToAsk
<1>6. ASSUME Keeps(ui, ui'),
             \A b \in apps : Live(ui', o) /\ KindOf[o] = "save" =>
                    <<o, b>> \in ToAsk(stack') \/ b \in Outstanding(ui', o)
      PROVE  Gathering'
  <2>1. Gathered(ui', ToAsk(stack)) /\ Known(ui')  BY <1>3, <1>4, <1>6, KeepsGathered
  <2>2. Gathered(ui', ToAsk(stack'))  BY <1>5, <1>6, <2>1, AskedFor
  <2>3. ui'.writing = {}  BY <1>4, <1>6 DEF Keeps
  <2> QED  BY <2>1, <2>2, <2>3 DEF Gathering, Complete
<1>7. CASE apps = {} /\ ui' = Settle(ui, o)
  BY <1>2, <1>3, <1>6, <1>7, SettlesKeep
<1>8. ASSUME NEW u, Keeps(ui, u), NEW a \in apps, Refused(u, o, apps \ {a})
      PROVE  Gathering'
  <2>1. CASE KindOf[o] = "search"
    BY <1>6, <1>8, <2>1 DEF Refused
  <2>2. CASE KindOf[o] # "search"
    <3>1. ui' = Cancel(u, {o}) /\ u \in UiStates /\ {o} \in SUBSET OpIds
      BY <1>2, <1>8, <2>2 DEF Refused, Keeps
    <3>2. Keeps(ui, ui')  BY <1>8, <3>1, EndsKeep, KeepsTwice
    <3>3. ~Live(ui', o)  BY <1>2, <3>1, CancelledIsOver
    <3> QED  BY <1>6, <3>2, <3>3
  <2> QED  BY <2>1, <2>2
<1>9. ASSUME NEW a \in apps  PROVE Keeps(ui, Displace(ui, a))
  <2> DEFINE old == {<<ui.gate[a], a>>}
  <2>1. Keeps(ui, Unroute(ui, old))  BY <1>3, UnrouteKeeps
  <2>2. Unroute(ui, old) \in UiStates  BY <2>1 DEF Keeps
  <2>3. Keeps(Unroute(ui, old), RetireAsyncSessionOperation(Unroute(ui, old), old))
    BY <2>2, RetiresKeep
  <2> QED  BY <2>1, <2>3, KeepsTwice DEF Displace
<1>10. ASSUME NEW a \in apps, ui' = Routes(Displace(ui, a), o, a),
              EnqueueRequest("session", Request(o, a, "none"),
                             <<Ask(o, apps \ {a})>> \o Rest)
       PROVE  Gathering'
  <2> DEFINE d == Displace(ui, a)
             call == Ask(o, apps \ {a})
             rest == <<call>> \o Rest
             req == Request(o, a, "none")
  <2>1. call \in Frames /\ call.fn = "Ask" /\ call.op = o /\ call.apps = apps \ {a}
    <3>1. apps \ {a} \in SUBSET Apps  BY <1>2
    <3> QED  BY <1>2, <3>1, CallsAreFrames DEF Ask
  <2>2. req \in Requests /\ "session" \in Workers
    BY <1>2 DEF Request, Requests, Workers, Modes
  <2>3. EnqueueRequest("session", req, rest) /\ WorkersTyped  BY <1>10 DEF Inv
  <2>4. Keeps(ui, d) /\ ui' = Routes(d, o, a)  BY <1>9, <1>10
  <2> HIDE DEF d, call, req
  <2>5. rest = <<call>> /\ rest \in Seq(Frames) /\ 1 \in DOMAIN rest /\ rest[1] = call
    BY <1>2, <2>1
  <2> HIDE DEF rest
  <2>6. \E i \in DOMAIN stack' : stack'[i] = call
    BY <2>2, <2>3, <2>5, EnqueuedCalls
  <2>7. /\ ui'.phase = d.phase /\ ui'.got = d.got /\ ui'.writing = d.writing
        /\ ui'.matching = d.matching
        /\ ui'.session = [d.session EXCEPT ![o] = @ \cup {a}]
    BY <2>4 DEF Keeps, Routes, UiStates
  <2>8. /\ \A p \in OpIds : Outstanding(d, p) \subseteq Outstanding(ui', p)
        /\ a \in Outstanding(ui', o)
    BY <1>2, <2>4, <2>7 DEF Keeps, Outstanding, UiStates
  <2>9. Keeps(d, ui')  BY <1>3, <2>7, <2>8 DEF Keeps
  <2>10. Keeps(ui, ui')  BY <2>4, <2>9, KeepsTwice
  <2>11. \A b \in apps : b = a \/ <<o, b>> \in ToAsk(stack')
    BY <1>2, <2>1, <2>6 DEF ToAsk, Pairs
  <2> QED  BY <1>6, <2>8, <2>10, <2>11
<1>11. ASSUME NEW a \in apps, RequestSessionWork(o, a, apps \ {a})  PROVE Gathering'
  <2>1. Keeps(ui, ui)  BY <1>3, SettlesKeep
  <2>2. CASE Refused(ui, o, apps \ {a}) \/ Refused(Displace(ui, a), o, apps \ {a})
    BY <1>8, <1>9, <2>1, <2>2
  <2>3. CASE /\ ui' = [Displace(ui, a) EXCEPT
                        !.gate[a] = o, !.routes = @ \cup {<<o, a>>},
                        !.monitor = TRUE, !.session[o] = @ \cup {a}]
             /\ EnqueueRequest("session", Request(o, a, "none"),
                               <<Ask(o, apps \ {a})>> \o Rest)
    BY <1>10, <2>3 DEF Routes
  <2> QED  BY <1>11, <2>2, <2>3 DEF RequestSessionWork
<1> QED  BY <1>7, <1>11 DEF Asks

LEMMA WriteGathers == ASSUME UiInv, Gathering, WritesSave  PROVE Gathering'
<1>1. ui \in UiStates /\ Running /\ UNCHANGED <<quit, stack>>
  BY DEF UiInv, Sound, WritesSave
<1>2. PICK s \in ui.writing : \E done \in {{}, {s.op}} :
        ui' = [ui EXCEPT !.writing = @ \ {s}, !.published = @ \cup done]
  BY DEF WritesSave
<1>3. /\ ui'.phase = ui.phase /\ ui'.session = ui.session /\ ui'.matching = ui.matching
      /\ ui'.got = ui.got /\ ui'.writing = ui.writing \ {s}
  BY <1>1, <1>2 DEF UiStates
<1>4. ui'.writing = {}  BY <1>3 DEF Gathering, Complete
<1>5. Gathered(ui, ToAsk(stack)) /\ Known(ui)  BY <1>1 DEF Gathering
<1>6. Gathered(ui', ToAsk(stack))  BY <1>3, <1>5 DEF Gathered, Live, Outstanding
<1>7. Known(ui')  BY <1>3, <1>5 DEF Known
<1> QED  BY <1>1, <1>4, <1>6, <1>7 DEF Gathering, Complete

LEMMA BeginGathers ==
    ASSUME UiInv, Gathering, NEW o \in OpIds, Begin(o)  PROVE Gathering'
<1> DEFINE u == CancelOlder(ui, o)
           call == Ask(o, AppsOf[o])
<1>1. /\ ui \in UiStates /\ Running /\ stack = <<>> /\ stack' = <<call>>
      /\ UNCHANGED quit /\ ui.writing = {} /\ ui' = Opened(u, o)
  BY DEF UiInv, Sound, Begin, Handler, Idle, Opened
<1>2. Keeps(ui, u)
  <2>1. {p \in OpIds : /\ Live(ui, p) /\ KindOf[p] = KindOf[o]
                       /\ KindOf[o] \in {"save", "restore"}} \in SUBSET OpIds
    OBVIOUS
  <2> QED  BY <1>1, <2>1, EndsKeep DEF CancelOlder
<1>3. call.fn = "Ask" /\ call.op = o /\ call.apps = AppsOf[o]  BY DEF Ask
<1> HIDE DEF u, call
<1>4. ToAsk(stack) = {}  BY <1>1 DEF ToAsk
<1>5. Gathered(u, {}) /\ Known(u)  BY <1>1, <1>2, <1>4, KeepsGathered DEF Gathering
<1>6. u \in UiStates /\ u.writing = {}  BY <1>1, <1>2 DEF Keeps
<1>7. /\ \A p \in OpIds \ {o} : ui'.phase[p] = u.phase[p]
      /\ ui'.phase[o] = "live"
      /\ ui'.got = u.got /\ ui'.session = u.session /\ ui'.matching = u.matching
      /\ ui'.writing = {}
  BY <1>1, <1>6 DEF Opened, UiStates
<1>8. \A a \in AppsOf[o] : <<o, a>> \in ToAsk(stack')
  <2>1. 1 \in DOMAIN stack' /\ stack'[1] = call  BY <1>1
  <2>2. AppsOf[o] \subseteq Apps  BY PipelineAssumption
  <2> QED  BY <1>3, <2>1, <2>2 DEF ToAsk, Pairs
<1>9. Gathered(ui', ToAsk(stack'))
  <2>1. ASSUME NEW p \in OpIds
        PROVE  /\ ~Live(ui', p) => ui'.got[p] = Ungot
               /\ Live(ui', p) /\ KindOf[p] = "save" =>
                    \A a \in AppsOf[p] : \/ a \in Outstanding(ui', p)
                                         \/ <<p, a>> \in ToAsk(stack')
                                         \/ ui'.got[p][a] \in Answered
    <3>1. CASE p = o  BY <1>7, <1>8, <3>1 DEF Live
    <3>2. CASE p # o  BY <1>5, <1>7, <3>2 DEF Gathered, Live, Outstanding
    <3> QED  BY <3>1, <3>2
  <2> QED  BY <2>1 DEF Gathered
<1>10. Known(ui')  BY <1>5, <1>7 DEF Known
<1> QED  BY <1>1, <1>7, <1>9, <1>10 DEF Gathering, Complete

LEMMA TickGathers ==
    ASSUME UiInv, Gathering, NEW old \in SUBSET InGate, NEW late \in SUBSET Counted,
           RunMonitorTick(old, late)
    PROVE  Gathering'
<1> DEFINE cut == Unroute(ui, old)
           mid == RetireAsyncSessionOperation(cut, old)
           ops == {o \in late : Live(mid, o)}
           end == Cancel(mid, ops)
<1>1. ui \in UiStates  BY DEF UiInv, Sound
<1>2. ui' = Finally(end) /\ UNCHANGED <<stack, quit>>
  BY DEF RunMonitorTick, CancelExpiredReconcileOperations, CancelExpiredSessionRoutes
<1>3. ops \in SUBSET OpIds  BY DEF Counted
<1>4. Keeps(ui, cut)  BY <1>1, UnrouteKeeps
<1>5. Keeps(cut, mid)  BY <1>4, RetiresKeep DEF Keeps
<1>6. Keeps(mid, end)  BY <1>3, <1>5, EndsKeep DEF Keeps
<1> HIDE DEF cut, mid, ops, end
<1>7. Keeps(end, ui')  BY <1>2, <1>6, SettlesKeep DEF Keeps
<1>8. Keeps(ui, ui')  BY <1>4, <1>5, <1>6, <1>7, KeepsTwice
<1> QED  BY <1>2, <1>8, QuietGathers

LEMMA SwitchGathers == ASSUME UiInv, Gathering, ApplyAutoFix  PROVE Gathering'
<1>1. ui \in UiStates /\ UNCHANGED <<stack, quit>>  BY DEF UiInv, Sound, ApplyAutoFix
<1>2. CASE ui' = KillMonitorIfIdle(Cancel(ui, AutoOwned(ui)))
  <2> DEFINE end == Cancel(ui, AutoOwned(ui))
  <2>1. AutoOwned(ui) \in SUBSET OpIds  BY DEF AutoOwned
  <2>2. Keeps(ui, end)  BY <1>1, <2>1, EndsKeep
  <2>3. ui' = KillMonitorIfIdle(end)  BY <1>2
  <2> HIDE DEF end
  <2>4. Keeps(end, ui')  BY <2>2, <2>3, SettlesKeep DEF Keeps
  <2>5. Keeps(ui, ui')  BY <2>2, <2>4, KeepsTwice
  <2> QED  BY <1>1, <2>5, QuietGathers
<1>3. CASE ui' = [ui EXCEPT !.monitor = TRUE]
  <2>1. Keeps(ui, ui')  BY <1>1, <1>3 DEF Keeps, UiStates, Outstanding
  <2> QED  BY <1>1, <2>1, QuietGathers
<1> QED  BY <1>2, <1>3 DEF ApplyAutoFix

\* What the session worker answers is one of its outcomes, or that it has
\* refused the request.
LEMMA AnswersKept == ASSUME Inv, SessionAnswers, [Next]_vars  PROVE SessionAnswers'
<1>1. /\ thread \in [Workers -> Threads] /\ msgs \in Seq(Results)
      /\ "session" \in Workers
  BY DEF Inv, WorkersTyped, Workers
<1>2. ASSUME UNCHANGED thread, msgs' = msgs \/ msgs' = <<>> \/ (msgs # <<>> /\ msgs' = Tail(msgs))
      PROVE  SessionAnswers'
  <2>1. \A i \in DOMAIN msgs' : \E j \in DOMAIN msgs : msgs'[i] = msgs[j]
    <3>1. CASE msgs # <<>> /\ msgs' = Tail(msgs)  BY <3>1, TailOf DEF Inv
    <3> QED  BY <1>2, <3>1
  <2> QED  BY <1>2, <2>1 DEF SessionAnswers
<1>3. ASSUME NEW result \in Results, Post(result),
             result.worker = "session" =>
                result.status \in Outcomes("session") \cup {"Superseded"}
      PROVE  \A i \in DOMAIN msgs' : msgs'[i].worker = "session" =>
                msgs'[i].status \in Outcomes("session") \cup {"Superseded"}
  <2>1. CASE msgs' = Append(msgs, result)
    <3>1. /\ DOMAIN msgs = 1..Len(msgs) /\ DOMAIN msgs' = 1..(Len(msgs) + 1)
          /\ Len(msgs) \in Nat
          /\ msgs'[Len(msgs) + 1] = result
          /\ \A i \in 1..Len(msgs) : msgs'[i] = msgs[i]
      BY <1>1, <2>1
    <3>2. ASSUME NEW i \in DOMAIN msgs'
          PROVE  msgs'[i] = result \/ (i \in DOMAIN msgs /\ msgs'[i] = msgs[i])
      <4>1. CASE i = Len(msgs) + 1  BY <3>1, <4>1
      <4>2. CASE i # Len(msgs) + 1
        <5>1. i \in 1..Len(msgs)  BY <3>1, <4>2
        <5> QED  BY <3>1, <5>1
      <4> QED  BY <4>1, <4>2
    <3> QED  BY <1>3, <3>2 DEF SessionAnswers
  <2>2. CASE msgs' = msgs  BY <2>2 DEF SessionAnswers
  <2> QED  BY <1>3, <2>1, <2>2 DEF Post
<1>4. CASE HandlerStep
  <2>1. CASE Asks \/ WritesSave  BY <1>2, <2>1 DEF Asks, WritesSave, workerVars
  <2>2. CASE Notifies
    <3>1. /\ thread'["session"].status = thread["session"].status
          /\ thread'["session"].pc = "posting" => thread["session"].pc = "posting"
      BY <1>1, <2>2 DEF Notifies, WakeUp, Threads
    <3>2. msgs' = msgs  BY <2>2 DEF Notifies
    <3> QED  BY <3>1, <3>2 DEF SessionAnswers
  <2>3. CASE PostsSuperseded
    <3> DEFINE result == Result(Head(stack).worker, Head(stack).req, "Superseded")
    <3>1. Head(stack).worker \in Workers /\ Head(stack).req \in Requests
      BY <2>3, CallTyped DEF Inv, PostsSuperseded
    <3>2. result \in Results /\ result.status = "Superseded"
      BY <3>1 DEF Result, Results, Statuses
    <3>3. UNCHANGED thread /\ Post(result)  BY <2>3 DEF PostsSuperseded, workerVars
    <3> HIDE DEF result
    <3> QED  BY <1>3, <3>2, <3>3 DEF SessionAnswers
  <2> QED  BY <1>4, <2>1, <2>2, <2>3 DEF HandlerStep
<1>5. CASE StopStep
  BY <1>2, <1>5 DEF StopStep, StopsWorker, JoinsWorker, DrainsResults, workerVars
<1>6. CASE HandleSessionResult \/ HandleReconcileResult
  BY <1>2, <1>6 DEF HandleSessionResult, HandleReconcileResult
<1>7. CASE \/ \E o \in OpIds : Begin(o)
           \/ \E old \in SUBSET InGate, late \in SUBSET Counted : RunMonitorTick(old, late)
           \/ ApplyAutoFix \/ QuiesceRuntime
           \/ \E a \in Apps, step \in {0, 1} : WindowsChange(a, step)
           \/ UNCHANGED vars
  BY <1>2, <1>7 DEF Begin, RunMonitorTick, ApplyAutoFix, QuiesceRuntime, WindowsChange,
     vars, workerVars
<1>8. ASSUME NEW w \in Workers, WorkerStep(w)  PROVE SessionAnswers'
  <2>1. ASSUME NEW pc, NEW r, NEW status, Becomes(w, pc, r, status), UNCHANGED msgs,
               pc = "posting" => status \in Outcomes(w)
        PROVE  SessionAnswers'
    <3>1. thread' = [thread EXCEPT ![w] = [pc |-> pc, req |-> r, status |-> status]]
      BY <2>1 DEF Becomes
    <3>2. thread'["session"].pc = "posting" =>
            thread'["session"].status \in Outcomes("session")
      <4>1. CASE w = "session"  BY <1>1, <2>1, <3>1, <4>1
      <4>2. CASE w # "session"  BY <1>1, <3>1, <4>2 DEF SessionAnswers
      <4> QED  BY <4>1, <4>2
    <3> QED  BY <2>1, <3>2 DEF SessionAnswers
  <2>2. CASE TakeRequest(w)  BY <2>1, <2>2 DEF TakeRequest
  <2>3. CASE ProcessRequest(w)  BY <2>1, <2>3 DEF ProcessRequest
  <2>4. CASE PostResult(w)
    <3> DEFINE result == Result(w, thread[w].req, thread[w].status)
    <3>1. /\ thread[w].req \in Requests /\ thread[w].status \in Statuses
      BY <1>1, <2>4 DEF PostResult, Inv, WorkersTyped, Threads
    <3>2. result \in Results /\ result.worker = w /\ result.status = thread[w].status
      BY <3>1 DEF Result, Results
    <3>3. Post(result) /\ Becomes(w, "awake", NoRequest, "none")
          /\ thread[w].pc = "posting"
      BY <2>4 DEF PostResult
    <3> HIDE DEF result
    <3>4. \A i \in DOMAIN msgs' : msgs'[i].worker = "session" =>
                msgs'[i].status \in Outcomes("session") \cup {"Superseded"}
      BY <1>3, <3>2, <3>3 DEF SessionAnswers
    <3>5. thread'["session"].pc = "posting" =>
            thread'["session"].status \in Outcomes("session")
      <4>1. thread' = [thread EXCEPT ![w] =
                         [pc |-> "awake", req |-> NoRequest, status |-> "none"]]
        BY <3>3 DEF Becomes
      <4>2. CASE w = "session"  BY <1>1, <4>1, <4>2
      <4>3. CASE w # "session"  BY <1>1, <4>1, <4>3 DEF SessionAnswers
      <4> QED  BY <4>2, <4>3
    <3> QED  BY <3>4, <3>5 DEF SessionAnswers
  <2> QED  BY <1>8, <2>2, <2>3, <2>4 DEF WorkerStep
<1> QED  BY <1>4, <1>5, <1>6, <1>7, <1>8 DEF Next, Exited

-----------------------------------------------------------------------------
(* The handlers of results. *)

\* A handler that has run to its end.
LEMMA ResultGathers ==
    ASSUME UiInv, Gathering, Handler, UNCHANGED <<quit, stack>>, NEW v,
           v \in UiStates, Gathered(v, {}), Known(v), Complete(v.writing), ui' = Finally(v)
    PROVE  Gathering'
<1>1. /\ Running /\ stack = <<>> /\ stack' = <<>> /\ quit' = "running"
  BY DEF Handler, Idle, Running
<1>2. Keeps(v, ui')  BY SettlesKeep
<1>3. Gathered(ui', {}) /\ Known(ui')  BY <1>2, KeepsGathered
<1>4. Gathered(ui', ToAsk(stack'))  BY <1>3, AskedFor
<1>5. ui'.writing = v.writing  BY <1>2 DEF Keeps
<1> QED  BY <1>1, <1>3, <1>4, <1>5 DEF Gathering, Running, Idle

\* A handler that has asked for a matching.
LEMMA MatchingGathers ==
    ASSUME UiInv, UiInv', Gathering, Handler, UNCHANGED quit, NEW u \in UiStates,
           Gathered(u, {}), Known(u), u.writing = {}, NEW o \in OpIds, NEW a \in Apps,
           NEW mode, RequestReconcileWork(u, o, a, mode)
    PROVE  Gathering'
<1>1. ui' \in UiStates  BY DEF UiInv, Sound
<1>2. Keeps(u, ui')  BY <1>1, MatchingKeepsSaves
<1>3. Gathered(ui', {}) /\ Known(ui')  BY <1>2, KeepsGathered
<1>4. Gathered(ui', ToAsk(stack'))  BY <1>3, AskedFor
<1>5. ui'.writing = {}  BY <1>2 DEF Keeps
<1> QED  BY <1>3, <1>4, <1>5 DEF Gathering, Complete

LEMMA SessionGathers ==
    ASSUME Inv, UiInv, UiInv', SavesInv, HandleSessionResult  PROVE Gathering'
<1> DEFINE o == Head(msgs).req.op
           a == Head(msgs).req.app
           status == Head(msgs).status
           u == Unroute(ui, {<<o, a>>})
           left == Leave(u, {<<o, a>>})
<1>1. /\ Handler /\ UNCHANGED quit /\ ui \in UiStates /\ Gathering
      /\ msgs # <<>> /\ Head(msgs).worker = "session"
  BY DEF HandleSessionResult, UiInv, Sound, SavesInv
<1>2. /\ Head(msgs) \in Results /\ o \in OpIds /\ a \in Apps /\ 1 \in DOMAIN msgs
      /\ Head(msgs) = msgs[1]
  <2>1. Head(msgs) \in Results /\ msgs \in Seq(Results)
    BY TailOf DEF HandleSessionResult, Inv, WorkersTyped
  <2>2. 1 \in DOMAIN msgs /\ Head(msgs) = msgs[1]  BY <1>1, <2>1
  <2> QED  BY <2>1, <2>2 DEF Results, Requests
<1>3. /\ Gathered(ui, {}) /\ Known(ui) /\ ui.writing = {}
  <2>1. ToAsk(stack) = {}  BY <1>1 DEF Handler, Idle, ToAsk
  <2> QED  BY <1>1, <2>1 DEF Gathering, Handler
<1>4. ASSUME NEW v, Keeps(ui, v), ui' = Finally(v), UNCHANGED stack  PROVE Gathering'
  <2>1. v \in UiStates /\ Complete(v.writing)  BY <1>3, <1>4 DEF Keeps, Complete
  <2>2. Gathered(v, {}) /\ Known(v)  BY <1>1, <1>3, <1>4, KeepsGathered
  <2> QED  BY <1>1, <1>4, <2>1, <2>2, ResultGathers
<1>5. CASE ui' = Finally(ui) /\ UNCHANGED stack  BY <1>1, <1>4, <1>5, SettlesKeep
<1>6. CASE /\ ui' = Finally(RetireAsyncSessionOperation(
                         [ui EXCEPT !.routes = @ \ {<<o, a>>}], {<<o, a>>}))
           /\ UNCHANGED stack
  <2> DEFINE cut == [ui EXCEPT !.routes = @ \ {<<o, a>>}]
  <2>1. Keeps(ui, cut)
    <3>1. ui.routes \ {<<o, a>>} \in SUBSET Pairs  BY <1>1 DEF UiStates
    <3> QED  BY <1>1, <3>1 DEF Keeps, UiStates, Outstanding
  <2> HIDE DEF cut
  <2>2. Keeps(cut, RetireAsyncSessionOperation(cut, {<<o, a>>}))
    BY <2>1, RetiresKeep DEF Keeps
  <2>3. Keeps(ui, RetireAsyncSessionOperation(cut, {<<o, a>>}))
    BY <2>1, <2>2, KeepsTwice
  <2> QED  BY <1>4, <1>6, <2>3 DEF cut
<1>7. CASE <<o, a>> \in ui.routes /\ SessionResult(u, o, a, status)
  <2>1. Keeps(ui, u) /\ u \in UiStates  BY <1>1, UnrouteKeeps DEF Keeps
  <2>2. Gathered(u, {}) /\ Known(u) /\ u.writing = {}
    BY <1>1, <1>3, <2>1, KeepsGathered DEF Keeps
  <2> HIDE DEF u
  <2>3. {o} \in SUBSET OpIds  BY <1>2
  <2>4. CASE UNCHANGED stack /\ (ui' = Finally(Cancel(u, {o})) \/ ui' = Finally(Close(u, {o})))
    <3>1. Keeps(u, Cancel(u, {o})) /\ Keeps(u, Close(u, {o}))  BY <2>1, <2>3, EndsKeep
    <3> QED  BY <1>4, <2>1, <2>4, <3>1, KeepsTwice
  <2>5. CASE UNCHANGED stack /\ ui' = Finally(Settle(left, o)) /\ KindOf[o] # "save"
    <3>1. Keeps(u, left) /\ left \in UiStates  BY <1>2, <2>1, <2>5, LeaveKeeps DEF Keeps
    <3> HIDE DEF left
    <3>2. Keeps(left, Settle(left, o))  BY <1>2, <3>1, SettlesKeep
    <3> QED  BY <1>4, <2>1, <2>5, <3>1, <3>2, KeepsTwice
  <2>6. CASE UNCHANGED stack /\ ui' = Finally(u)  BY <1>4, <2>1, <2>6
  <2>7. CASE RequestReconcileWork(Recaptured(u, o, a), o, a, ModeOf(o))
    <3> DEFINE new == Recaptured(u, o, a)
    <3>1. Keeps(u, new)
      <4>1. CASE new = u  BY <2>1, <4>1, SettlesKeep
      <4>2. CASE new = [u EXCEPT !.captured[o][a] = world[a]]
        <5>1. u.captured[o] \in [Apps -> Snapshots] /\ world \in [Apps -> Snapshots]
          BY <1>2, <2>1 DEF UiStates, UiInv, WorkTyped
        <5>2. [u.captured EXCEPT ![o][a] = world[a]] \in [OpIds -> [Apps -> Snapshots]]
          BY <1>2, <2>1, <5>1 DEF UiStates
        <5> QED  BY <2>1, <4>2, <5>2 DEF Keeps, UiStates, Outstanding
      <4> QED  BY <4>1, <4>2 DEF Recaptured
    <3> HIDE DEF new
    <3>2. new \in UiStates /\ new.writing = {}  BY <2>2, <3>1 DEF Keeps
    <3>3. Gathered(new, {}) /\ Known(new)  BY <2>1, <2>2, <3>1, KeepsGathered
    <3> QED  BY <1>1, <1>2, <2>7, <3>2, <3>3, MatchingGathers DEF new
  <2>8. CASE /\ UNCHANGED stack /\ Live(u, o) /\ ~Acceptable(u, o, a, status)
             /\ ui' = Finally(WithoutSession(u, o, a, status))
    <3>1. KindOf[o] \in Kinds  BY <1>2, PipelineAssumption
    <3>2. CASE KindOf[o] = "save" /\ Current(u, o, a)
      <4> DEFINE given == Gain(left, o, a, status)
                 v == FinishManualSave(given, o)
      <4>1. ui' = Finally(v)
        BY <2>8, <3>2 DEF WithoutSession
      <4>2. status \in Answered
        <5>1. status # "Fresh"  BY <2>8, <3>2 DEF Acceptable
        <5>2. status \in Outcomes("session") \cup {"Superseded"}
          BY <1>1, <1>2 DEF SavesInv, SessionAnswers
        <5>3. status # "Superseded"
          <6>1. Head(msgs).req \in Requests  BY <1>2 DEF Results
          <6>2. status = "Superseded" => Superseded(Head(msgs).req)
            BY <1>1, <1>2 DEF Superseded
          <6> QED  BY <1>7, <3>2, <6>1, <6>2 DEF UiInv, Served
        <5> QED  BY <5>1, <5>2, <5>3 DEF Outcomes, Answered
      <4>3. /\ left \in UiStates /\ Gathered(left, {<<o, a>>}) /\ Known(left)
            /\ left.phase = u.phase /\ left.writing = {}
        BY <1>2, <2>1, <2>2, LeaveGathers
      <4>4. Live(left, o)  BY <2>8, <4>3 DEF Live
      <4> HIDE DEF left, status
      <4>5. /\ given \in UiStates /\ Gathered(given, {}) /\ Known(given)
            /\ Live(given, o) /\ given.writing = {}
        BY <1>2, <4>2, <4>3, <4>4, GainGathers
      <4> HIDE DEF given
      <4>6. v \in UiStates /\ Gathered(v, {}) /\ Known(v) /\ Complete(v.writing)
        BY <1>2, <3>2, <4>5, FinishCompletes
      <4> HIDE DEF v
      <4> QED  BY <1>1, <2>8, <4>1, <4>6, ResultGathers
    <3>3. CASE ~(KindOf[o] = "save" /\ Current(u, o, a))
      <4>1. \/ WithoutSession(u, o, a, status) = Cancel(u, {o})
            \/ WithoutSession(u, o, a, status) = Close(u, {o})
            \/ WithoutSession(u, o, a, status) = Settle(left, o) /\ KindOf[o] # "save"
        BY <3>1, <3>3 DEF WithoutSession, Kinds, left
      <4> HIDE DEF left
      <4> QED  BY <2>4, <2>5, <2>8, <4>1
    <3> QED  BY <3>2, <3>3
  <2> QED  BY <1>7, <2>4, <2>5, <2>6, <2>7, <2>8 DEF SessionResult, left
<1> QED  BY <1>5, <1>6, <1>7 DEF HandleSessionResult

LEMMA ReconcileGathers ==
    ASSUME Inv, UiInv, UiInv', SavesInv, HandleReconcileResult  PROVE Gathering'
<1> DEFINE o == Head(msgs).req.op
           a == Head(msgs).req.app
           u == CompleteDeadline([ui EXCEPT !.matching[o] = @ \ {a}], o)
           current == Head(msgs).status = "Completed" /\ Current(ui, o, a)
<1>1. /\ Handler /\ UNCHANGED quit /\ ui \in UiStates /\ Sound(ui, {}) /\ Gathering
  BY DEF HandleReconcileResult, UiInv, Sound, SavesInv
<1>2. o \in OpIds /\ a \in Apps
  <2>1. Head(msgs).req \in Requests  BY TailOf DEF HandleReconcileResult, Inv, Results
  <2> QED  BY <2>1 DEF Requests
<1>3. /\ Gathered(ui, {}) /\ Known(ui) /\ ui.writing = {}
  <2>1. ToAsk(stack) = {}  BY <1>1 DEF Handler, Idle, ToAsk
  <2> QED  BY <1>1, <2>1 DEF Gathering, Handler
<1>4. CASE ui' = Finally(ui) /\ UNCHANGED stack
  BY <1>1, <1>3, <1>4, ResultGathers DEF Complete
<1>5. ASSUME Awaited(ui, o, a, Head(msgs).req.mode),
             \/ RequestReconcileWork(u, o, a, "Plan") /\ KindOf[o] = "auto"
             \/ ui' = Finally(ReconcileResult(u, o, a, current)) /\ UNCHANGED stack
             \/ ui' = Finally(Cancel(u, {o})) /\ UNCHANGED stack
      PROVE  Gathering'
  <2>1. Live(ui, o) /\ a \in ui.matching[o]  BY <1>5 DEF Awaited
  <2>2. u = Matched(ui, o, a)  BY DEF Matched
  <2> HIDE DEF u, current
  <2>3. /\ u \in UiStates /\ u.phase = ui.phase /\ u.got = ui.got /\ u.session = ui.session
        /\ u.matching[o] = ui.matching[o] \ {a} /\ u.writing = {}
        /\ \A p \in OpIds \ {o} : u.matching[p] = ui.matching[p]
    <3>1. /\ Sound(u, {})
          /\ u.matching[o] = ui.matching[o] \ {a}
          /\ \A p \in OpIds \ {o} : Same(ui, u, p)
          /\ u.phase = ui.phase /\ u.session = ui.session
          /\ u.got = ui.got /\ u.writing = ui.writing
      BY <1>1, <1>2, <2>1, <2>2, MatchDone
    <3> QED  BY <1>3, <3>1 DEF Sound, Same
  <2>4. Known(u)  BY <1>3, <2>3 DEF Known
  <2>5. Gathered(u, {<<o, a>>})
    <3>1. ASSUME NEW p \in OpIds, Live(u, p), KindOf[p] = "save", NEW b \in AppsOf[p]
          PROVE  \/ b \in Outstanding(u, p) \/ <<p, b>> \in {<<o, a>>}
                 \/ u.got[p][b] \in Answered
      <4>1. b \in Outstanding(ui, p) \/ ui.got[p][b] \in Answered
        BY <1>3, <2>3, <3>1 DEF Gathered, Live
      <4>2. CASE p = o  BY <2>3, <4>1, <4>2 DEF Outstanding
      <4>3. CASE p # o  BY <2>3, <4>1, <4>3 DEF Outstanding
      <4> QED  BY <4>2, <4>3
    <3>2. \A p \in OpIds : ~Live(u, p) => u.got[p] = Ungot
      BY <1>3, <2>3 DEF Gathered, Live
    <3> QED  BY <3>1, <3>2 DEF Gathered
  <2>6. Live(u, o)  BY <2>1, <2>3 DEF Live
  <2>7. ASSUME NEW v, Keeps(u, v), KindOf[o] # "save" \/ ~Live(v, o),
               ui' = Finally(v), UNCHANGED stack
        PROVE  Gathering'
    <3>1. v \in UiStates /\ Complete(v.writing)  BY <2>3, <2>7 DEF Keeps, Complete
    <3>3. Gathered(v, {<<o, a>>}) /\ Known(v)
      BY <2>3, <2>4, <2>5, <2>7, KeepsGathered
    <3>2. Gathered(v, {})  BY <2>7, <3>3, AskedFor
    <3> QED  BY <1>1, <2>7, <3>1, <3>2, <3>3, ResultGathers
  <2>8. {o} \in SUBSET OpIds  BY <1>2
  <2>9. CASE UNCHANGED stack /\ (ui' = Finally(Cancel(u, {o})) \/ ui' = Finally(Close(u, {o})))
    BY <1>2, <2>3, <2>7, <2>8, <2>9, EndsKeep, CancelledIsOver
  <2>10. CASE UNCHANGED stack /\ ui' = Finally(Settle(u, o)) /\ KindOf[o] # "save"
    BY <1>2, <2>3, <2>7, <2>10, SettlesKeep
  <2>11. CASE RequestReconcileWork(u, o, a, "Plan") /\ KindOf[o] = "auto"
    <3>1. Gathered(u, {})  BY <2>5, <2>11, AskedFor
    <3> QED  BY <1>1, <1>2, <2>3, <2>4, <2>11, <3>1, MatchingGathers
  <2>12. CASE UNCHANGED stack /\ ui' = Finally(ReconcileResult(u, o, a, current))
    <3>1. CASE current /\ KindOf[o] = "save"
      <4> DEFINE given == Gain(u, o, a, "Prepared")
                 v == FinishManualSave(given, o)
      <4>1. ui' = Finally(v)  BY <2>12, <3>1 DEF ReconcileResult
      <4>2. "Prepared" \in Answered  BY DEF Answered
      <4>3. /\ given \in UiStates /\ Gathered(given, {}) /\ Known(given)
            /\ Live(given, o) /\ given.writing = {}
        BY <1>2, <2>3, <2>4, <2>5, <2>6, <4>2, GainGathers
      <4> HIDE DEF given
      <4>4. v \in UiStates /\ Gathered(v, {}) /\ Known(v) /\ Complete(v.writing)
        BY <1>2, <3>1, <4>3, FinishCompletes
      <4> HIDE DEF v
      <4> QED  BY <1>1, <2>12, <4>1, <4>4, ResultGathers
    <3>2. CASE ~(current /\ KindOf[o] = "save")
      <4>1. \/ ReconcileResult(u, o, a, current) = Cancel(u, {o})
            \/ ReconcileResult(u, o, a, current) = Close(u, {o})
            \/ ReconcileResult(u, o, a, current) = Settle(u, o) /\ KindOf[o] # "save"
        BY <3>2 DEF ReconcileResult
      <4> QED  BY <2>9, <2>10, <2>12, <4>1
    <3> QED  BY <3>1, <3>2
  <2> QED  BY <1>5, <2>9, <2>11, <2>12
<1> QED  BY <1>4, <1>5 DEF HandleReconcileResult

-----------------------------------------------------------------------------
LEMMA SavesBegin == Init => SavesInv
<1> SUFFICES ASSUME Init  PROVE SavesInv
  OBVIOUS
<1>1. /\ ui.phase = [o \in OpIds |-> "new"] /\ ui.got = [o \in OpIds |-> Ungot]
      /\ ui.writing = {} /\ stack = <<>> /\ msgs = <<>>
      /\ thread = [w \in Workers |-> [pc |-> "awake", req |-> NoRequest, status |-> "none"]]
  BY DEF Init
<1>2. Gathered(ui, ToAsk(stack))  BY <1>1 DEF Gathered, Live
<1>3. Known(ui)  BY <1>1 DEF Known, Ungot
<1>4. SessionAnswers
  <2>1. thread["session"].pc = "awake"  BY <1>1 DEF Workers
  <2> QED  BY <1>1, <2>1 DEF SessionAnswers
<1> QED  BY <1>1, <1>2, <1>3, <1>4 DEF SavesInv, Gathering, Complete

LEMMA SavesKept == Inv /\ UiInv /\ UiInv' /\ SavesInv /\ [Next]_vars => SavesInv'
<1> SUFFICES ASSUME Inv, UiInv, UiInv', SavesInv, [Next]_vars  PROVE SavesInv'
  OBVIOUS
<1>1. SessionAnswers' /\ Gathering  BY AnswersKept DEF SavesInv
<1>2. ui \in UiStates  BY DEF UiInv, Sound
<1>3. CASE HandlerStep
  <2>1. CASE PostsSuperseded \/ Notifies
    <3>1. /\ UNCHANGED <<ui, quit>> /\ stack' = Rest
          /\ Calling("PostSuperseded") \/ Calling("Notify")
      BY <2>1 DEF PostsSuperseded, Notifies, uiVars
    <3>2. stack # <<>> /\ Head(stack).fn # "Ask" /\ stack' = Tail(stack)
      BY <3>1 DEF Calling, Rest
    <3> QED  BY <1>1, <3>1, <3>2, CallGathers DEF SavesInv
  <2> QED
    BY <1>1, <1>3, <2>1, AskGathers, WriteGathers DEF HandlerStep, SavesInv
<1>4. CASE StopStep
  <2>1. /\ UNCHANGED ui /\ (quit' = quit \/ quit' = "quiesced")
        /\ Calling("Stop") \/ Calling("Join") \/ Calling("Drain")
    BY <1>4 DEF StopStep, StopsWorker, JoinsWorker, DrainsResults, uiVars, Quiesces
  <2>2. ~Running /\ stack # <<>>  BY <2>1, WhoCalls DEF Calling
  <2>3. ui.writing = {}  BY <1>1, <2>2 DEF Gathering
  <2> QED  BY <1>1, <2>1, <2>2, <2>3, StopGathers DEF SavesInv, Gathering, Running
<1>5. CASE HandleSessionResult  BY <1>1, <1>5, SessionGathers DEF SavesInv
<1>6. CASE HandleReconcileResult  BY <1>1, <1>6, ReconcileGathers DEF SavesInv
<1>7. ASSUME NEW o \in OpIds, Begin(o)  PROVE SavesInv'
  BY <1>1, <1>7, BeginGathers DEF SavesInv
<1>8. ASSUME NEW old \in SUBSET InGate, NEW late \in SUBSET Counted,
             RunMonitorTick(old, late)
      PROVE  SavesInv'
  BY <1>1, <1>8, TickGathers DEF SavesInv
<1>9. CASE ApplyAutoFix  BY <1>1, <1>9, SwitchGathers DEF SavesInv
<1>10. CASE QuiesceRuntime
  <2>1. /\ ui.writing = {} /\ quit' = "quiescing" /\ ui' = [ui EXCEPT !.monitor = FALSE]
    BY <1>10 DEF QuiesceRuntime, Handler
  <2>2. ui'.got = ui.got /\ ui'.writing = ui.writing  BY <1>2, <2>1 DEF UiStates
  <2>3. Known(ui')  BY <1>1, <2>2 DEF Known, Gathering
  <2> QED  BY <1>1, <2>1, <2>2, <2>3, StopGathers DEF SavesInv, Running
<1>11. ASSUME UNCHANGED <<ui, quit, stack>>  PROVE SavesInv'
  BY <1>1, <1>2, <1>11, QuietGathers, SettlesKeep DEF SavesInv
<1>12. ASSUME NEW w \in Workers, WorkerStep(w)  PROVE SavesInv'
  BY <1>11, <1>12 DEF WorkerStep, TakeRequest, ProcessRequest, PostResult, uiVars
<1>13. ASSUME NEW a \in Apps, NEW step \in {0, 1}, WindowsChange(a, step)  PROVE SavesInv'
  BY <1>11, <1>13 DEF WindowsChange
<1>14. CASE UNCHANGED vars  BY <1>11, <1>14 DEF vars, uiVars
<1> QED
  BY <1>3, <1>4, <1>5, <1>6, <1>7, <1>8, <1>9, <1>10, <1>12, <1>13, <1>14
     DEF Next, Exited

\* Until a save is written, every browser it asked for has answered, is waited
\* for or is about to be asked.
THEOREM SavesInvariant == Spec => []SavesInv
BY SavesBegin, SavesKept, PipelineInvariant, UiInvariant, PTL DEF Spec

\* A save that is about to be written has fresh records of every browser it
\* asked for but those whose worker answered that it could not read them: none
\* is left out because a request was refused, replaced or lost on its way, or
\* because an answer was another operation's (HandleManualSaveSessionResult,
\* HandleManualSavePreparedResult, FinishManualSave).
THEOREM SaveIsCompleteAlways == Spec => []SaveIsComplete
<1>1. SavesInv => SaveIsComplete
  BY DEF SavesInv, Gathering, Complete, SaveIsComplete, Answered
<1> QED  BY <1>1, SavesInvariant, PTL

\* Whatever is displaced, refused or late, a wait has a live route or a counted
\* deadline, and no route or deadline is without its wait
\* (RequestSessionWork, RetireSessionRoutesForOperation, the two gates).
THEOREM EveryWaitIsRoutedAlways == Spec => []EveryWaitIsRouted
<1>1. Inv /\ UiInv /\ SavesInv => TypeOK
  <2> SUFFICES ASSUME Inv, UiInv, SavesInv  PROVE TypeOK
    OBVIOUS
  <2>1. ui \in UiStates /\ \A o \in OpIds : ui.due[o] = Cardinality(ui.matching[o])
    BY DEF UiInv, Sound
  <2>2. ui.due \in [OpIds -> 0..Cardinality(Apps)]
    <3>1. \A o \in OpIds : ui.due[o] \in 0..Cardinality(Apps)
      BY <2>1, AppsAreFinite DEF UiStates
    <3>2. ui.due \in [OpIds -> Nat]  BY <2>1 DEF UiStates
    <3> QED  BY <3>1, <3>2
  <2>3. /\ ui.phase \in [OpIds -> {"new", "live", "ended"}]
        /\ ui.captured \in [OpIds -> [Apps -> Snapshots]]
        /\ ui.session \in [OpIds -> SUBSET Apps]
        /\ ui.matching \in [OpIds -> SUBSET Apps]
        /\ ui.mode \in [OpIds -> Modes]
        /\ ui.gate \in [Apps -> OpIds \cup {NoOp}]
        /\ ui.routes \subseteq OpIds \X Apps
        /\ ui.published \subseteq OpIds
        /\ ui.monitor \in BOOLEAN
    BY <2>1 DEF UiStates, Pairs
  <2>4. \A w \in Workers :
            /\ \A a \in Apps : pending[w][a] # NoRequest =>
                    pending[w][a] \in Requests /\ pending[w][a].app = a
            /\ thread[w].req \in Requests \cup {NoRequest}
            /\ thread[w].pc \in {"awake", "asleep", "busy", "posting", "ended"}
    BY DEF Inv, UiInv, WorkersTyped, WorkTyped, Slots, Threads
  <2>5. /\ autoFix \in BOOLEAN /\ world \in [Apps -> Snapshots]
        /\ quit \in {"running", "quiescing", "quiesced"}
        /\ stopping \in [Workers -> BOOLEAN]
        /\ ToSet(order) = {a \in Apps : pending["session"][a] # NoRequest}
        /\ IsInjective(order)
    BY DEF Inv, UiInv, WorkersTyped, WorkTyped
  <2>6. Cardinality(ui.writing) <= 1
    <3>1. \A s, t \in ui.writing : s = t  BY DEF SavesInv, Gathering, Complete
    <3>2. CASE ui.writing = {}  BY <3>2, FS_EmptySet
    <3>3. CASE ui.writing # {}
      <4>1. PICK s : ui.writing = {s}  BY <3>1, <3>3
      <4> QED  BY <4>1, FS_Singleton
    <3> QED  BY <3>2, <3>3
  <2>7. ui.got \in [OpIds -> [Apps -> Gains]]
    <3>1. ui.got \in [OpIds -> [Apps -> Had]]  BY <2>1 DEF UiStates
    <3>2. \A o \in OpIds, a \in Apps : ui.got[o][a] \in Gains
      BY DEF SavesInv, Gathering, Known, Answered, Gains
    <3>3. \A o \in OpIds : ui.got[o] \in [Apps -> Gains]  BY <3>1, <3>2
    <3> QED  BY <3>1, <3>3
  <2> QED  BY <2>2, <2>3, <2>4, <2>5, <2>6, <2>7 DEF TypeOK
<1>2. UiInv => RoutesBelong
  <2> SUFFICES ASSUME UiInv, NEW r \in ui.routes
               PROVE  Live(ui, r[1]) /\ r[2] \in ui.session[r[1]]
    BY DEF RoutesBelong
  <2>1. r = <<r[1], r[2]>> /\ r[1] \in OpIds /\ r[2] \in Apps
    BY DEF UiInv, Sound, UiStates, Pairs
  <2>2. r[2] \in ui.session[r[1]]  BY <2>1 DEF UiInv, Sound
  <2> QED  BY <2>1, <2>2 DEF UiInv, Sound, Outstanding
<1>3. UiInv => WaitingCanTimeOut
  <2> SUFFICES ASSUME UiInv, Handler, NEW o \in OpIds
               PROVE  /\ \A a \in ui.session[o] : <<o, a>> \in ui.routes /\ ui.gate[a] = o
                      /\ ui.due[o] = Cardinality(ui.matching[o])
                      /\ Live(ui, o) => Outstanding(ui, o) # {}
    BY DEF WaitingCanTimeOut
  <2>1. ui.session[o] \subseteq Apps  BY DEF UiInv, Sound, UiStates
  <2>2. \A a \in ui.session[o] : <<o, a>> \in ui.routes /\ ui.gate[a] = o
    BY <2>1 DEF UiInv, Sound
  <2>3. ui.due[o] = Cardinality(ui.matching[o])  BY DEF UiInv, Sound
  <2>4. ~AsksFor(stack, o)  BY DEF Handler, Idle, AsksFor
  <2> QED  BY <2>2, <2>3, <2>4 DEF UiInv, EveryoneWaits
<1> QED
  BY <1>1, <1>2, <1>3, PipelineInvariant, UiInvariant, SavesInvariant, PTL
     DEF EveryWaitIsRouted

=============================================================================
