-------------------------- MODULE MoveEngineProofs --------------------------
(***************************************************************************)
(* Theorems about MoveEngine for every number of windows, restores, jobs,  *)
(* retries and failures, in two parts.  The queue and the reservations do  *)
(* not depend on what the handlers have on the stack; the operations do.   *)
(***************************************************************************)
EXTENDS MoveEngine, SequenceTheorems, FiniteSetTheorems, TLAPS

-----------------------------------------------------------------------------
(* The queue and the reservations.  One invariant of the job table and the *)
(* reservations carries the safety properties: it is kept by the few ways  *)
(* in which an action changes them (marking jobs, ending jobs, passing a   *)
(* reservation on, claiming a window, issuing a move), and every action is *)
(* one of those.                                                           *)

Wants(r) == ~r.cancelReq /\ ~r.retire

\* The parts of the invariant, over a job table J, the next job id N,
\* reservations G and ended jobs S whose reservation is still to be released,
\* so that they can be stated of intermediate values too.
Typed(J, N, G, S) ==
    /\ N \in 1..(MaxJobs + 1)
    /\ DOMAIN J \subseteq 1..(N - 1)
    /\ J \in [DOMAIN J -> Job]
    /\ G \in [Windows -> {NoGuard, Picker} \cup JobIds]
    /\ S \subseteq 1..(N - 1) /\ S \cap DOMAIN J = {}
Movers(J, G) == \A j \in DOMAIN J : Wants(J[j]) => G[J[j].win] = j
Leaks(J, G, S) ==
    \A w \in Windows : G[w] \in JobIds =>
        \/ G[w] \in DOMAIN J /\ J[G[w]].win = w
        \/ G[w] \in S
Flights(J) ==
    \A j \in DOMAIN J :
        /\ J[j].awaiting => J[j].waiting
        /\ J[j].retire => J[j].waiting
        /\ J[j].waiting => J[j].attempts > 0 /\ \A k \in DOMAIN J : j <= k
        /\ ~J[j].waiting => J[j].attempts < MaxAttempts

QueueInv(J, N, G, S) ==
    Typed(J, N, G, S) /\ Movers(J, G) /\ Leaks(J, G, S) /\ Flights(J)

\* What a handler may write into a job it keeps and does not issue.
Milder(r, s) ==
    /\ s \in Job
    /\ s.op = r.op /\ s.win = r.win /\ s.attempts = r.attempts
    /\ Wants(s) => Wants(r)
    /\ s.awaiting => s.waiting
    /\ s.retire => s.waiting
    /\ s.waiting => r.waiting
    /\ ~s.waiting => s.attempts < MaxAttempts

Marked(J, B) ==
    /\ B \in [DOMAIN J -> Job]
    /\ \A j \in DOMAIN J : Milder(J[j], B[j])

Without(J, E) == [k \in DOMAIN J \ E |-> J[k]]
Released(G, E) == [w \in Windows |-> IF G[w] \in E THEN NoGuard ELSE G[w]]
With(J, n, r) == [k \in DOMAIN J \cup {n} |-> IF k = n THEN r ELSE J[k]]

-----------------------------------------------------------------------------
(* The ways in which the job table and the reservations change. *)

\* Marking jobs keeps the invariant.
LEMMA MarkKeeps ==
    ASSUME NEW J, NEW N, NEW G, NEW S, NEW B, QueueInv(J, N, G, S), Marked(J, B)
    PROVE  QueueInv(B, N, G, S)
<1>1. DOMAIN B = DOMAIN J
  BY DEF Marked
<1>2. Typed(B, N, G, S)
  BY <1>1 DEF QueueInv, Typed, Marked
<1>3. Movers(B, G)
  BY <1>1 DEF QueueInv, Movers, Marked, Milder
<1>4. Leaks(B, G, S)
  BY <1>1 DEF QueueInv, Leaks, Marked, Milder
<1>5. Flights(B)
  BY <1>1 DEF QueueInv, Flights, Marked, Milder
<1> QED  BY <1>2, <1>3, <1>4, <1>5 DEF QueueInv

\* A table marks itself, and marking one job marks the table.
LEMMA MarkNone ==
    ASSUME NEW J, NEW N, NEW G, NEW S, QueueInv(J, N, G, S)
    PROVE  Marked(J, J)
BY DEF QueueInv, Typed, Flights, Marked, Milder

LEMMA MarkOne ==
    ASSUME NEW J, NEW N, NEW G, NEW S, QueueInv(J, N, G, S),
           NEW j \in DOMAIN J, NEW r, Milder(J[j], r)
    PROVE  Marked(J, [J EXCEPT ![j] = r])
<1>1. Marked(J, J)
  BY MarkNone
<1> QED  BY <1>1 DEF QueueInv, Typed, Marked, Milder

\* Ending jobs and releasing their reservations keeps the invariant.
LEMMA EndKeeps ==
    ASSUME NEW J, NEW N, NEW G, NEW S, NEW E, QueueInv(J, N, G, S)
    PROVE  QueueInv(Without(J, E), N, Released(G, E), S)
<1> DEFINE K == Without(J, E)
           H == Released(G, E)
<1>1. DOMAIN K = DOMAIN J \ E /\ \A k \in DOMAIN K : K[k] = J[k]
  BY DEF Without
<1>2. \A w \in Windows : H[w] = IF G[w] \in E THEN NoGuard ELSE G[w]
  BY DEF Released
<1>3. Typed(K, N, H, S)
  <2>1. H \in [Windows -> {NoGuard, Picker} \cup JobIds]
    BY DEF Released, QueueInv, Typed
  <2>2. K \in [DOMAIN K -> Job]
    BY DEF Without, QueueInv, Typed
  <2> QED  BY <1>1, <2>1, <2>2 DEF QueueInv, Typed
<1>4. Movers(K, H)
  <2> SUFFICES ASSUME NEW j \in DOMAIN K, Wants(K[j])
               PROVE  H[K[j].win] = j
    BY DEF Movers
  <2>1. j \in DOMAIN J /\ j \notin E /\ K[j] = J[j] /\ K[j].win \in Windows
    BY <1>1 DEF QueueInv, Typed, Job
  <2>2. G[J[j].win] = j
    BY <2>1 DEF QueueInv, Movers
  <2> QED  BY <1>2, <2>1, <2>2
<1>5. Leaks(K, H, S)
  <2> SUFFICES ASSUME NEW w \in Windows, H[w] \in JobIds
               PROVE  \/ H[w] \in DOMAIN K /\ K[H[w]].win = w
                      \/ H[w] \in S
    BY DEF Leaks
  <2>1. NoGuard \notin JobIds
    BY EngineAssumption DEF JobIds
  <2>2. H[w] = G[w] /\ G[w] \notin E
    BY <1>2, <2>1
  <2>3. (G[w] \in DOMAIN J /\ J[G[w]].win = w) \/ G[w] \in S
    BY <2>2 DEF QueueInv, Leaks
  <2> QED  BY <1>1, <2>2, <2>3
<1>6. Flights(K)
  BY <1>1 DEF QueueInv, Flights
<1> QED  BY <1>3, <1>4, <1>5, <1>6 DEF QueueInv

\* A job may also end first and its reservation be released later.
LEMMA RemoveKeeps ==
    ASSUME NEW J, NEW N, NEW G, NEW S, QueueInv(J, N, G, S), NEW j \in DOMAIN J
    PROVE  QueueInv(Without(J, {j}), N, G, S \cup {j})
<1> DEFINE K == Without(J, {j})
           T == S \cup {j}
<1>1. DOMAIN K = DOMAIN J \ {j} /\ \A k \in DOMAIN K : K[k] = J[k]
  BY DEF Without
<1>2. Typed(K, N, G, T)
  <2>1. K \in [DOMAIN K -> Job]
    BY DEF Without, QueueInv, Typed
  <2> QED  BY <1>1, <2>1 DEF QueueInv, Typed
<1>3. Movers(K, G) /\ Leaks(K, G, T) /\ Flights(K)
  BY <1>1 DEF QueueInv, Movers, Leaks, Flights
<1> QED  BY <1>2, <1>3 DEF QueueInv

LEMMA ReleaseKeeps ==
    ASSUME NEW J, NEW N, NEW G, NEW S, QueueInv(J, N, G, S), NEW j \in S
    PROVE  QueueInv(J, N, Released(G, {j}), S \ {j})
<1> DEFINE H == Released(G, {j})
           T == S \ {j}
<1>1. \A w \in Windows : H[w] = IF G[w] \in {j} THEN NoGuard ELSE G[w]
  BY DEF Released
<1>2. Typed(J, N, H, T)
  <2>1. H \in [Windows -> {NoGuard, Picker} \cup JobIds]
    BY DEF Released, QueueInv, Typed
  <2> QED  BY <2>1 DEF QueueInv, Typed
<1>3. Movers(J, H)
  <2>1. \A k \in DOMAIN J : k # j /\ J[k].win \in Windows
    BY DEF QueueInv, Typed, Job
  <2> QED  BY <1>1, <2>1 DEF QueueInv, Movers
<1>4. Leaks(J, H, T)
  <2>1. NoGuard \notin JobIds
    BY EngineAssumption DEF JobIds
  <2> QED  BY <1>1, <2>1 DEF QueueInv, Leaks
<1> QED  BY <1>2, <1>3, <1>4 DEF QueueInv

\* A reservation may be dropped, or passed to the picker, if its holder no
\* longer wants to move the window.
LEMMA PassKeeps ==
    ASSUME NEW J, NEW N, NEW G, NEW S, QueueInv(J, N, G, S), NEW w \in Windows,
           G[w] \in DOMAIN J => ~Wants(J[G[w]]),
           NEW h \in {NoGuard, Picker}
    PROVE  QueueInv(J, N, [G EXCEPT ![w] = h], S)
<1> DEFINE H == [G EXCEPT ![w] = h]
<1>1. H \in [Windows -> {NoGuard, Picker} \cup JobIds] /\ H[w] = h
      /\ \A v \in Windows : v # w => H[v] = G[v]
  BY DEF QueueInv, Typed
<1>2. Typed(J, N, H, S)
  BY <1>1 DEF QueueInv, Typed
<1>3. Movers(J, H)
  <2> SUFFICES ASSUME NEW j \in DOMAIN J, Wants(J[j])
               PROVE  H[J[j].win] = j
    BY DEF Movers
  <2>1. G[J[j].win] = j /\ J[j].win \in Windows
    BY DEF QueueInv, Movers, Typed, Job
  <2>2. J[j].win # w
    BY <2>1
  <2> QED  BY <1>1, <2>1, <2>2
<1>4. Leaks(J, H, S)
  <2>1. h \notin JobIds
    BY EngineAssumption DEF JobIds
  <2> QED  BY <1>1, <2>1 DEF QueueInv, Leaks
<1> QED  BY <1>2, <1>3, <1>4 DEF QueueInv

\* A new job may take a reservation whose holder no longer wants to move the
\* window: its id is fresh and it goes to the back of the queue.
LEMMA ClaimKeeps ==
    ASSUME NEW J, NEW N, NEW G, NEW S, QueueInv(J, N, G, S), NEW w \in Windows,
           NEW o \in Ops, N <= MaxJobs,
           G[w] \in DOMAIN J => ~Wants(J[G[w]])
    PROVE  QueueInv(With(J, N, NewJob(o, w)), N + 1, [G EXCEPT ![w] = N], S)
<1> DEFINE K == With(J, N, NewJob(o, w))
           H == [G EXCEPT ![w] = N]
           r == NewJob(o, w)
<1>0. N \in Nat /\ N >= 1 /\ N \in JobIds /\ MaxJobs \in Nat
      /\ \A k \in DOMAIN J : k \in Nat /\ k < N
  BY EngineAssumption DEF QueueInv, Typed, JobIds
<1>1. r \in Job /\ r.win = w /\ Wants(r) /\ ~r.waiting /\ ~r.awaiting
      /\ r.attempts = 0 /\ 0 < MaxAttempts
  BY EngineAssumption DEF NewJob, Job, Wants
<1>2. N \notin DOMAIN J
  BY <1>0
<1>3. DOMAIN K = DOMAIN J \cup {N} /\ K[N] = r
      /\ \A k \in DOMAIN J : K[k] = J[k]
  BY <1>2 DEF With
<1>4. H \in [Windows -> {NoGuard, Picker} \cup JobIds] /\ H[w] = N
      /\ \A v \in Windows : v # w => H[v] = G[v]
  BY <1>0 DEF QueueInv, Typed
<1>5. Typed(K, N + 1, H, S)
  <2>1. K \in [DOMAIN K -> Job]
    BY <1>1, <1>3 DEF With, QueueInv, Typed
  <2>2. DOMAIN K \subseteq 1..((N + 1) - 1)
    BY <1>0, <1>3 DEF QueueInv, Typed
  <2>3. N + 1 \in 1..(MaxJobs + 1)
    BY <1>0
  <2>4. S \subseteq 1..((N + 1) - 1) /\ S \cap DOMAIN K = {}
    BY <1>0, <1>3 DEF QueueInv, Typed
  <2> QED  BY <1>4, <2>1, <2>2, <2>3, <2>4 DEF Typed
<1>6. Movers(K, H)
  <2> SUFFICES ASSUME NEW j \in DOMAIN K, Wants(K[j])
               PROVE  H[K[j].win] = j
    BY DEF Movers
  <2>1. CASE j = N
    BY <1>1, <1>3, <1>4, <2>1
  <2>2. CASE j \in DOMAIN J
    <3>1. G[J[j].win] = j /\ J[j].win \in Windows /\ K[j] = J[j]
      BY <1>3, <2>2 DEF QueueInv, Movers, Typed, Job
    <3>2. J[j].win # w
      BY <2>2, <3>1
    <3> QED  BY <1>4, <3>1, <3>2
  <2> QED  BY <1>3, <2>1, <2>2
<1>7. Leaks(K, H, S)
  <2> SUFFICES ASSUME NEW v \in Windows, H[v] \in JobIds
               PROVE  \/ H[v] \in DOMAIN K /\ K[H[v]].win = v
                      \/ H[v] \in S
    BY DEF Leaks
  <2>1. CASE v = w
    BY <1>1, <1>3, <1>4, <2>1
  <2>2. CASE v # w
    BY <1>3, <1>4, <2>2 DEF QueueInv, Leaks
  <2> QED  BY <2>1, <2>2
<1>8. Flights(K)
  <2> SUFFICES ASSUME NEW j \in DOMAIN K
               PROVE  /\ K[j].awaiting => K[j].waiting
                      /\ K[j].retire => K[j].waiting
                      /\ K[j].waiting =>
                            K[j].attempts > 0 /\ \A k \in DOMAIN K : j <= k
                      /\ ~K[j].waiting => K[j].attempts < MaxAttempts
    BY DEF Flights
  <2>1. CASE j = N
    BY <1>1, <1>3, <2>1 DEF Wants
  <2>2. CASE j \in DOMAIN J
    BY <1>0, <1>3, <2>2 DEF QueueInv, Flights
  <2> QED  BY <1>3, <2>1, <2>2
<1> QED  BY <1>5, <1>6, <1>7, <1>8 DEF QueueInv

\* The front job may issue its move if it waits for no readback: then no other
\* job waits for one either.
LEMMA IssueKeeps ==
    ASSUME NEW J, NEW N, NEW G, NEW S, QueueInv(J, N, G, S), NEW j \in DOMAIN J,
           ~J[j].waiting, \A k \in DOMAIN J : j <= k,
           NEW r \in Job, r.op = J[j].op, r.win = J[j].win,
           r.attempts = J[j].attempts + 1, r.waiting,
           Wants(r) => Wants(J[j])
    PROVE  QueueInv([J EXCEPT ![j] = r], N, G, S)
<1> DEFINE K == [J EXCEPT ![j] = r]
<1>1. DOMAIN K = DOMAIN J /\ K[j] = r /\ \A k \in DOMAIN J : k # j => K[k] = J[k]
  BY DEF QueueInv, Typed
<1>2. Typed(K, N, G, S)
  BY DEF QueueInv, Typed
<1>3. Movers(K, G)
  BY <1>1 DEF QueueInv, Movers
<1>4. Leaks(K, G, S)
  BY <1>1 DEF QueueInv, Leaks
<1>5. Flights(K)
  <2>1. \A k \in DOMAIN J : k # j => ~J[k].waiting
    BY DEF QueueInv, Flights, Typed
  <2>2. r.attempts > 0
    BY DEF QueueInv, Typed, Job
  <2> QED  BY <1>1, <2>1, <2>2 DEF QueueInv, Flights
<1> QED  BY <1>2, <1>3, <1>4, <1>5 DEF QueueInv

-----------------------------------------------------------------------------
(* The handlers' common parts. *)

QInv == QueueInv(jobs, nextJob, guard, settling)

\* Nothing the queue invariant speaks of changes.
LEMMA StutterQ ==
    ASSUME QInv, UNCHANGED queueVars
    PROVE  QInv'
BY DEF QInv, queueVars

LEMMA MarkOnlyQ ==
    ASSUME QInv, NEW base, Marked(jobs, base), jobs' = base,
           UNCHANGED <<nextJob, guard, settling>>
    PROVE  QInv'
BY MarkKeeps DEF QInv

LEMMA FinalizeReleases ==
    ASSUME NEW held, NEW ended, NEW succeeded,
           FinalizeMoveReservation(held, ended, succeeded)
    PROVE  guard' = Released(held, ended)
BY DEF FinalizeMoveReservation, ReleasedBy, Released

\* Settling the owner of the job j releases the reservation or leaves it to the
\* end of the handler; `held' are the reservations up to then.
ReleasesOrSettles(held, j) ==
    \/ guard' = Released(held, {j}) /\ settling' = settling
    \/ guard' = held /\ settling' = settling \cup {j}

LEMMA OwnerReleases ==
    ASSUME NEW held, NEW j, NEW terminal, NEW armFail, NEW rest,
           DispatchMoveOwnerResult(held, j, terminal, armFail, rest)
    PROVE  ReleasesOrSettles(held, j)
BY FinalizeReleases DEF DispatchMoveOwnerResult, ReleasesOrSettles

LEMMA EndJobQ ==
    ASSUME NEW J, NEW N, NEW G, QueueInv(J, N, G, settling), NEW j \in DOMAIN J,
           ReleasesOrSettles(G, j)
    PROVE  QueueInv(Without(J, {j}), N, guard', settling')
BY EndKeeps, RemoveKeeps DEF ReleasesOrSettles

LEMMA DispatchQ ==
    ASSUME QInv, NEW base, Marked(jobs, base), NEW j \in Queue,
           NEW terminal, NEW rest, DispatchMoveResult(base, j, terminal, rest)
    PROVE  QInv'
<1>1. QueueInv(base, nextJob, guard, settling) /\ DOMAIN base = Queue
  BY MarkKeeps DEF QInv, Marked, Queue
<1>2. jobs' = Without(base, {j}) /\ nextJob' = nextJob
  BY <1>1 DEF DispatchMoveResult, Without
<1>3. ReleasesOrSettles(guard, j)
  BY OwnerReleases DEF DispatchMoveResult
<1> QED  BY <1>1, <1>2, <1>3, EndJobQ DEF QInv

LEMMA TryCancelQ ==
    ASSUME QInv, NEW base, Marked(jobs, base), NEW j \in Queue,
           NEW after, NEW otherwise, TryCancel(base, j, after, otherwise)
    PROVE  QInv'
<1>1. CASE DispatchMoveResult(base, j, "Cancelled", after)
  BY <1>1, DispatchQ
<1>2. CASE MarkOnly(base, otherwise)
  BY <1>2, MarkOnlyQ DEF MarkOnly
<1> QED  BY <1>1, <1>2 DEF TryCancel

\* A record of the table that is written back with fewer wishes marks it.
LEMMA UpdateMarks ==
    ASSUME QInv, NEW j \in Queue, NEW r, Milder(jobs[j], r)
    PROVE  Marked(jobs, Update(j, r))
BY MarkOne DEF QInv, Update, Queue

LEMMA JobIsTyped ==
    ASSUME QInv, NEW j \in Queue
    PROVE  /\ jobs[j] \in Job
           /\ jobs[j].awaiting => jobs[j].waiting
           /\ jobs[j].retire => jobs[j].waiting
           /\ ~jobs[j].waiting => jobs[j].attempts < MaxAttempts
BY DEF QInv, QueueInv, Typed, Flights, Queue

LEMMA RetiringMarks ==
    ASSUME QInv, NEW base, Marked(jobs, base), NEW j \in Queue,
           base[j].awaiting
    PROVE  Marked(jobs, Retiring(base, j))
<1>1. base[j] \in Job /\ Milder(jobs[j], base[j])
  BY DEF Marked, Queue
<1>2. [base[j] EXCEPT !.retire = TRUE] \in Job
  BY <1>1 DEF Job
<1>3. Milder(jobs[j], [base[j] EXCEPT !.retire = TRUE])
  BY <1>1, <1>2 DEF Milder, Wants, Job
<1> QED  BY <1>3 DEF Retiring, Marked, Milder, Queue

LEMMA CancelReqMarks ==
    ASSUME QInv, NEW base, Marked(jobs, base), NEW j \in Queue
    PROVE  /\ Marked(jobs, [base EXCEPT ![j].cancelReq = TRUE])
           /\ [base EXCEPT ![j].cancelReq = TRUE][j].cancelReq
<1>1. base[j] \in Job /\ Milder(jobs[j], base[j]) /\ j \in DOMAIN base
  BY DEF Marked, Queue
<1>2. [base[j] EXCEPT !.cancelReq = TRUE] \in Job
      /\ [base[j] EXCEPT !.cancelReq = TRUE].cancelReq
  BY <1>1 DEF Job
<1>3. Milder(jobs[j], [base[j] EXCEPT !.cancelReq = TRUE])
  BY <1>1, <1>2 DEF Milder, Wants, Job
<1> QED  BY <1>1, <1>2, <1>3 DEF Marked, Milder, Queue

-----------------------------------------------------------------------------
(* One look at the front of the queue. *)

LEMMA IndeterminateQ ==
    ASSUME QInv, EngineAssumption, NEW j \in Queue,
           HandleIndeterminateMoveIdentity(j)
    PROVE  QInv'
<1> DEFINE count == IF jobs[j].indet < MaxIndeterminate
                    THEN jobs[j].indet + 1 ELSE jobs[j].indet
           counted == [jobs[j] EXCEPT !.indet = count]
           given == [counted EXCEPT !.cancelReq = TRUE]
<1>1. count \in 0..MaxIndeterminate
  BY JobIsTyped DEF Job, EngineAssumption
<1>2. counted \in Job /\ given \in Job
  BY <1>1, JobIsTyped DEF Job
<1>3. Milder(jobs[j], counted) /\ Milder(jobs[j], given)
  BY <1>2, JobIsTyped DEF Milder, Wants, Job
<1>4. Marked(jobs, Update(j, counted)) /\ Marked(jobs, Update(j, given))
  BY <1>3, UpdateMarks
<1>5. CASE MarkOnly(Update(j, counted), Rest)
  BY <1>4, <1>5, MarkOnlyQ DEF MarkOnly
<1>6. CASE TryCancel(Update(j, given), j, Rest, Rest)
  BY <1>4, <1>6, TryCancelQ
<1> QED  BY <1>5, <1>6 DEF HandleIndeterminateMoveIdentity

LEMMA CancelFrontQ ==
    ASSUME QInv, NEW j \in Queue, CancelFront(j)
    PROVE  QInv'
<1>1. Marked(jobs, jobs)
  BY MarkNone DEF QInv
<1> QED  BY <1>1, TryCancelQ DEF CancelFront

LEMMA IssueMoveQ ==
    ASSUME QInv, EngineAssumption, NEW j \in Queue, IsFront(j),
           ~jobs[j].waiting, IssueMove(j)
    PROVE  QInv'
<1> DEFINE issued == [jobs[j] EXCEPT !.attempts = @ + 1, !.waiting = TRUE,
                                     !.awaiting = TRUE, !.indet = 0]
<1>1. Marked(jobs, jobs)
  BY MarkNone DEF QInv
<1>2. CASE HandleIndeterminateMoveIdentity(j)
  BY <1>2, IndeterminateQ
<1>3. CASE TryCancel(jobs, j, <<Drain>> \o Rest, <<Drain>> \o Rest)
  BY <1>1, <1>3, TryCancelQ
<1>4. CASE DispatchMoveResult(jobs, j, "PermanentFailure", <<Drain>> \o Rest)
  BY <1>1, <1>4, DispatchQ
<1>5. CASE MarkOnly(Update(j, issued), <<Drain>> \o Rest)
  <2>1. jobs[j] \in Job /\ jobs[j].attempts < MaxAttempts
    BY JobIsTyped
  <2>2. jobs[j].attempts + 1 \in 0..MaxAttempts /\ 0 \in 0..MaxIndeterminate
    BY <2>1 DEF Job, EngineAssumption
  <2>3. issued \in Job
    BY <2>1, <2>2 DEF Job
  <2>4. /\ issued.op = jobs[j].op /\ issued.win = jobs[j].win
        /\ issued.attempts = jobs[j].attempts + 1 /\ issued.waiting
        /\ issued.cancelReq = jobs[j].cancelReq
        /\ issued.retire = jobs[j].retire
    BY <2>1 DEF Job
  <2>5. Wants(issued) => Wants(jobs[j])
    BY <2>4 DEF Wants
  <2>6. QueueInv([jobs EXCEPT ![j] = issued], nextJob, guard, settling)
    BY <2>3, <2>4, <2>5, IssueKeeps DEF QInv, Queue, IsFront
  <2>7. jobs' = [jobs EXCEPT ![j] = issued] /\ UNCHANGED <<nextJob, guard, settling>>
    BY <1>5 DEF MarkOnly, Update
  <2> QED  BY <2>6, <2>7 DEF QInv
<1> QED  BY <1>2, <1>3, <1>4, <1>5 DEF IssueMove

LEMMA IssueFrontQ ==
    ASSUME QInv, EngineAssumption, NEW j \in Queue, IsFront(j), IssueFront(j)
    PROVE  QInv'
<1>1. Marked(jobs, jobs)
  BY MarkNone DEF QInv
<1>2. CASE HandleIndeterminateMoveIdentity(j)
  BY <1>2, IndeterminateQ
<1>3. CASE TryCancel(jobs, j, <<Drain>> \o Rest, <<Drain>> \o Rest)
  BY <1>1, <1>3, TryCancelQ
<1>4. CASE DispatchMoveResult(jobs, j, "Succeeded", <<Drain>> \o Rest)
  BY <1>1, <1>4, DispatchQ
<1>5. CASE DispatchMoveResult(jobs, j, "PermanentFailure", <<Drain>> \o Rest)
  BY <1>1, <1>5, DispatchQ
<1>6. CASE ~jobs[j].waiting /\ IssueMove(j)
  BY <1>6, IssueMoveQ
<1> QED  BY <1>2, <1>3, <1>4, <1>5, <1>6 DEF IssueFront

LEMMA RetireIssuedQ ==
    ASSUME QInv, EngineAssumption, NEW j \in Queue, NEW read,
           jobs[j].waiting, RetireIssued(j, read)
    PROVE  QInv'
<1> DEFINE seen == IF read.identity = "Match"
                   THEN [jobs[j] EXCEPT !.indet = 0] ELSE jobs[j]
           count == IF jobs[j].unresolved < MaxUnresolved
                    THEN jobs[j].unresolved + 1 ELSE jobs[j].unresolved
           counted == [seen EXCEPT !.unresolved = count]
           safe == [seen EXCEPT !.awaiting = FALSE]
<1>1. count \in 0..MaxUnresolved
  BY JobIsTyped DEF Job, EngineAssumption
<1>2. seen \in Job /\ Milder(jobs[j], seen)
  BY JobIsTyped DEF Job, EngineAssumption, Milder, Wants
<1>3. counted \in Job /\ safe \in Job
  BY <1>1, <1>2 DEF Job
<1>4. Milder(jobs[j], counted) /\ Milder(jobs[j], safe)
  BY <1>2, <1>3 DEF Milder, Wants, Job
<1>5. /\ Marked(jobs, Update(j, seen)) /\ Marked(jobs, Update(j, counted))
      /\ Marked(jobs, Update(j, safe))
  BY <1>2, <1>4, UpdateMarks
<1>6. CASE TryCancel(Update(j, safe), j, <<Drain>> \o Rest, Rest)
  BY <1>5, <1>6, TryCancelQ
<1>7. CASE TryCancel(Update(j, seen), j, <<Drain>> \o Rest, Rest)
  BY <1>5, <1>7, TryCancelQ
<1>8. CASE TryCancel(Update(j, counted), j, <<Drain>> \o Rest, Rest)
  BY <1>5, <1>8, TryCancelQ
<1>9. CASE MarkOnly(Update(j, counted), Rest)
  BY <1>5, <1>9, MarkOnlyQ DEF MarkOnly
<1> QED  BY <1>6, <1>7, <1>8, <1>9 DEF RetireIssued

LEMMA VerifyIssuedQ ==
    ASSUME QInv, EngineAssumption, NEW j \in Queue, NEW read,
           jobs[j].waiting, ~jobs[j].retire, VerifyIssued(j, read)
    PROVE  QInv'
<1> DEFINE seen == [jobs[j] EXCEPT !.awaiting = FALSE,
                        !.indet = IF read.identity = "Match" THEN 0 ELSE @]
           again == [seen EXCEPT !.waiting = FALSE]
           base == Update(j, seen)
           after == <<Drain>> \o Rest
<1>0. jobs[j] \in Job /\ 0 \in 0..MaxIndeterminate
  BY JobIsTyped DEF EngineAssumption
<1>1. seen \in Job /\ seen.attempts = jobs[j].attempts
      /\ ~seen.retire /\ ~seen.awaiting
  BY <1>0 DEF Job
<1>2. Milder(jobs[j], seen)
  BY <1>1, JobIsTyped DEF Milder, Wants, Job
<1>3. Marked(jobs, base)
  BY <1>2, UpdateMarks
<1>4. CASE TryCancel(base, j, after, after)
  BY <1>3, <1>4, TryCancelQ
<1>5. CASE \E terminal \in {"Succeeded", "PermanentFailure", "Exhausted"} :
             DispatchMoveResult(base, j, terminal, after)
  BY <1>3, <1>5, DispatchQ
<1>6. CASE ~AttemptsUsedUp(j) /\ MarkOnly(Update(j, again), after)
  <2>1. jobs[j].attempts < MaxAttempts
    BY <1>6, JobIsTyped DEF Job, EngineAssumption, AttemptsUsedUp
  <2>2. again \in Job
    BY <1>1 DEF Job
  <2>3. Milder(jobs[j], again)
    BY <1>1, <1>2, <2>1, <2>2 DEF Milder, Wants, Job
  <2> QED  BY <1>6, <2>3, UpdateMarks, MarkOnlyQ DEF MarkOnly
<1> QED  BY <1>4, <1>5, <1>6 DEF VerifyIssued

LEMMA VerifyFrontQ ==
    ASSUME QInv, EngineAssumption, NEW j \in Queue, VerifyFront(j)
    PROVE  QInv'
BY IndeterminateQ, RetireIssuedQ, VerifyIssuedQ DEF VerifyFront

LEMMA AdvanceQ ==
    ASSUME QInv, AdvanceMoveQueue
    PROVE  QInv'
<1>1. CASE UNCHANGED queueVars
  BY <1>1, StutterQ
<1>2. CASE \E j \in Queue :
             IsFront(j) /\ (CancelFront(j) \/ IssueFront(j) \/ VerifyFront(j))
  BY <1>2, EngineAssumption, CancelFrontQ, IssueFrontQ, VerifyFrontQ
<1> QED  BY <1>1, <1>2 DEF AdvanceMoveQueue

-----------------------------------------------------------------------------
(* Cancelling, claiming and taking over. *)

LEMMA CancelLiveQ ==
    ASSUME QInv, NEW o \in Ops, CancelLiveOperation(o)
    PROVE  QInv'
<1>1. PICK keep \in SUBSET {j \in JobsOf(o) : MayAwaitTerminal(j)} :
        \E stuck \in SUBSET (JobsOf(o) \ keep) :
          LET ended == JobsOf(o) \ (keep \cup stuck)
          IN /\ jobs' = [j \in Queue \ ended |->
                           IF j \in keep THEN [jobs[j] EXCEPT !.retire = TRUE]
                           ELSE IF j \in stuck
                                THEN [jobs[j] EXCEPT !.cancelReq = TRUE]
                                ELSE jobs[j]]
             /\ FinalizeMoveReservation(guard, ended, FALSE)
             /\ UNCHANGED <<nextJob, settling>>
  BY DEF CancelLiveOperation
<1>2. PICK stuck \in SUBSET (JobsOf(o) \ keep) :
          LET ended == JobsOf(o) \ (keep \cup stuck)
          IN /\ jobs' = [j \in Queue \ ended |->
                           IF j \in keep THEN [jobs[j] EXCEPT !.retire = TRUE]
                           ELSE IF j \in stuck
                                THEN [jobs[j] EXCEPT !.cancelReq = TRUE]
                                ELSE jobs[j]]
             /\ FinalizeMoveReservation(guard, ended, FALSE)
             /\ UNCHANGED <<nextJob, settling>>
  BY <1>1
<1> DEFINE ended == JobsOf(o) \ (keep \cup stuck)
           retired(j) == [jobs[j] EXCEPT !.retire = TRUE]
           asked(j) == [jobs[j] EXCEPT !.cancelReq = TRUE]
           B == [j \in Queue |-> IF j \in keep THEN retired(j)
                                 ELSE IF j \in stuck THEN asked(j)
                                 ELSE jobs[j]]
<1>3. \A j \in Queue : /\ jobs[j] \in Job /\ Milder(jobs[j], jobs[j])
                       /\ Milder(jobs[j], asked(j))
                       /\ jobs[j].awaiting => Milder(jobs[j], retired(j))
  <2> SUFFICES ASSUME NEW j \in Queue
               PROVE  /\ jobs[j] \in Job /\ Milder(jobs[j], jobs[j])
                      /\ Milder(jobs[j], asked(j))
                      /\ jobs[j].awaiting => Milder(jobs[j], retired(j))
    OBVIOUS
  <2>1. jobs[j] \in Job /\ Milder(jobs[j], jobs[j])
    BY JobIsTyped DEF Milder
  <2>2. asked(j) \in Job /\ retired(j) \in Job
    BY <2>1 DEF Job
  <2>3. Milder(jobs[j], asked(j))
    BY <2>1, <2>2 DEF Milder, Wants, Job
  <2>4. jobs[j].awaiting => Milder(jobs[j], retired(j))
    BY <2>1, <2>2 DEF Milder, Wants, Job
  <2> QED  BY <2>1, <2>3, <2>4
<1>4. \A j \in keep : jobs[j].awaiting
  BY DEF MayAwaitTerminal
<1>5. \A j \in Queue : Milder(jobs[j], B[j])
  BY <1>3, <1>4
<1>6. Marked(jobs, B)
  <2>1. \A j \in Queue : B[j] \in Job
    BY <1>5 DEF Milder
  <2> QED  BY <1>5, <2>1 DEF Marked, Queue
<1>7. QueueInv(B, nextJob, guard, settling)
  BY <1>6, MarkKeeps DEF QInv
<1>8. jobs' = Without(B, ended) /\ UNCHANGED <<nextJob, settling>>
  BY <1>2 DEF Without
<1>9. guard' = Released(guard, ended)
  BY <1>2, FinalizeReleases
<1> QED  BY <1>7, <1>8, <1>9, EndKeeps DEF QInv

LEMMA CancelOperationQ ==
    ASSUME QInv, NEW o \in Ops, NEW rest, CancelOperation(o, rest)
    PROVE  QInv'
BY StutterQ, CancelLiveQ DEF CancelOperation

\* Somebody takes the window w over from the job j that holds it: j is marked
\* or ended first, so that it has no wish left when the reservation passes on.
LEMMA DisplaceQ ==
    ASSUME QInv, NEW base, Marked(jobs, base), NEW j \in Queue,
           NEW rest, CancelNowOrDefer(base, guard, j, rest), nextJob' = nextJob
    PROVE  QInv'
<1>1. DOMAIN base = Queue
  BY DEF Marked, Queue
<1>2. CASE /\ jobs' = [k \in DOMAIN base \ {j} |-> base[k]]
           /\ ReleasesOrSettles(guard, j)
  <2>1. jobs' = Without(base, {j})
    BY <1>2 DEF Without
  <2>2. QueueInv(base, nextJob, guard, settling)
    BY MarkKeeps DEF QInv
  <2> QED  BY <1>1, <1>2, <2>1, <2>2, EndJobQ DEF QInv
<1>3. CASE /\ jobs' = [base EXCEPT ![j].cancelReq = TRUE]
           /\ UNCHANGED <<guard, settling>>
  BY <1>3, CancelReqMarks, MarkOnlyQ
<1> QED  BY <1>2, <1>3, OwnerReleases DEF CancelNowOrDefer

LEMMA ArmQ ==
    ASSUME QInv, NEW o, ArmMoveTimer(o)
    PROVE  QInv'
<1> DEFINE marked == [j \in Queue |-> [jobs[j] EXCEPT !.cancelReq = TRUE,
                                                     !.armFail = TRUE]]
<1>1. Marked(jobs, marked) /\ \A j \in Queue : marked[j].awaiting = jobs[j].awaiting
  <2> SUFFICES ASSUME NEW j \in Queue
               PROVE  /\ marked[j] \in Job /\ Milder(jobs[j], marked[j])
                      /\ marked[j].awaiting = jobs[j].awaiting
    BY DEF Marked, Queue
  <2>1. jobs[j] \in Job /\ Milder(jobs[j], jobs[j])
    BY JobIsTyped DEF Milder
  <2>2. marked[j] \in Job
    BY <2>1 DEF Job
  <2> QED  BY <2>1, <2>2 DEF Milder, Wants, Job
<1>2. CASE UNCHANGED queueVars
  BY <1>2, StutterQ
<1>3. ASSUME NEW j \in Queue, MayAwaitTerminal(j),
             jobs' = Retiring(marked, j), UNCHANGED <<nextJob, guard, settling>>
      PROVE  QInv'
  BY <1>1, <1>3, RetiringMarks, MarkOnlyQ DEF MayAwaitTerminal
<1>4. ASSUME NEW j \in Queue, NEW after, nextJob' = nextJob,
             CancelNowOrDefer(marked, guard, j, after)
      PROVE  QInv'
  BY <1>1, <1>4, DisplaceQ
<1> QED  BY <1>2, <1>3, <1>4 DEF ArmMoveTimer, ArmFailure, queueVars

LEMMA QueueAutoQ ==
    ASSUME QInv, NEW o \in AutoOps, NEW w \in Windows, QueueAutoMove(o, w)
    PROVE  QInv'
<1>1. guard[w] \notin DOMAIN jobs
  BY EngineAssumption DEF QueueAutoMove, QInv, QueueInv, Typed
<1>2. jobs' = With(jobs, nextJob, NewJob(o, w))
  BY DEF QueueAutoMove, Enqueue, With, Queue
<1>3. QueueInv(With(jobs, nextJob, NewJob(o, w)), nextJob + 1,
               [guard EXCEPT ![w] = nextJob], settling)
  BY <1>1, ClaimKeeps DEF QInv, QueueAutoMove, MayQueue, Ops
<1> QED  BY <1>2, <1>3 DEF QInv, QueueAutoMove

LEMMA AutoPlanLoopQ ==
    ASSUME QInv, NEW o \in AutoOps, NEW todo \in SUBSET Windows,
           AutoPlanLoop(o, todo)
    PROVE  QInv'
BY StutterQ, QueueAutoQ DEF AutoPlanLoop

LEMMA RearmQ ==
    ASSUME QInv, NEW o \in AutoOps, NEW todo \in SUBSET Windows, NEW queued,
           RearmPickerClaims(o, todo, queued)
    PROVE  QInv'
BY StutterQ, QueueAutoQ DEF RearmPickerClaims

LEMMA QueueManualQ ==
    ASSUME QInv, NEW o \in ManualOps, NEW w \in Windows, NEW rest,
           QueueManualMove(o, w, rest)
    PROVE  QInv'
<1> DEFINE base == Enqueue(o, w)
           held == [guard EXCEPT ![w] = nextJob]
           prior == guard[w]
           r == NewJob(o, w)
<1>1. /\ nextJob <= MaxJobs /\ nextJob' = nextJob + 1 /\ o \in Ops
      /\ nextJob \notin Queue /\ guard \in [Windows -> {NoGuard, Picker} \cup JobIds]
  BY EngineAssumption
     DEF QueueManualMove, MayQueue, Ops, QInv, QueueInv, Typed, Queue
<1>2. base = With(jobs, nextJob, r)
  BY DEF Enqueue, With, Queue
<1>3. CASE /\ prior \notin Queue /\ jobs' = base /\ guard' = held
           /\ UNCHANGED settling
  <2>1. QueueInv(With(jobs, nextJob, r), nextJob + 1, held, settling)
    BY <1>1, <1>3, ClaimKeeps DEF QInv, Queue
  <2> QED  BY <1>1, <1>2, <1>3, <2>1 DEF QInv
<1>4. CASE /\ prior \in Queue /\ MayAwaitTerminal(prior)
           /\ jobs' = Retiring(base, prior) /\ guard' = held
           /\ UNCHANGED settling
  <2> DEFINE J == Retiring(jobs, prior)
  <2>1. Marked(jobs, J)
    BY <1>4, MarkNone, RetiringMarks DEF QInv, MayAwaitTerminal
  <2>2. QueueInv(J, nextJob, guard, settling) /\ DOMAIN J = Queue
    BY <2>1, MarkKeeps DEF QInv, Marked, Queue
  <2>3. jobs[prior] \in Job
    BY <1>4, JobIsTyped
  <2>4. J[prior].retire
    BY <1>4, <2>3 DEF Retiring, Job, Queue
  <2>5. QueueInv(With(J, nextJob, r), nextJob + 1, held, settling)
    BY <1>1, <2>2, <2>4, ClaimKeeps DEF Wants
  <2>6. Retiring(base, prior) = With(J, nextJob, r)
    BY <1>1, <1>2, <1>4, <2>2 DEF Retiring, With, Queue
  <2> QED  BY <1>1, <1>4, <2>5, <2>6 DEF QInv
<1>5. CASE /\ prior \in Queue /\ guard' = held /\ UNCHANGED settling
           /\ jobs' = [base EXCEPT ![prior].cancelReq = TRUE]
  <2> DEFINE J == [jobs EXCEPT ![prior].cancelReq = TRUE]
  <2>1. Marked(jobs, J) /\ J[prior].cancelReq
    BY <1>5, MarkNone, CancelReqMarks DEF QInv
  <2>2. QueueInv(J, nextJob, guard, settling) /\ DOMAIN J = Queue
    BY <2>1, MarkKeeps DEF QInv, Marked, Queue
  <2>3. QueueInv(With(J, nextJob, r), nextJob + 1, held, settling)
    BY <1>1, <2>1, <2>2, ClaimKeeps DEF Wants
  <2>4. [base EXCEPT ![prior].cancelReq = TRUE] = With(J, nextJob, r)
    BY <1>1, <1>2, <1>5, <2>2 DEF With, Queue
  <2> QED  BY <1>1, <1>5, <2>3, <2>4 DEF QInv
<1>6. CASE /\ prior \in Queue
           /\ jobs' = [k \in DOMAIN base \ {prior} |-> base[k]]
           /\ ReleasesOrSettles(held, prior)
  <2> DEFINE J == Without(jobs, {prior})
             G == Released(guard, {prior})
  <2>1. jobs' = With(J, nextJob, r)
    <3>1. DOMAIN base = Queue \cup {nextJob} /\ nextJob # prior
      BY <1>1, <1>2, <1>6 DEF With, Queue
    <3>2. DOMAIN J = Queue \ {prior}
      BY DEF Without, Queue
    <3> QED  BY <1>1, <1>2, <1>6, <3>1, <3>2 DEF With, Without, Queue
  <2>2. NoGuard \notin DOMAIN J /\ prior \notin DOMAIN J
    BY EngineAssumption DEF Without, QInv, QueueInv, Typed
  <2>3. CASE guard' = Released(held, {prior}) /\ UNCHANGED settling
    <3>1. G[w] = NoGuard
      BY DEF Released
    <3>2. QueueInv(J, nextJob, G, settling)
      BY EndKeeps DEF QInv
    <3>3. QueueInv(With(J, nextJob, r), nextJob + 1,
                   [G EXCEPT ![w] = nextJob], settling)
      BY <1>1, <2>2, <3>1, <3>2, ClaimKeeps
    <3>4. guard' = [G EXCEPT ![w] = nextJob]
      <4>1. nextJob # prior
        BY <1>1, <1>6
      <4>2. \A v \in Windows : v # w => held[v] = guard[v]
        BY <1>1
      <4> QED  BY <1>1, <2>3, <4>1, <4>2 DEF Released
    <3> QED  BY <1>1, <2>1, <2>3, <3>3, <3>4 DEF QInv
  <2>4. CASE guard' = held /\ settling' = settling \cup {prior}
    <3>1. QueueInv(J, nextJob, guard, settling \cup {prior})
      BY <1>6, RemoveKeeps DEF QInv, Queue
    <3>2. QueueInv(With(J, nextJob, r), nextJob + 1, held, settling \cup {prior})
      BY <1>1, <2>2, <3>1, ClaimKeeps
    <3> QED  BY <1>1, <2>1, <2>4, <3>2 DEF QInv
  <2> QED  BY <1>6, <2>3, <2>4 DEF ReleasesOrSettles
<1> QED  BY <1>3, <1>4, <1>5, <1>6, OwnerReleases
         DEF QueueManualMove, Installed, CancelNowOrDefer

LEMMA ManualPlanLoopQ ==
    ASSUME QInv, NEW o \in ManualOps, NEW todo \in SUBSET Windows,
           ManualPlanLoop(o, todo)
    PROVE  QInv'
BY StutterQ, QueueManualQ DEF ManualPlanLoop

LEMMA StartManualQ ==
    ASSUME QInv, NEW o \in ManualOps, NEW old \in SUBSET ManualOps,
           StartManualRestore(o, old)
    PROVE  QInv'
BY StutterQ, CancelOperationQ DEF StartManualRestore, Ops

LEMMA BeginPickerQ ==
    ASSUME QInv, NEW w \in Windows, BeginPickerAction(w)
    PROVE  QInv'
<1> DEFINE prior == guard[w]
           held == [guard EXCEPT ![w] = Picker]
<1>1. nextJob' = nextJob /\ guard \in [Windows -> {NoGuard, Picker} \cup JobIds]
  BY DEF BeginPickerAction, QInv, QueueInv, Typed
<1>2. CASE prior = NoGuard /\ guard' = held /\ UNCHANGED <<jobs, settling>>
  <2>1. prior \notin DOMAIN jobs
    BY <1>2, EngineAssumption DEF QInv, QueueInv, Typed
  <2> QED  BY <1>1, <1>2, <2>1, PassKeeps DEF QInv
<1>3. CASE /\ prior \in Queue /\ guard' = held /\ UNCHANGED settling
           /\ jobs' = [jobs EXCEPT ![prior].cancelReq = TRUE]
  <2> DEFINE J == [jobs EXCEPT ![prior].cancelReq = TRUE]
  <2>1. Marked(jobs, J) /\ J[prior].cancelReq
    BY <1>3, MarkNone, CancelReqMarks DEF QInv
  <2>2. QueueInv(J, nextJob, guard, settling)
    BY <2>1, MarkKeeps DEF QInv
  <2> QED  BY <1>1, <1>3, <2>1, <2>2, PassKeeps DEF QInv, Wants
<1>4. CASE /\ prior \in Queue
           /\ jobs' = [k \in DOMAIN jobs \ {prior} |-> jobs[k]]
           /\ ReleasesOrSettles(held, prior)
  <2> DEFINE J == Without(jobs, {prior})
             G == Released(guard, {prior})
  <2>1. jobs' = J
    BY <1>4 DEF Without
  <2>2. NoGuard \notin DOMAIN J /\ prior \notin DOMAIN J
    BY EngineAssumption DEF Without, QInv, QueueInv, Typed
  <2>3. CASE guard' = Released(held, {prior}) /\ UNCHANGED settling
    <3>1. QueueInv(J, nextJob, G, settling) /\ G[w] = NoGuard
      BY EndKeeps DEF QInv, Released
    <3>2. QueueInv(J, nextJob, [G EXCEPT ![w] = Picker], settling)
      BY <2>2, <3>1, PassKeeps
    <3>3. guard' = [G EXCEPT ![w] = Picker]
      <4>1. Picker # prior
        BY <1>4, EngineAssumption DEF QInv, QueueInv, Typed, Queue
      <4>2. \A v \in Windows : v # w => held[v] = guard[v]
        BY <1>1
      <4> QED  BY <1>1, <2>3, <4>1, <4>2 DEF Released
    <3> QED  BY <1>1, <2>1, <2>3, <3>2, <3>3 DEF QInv
  <2>4. CASE guard' = held /\ settling' = settling \cup {prior}
    <3>1. QueueInv(J, nextJob, guard, settling \cup {prior})
      BY <1>4, RemoveKeeps DEF QInv, Queue
    <3>2. QueueInv(J, nextJob, held, settling \cup {prior})
      BY <2>2, <3>1, PassKeeps
    <3> QED  BY <1>1, <2>1, <2>4, <3>2 DEF QInv
  <2> QED  BY <1>4, <2>3, <2>4 DEF ReleasesOrSettles
<1> QED  BY <1>2, <1>3, <1>4, OwnerReleases DEF BeginPickerAction, Installed, CancelNowOrDefer

LEMMA PickerEndsQ ==
    ASSUME QInv, NEW w \in Windows, PickerTransitionEnds(w)
    PROVE  QInv'
<1>1. guard[w] \notin DOMAIN jobs
  BY EngineAssumption DEF PickerTransitionEnds, QInv, QueueInv, Typed
<1>2. QueueInv(jobs, nextJob, [guard EXCEPT ![w] = NoGuard], settling)
  BY <1>1, PassKeeps DEF QInv
<1> QED  BY <1>2 DEF PickerTransitionEnds, QInv

\* The reservation of a settled job is released at the end of its handler.
LEMMA ReleaseQ ==
    ASSUME QInv, NEW j \in settling, NEW succeeded, ReleaseReservation(j, succeeded)
    PROVE  QInv'
<1>1. guard' = Released(guard, {j})
  BY FinalizeReleases DEF ReleaseReservation
<1> QED  BY <1>1, ReleaseKeeps DEF QInv, ReleaseReservation

LEMMA TimerThrowsQ ==
    ASSUME QInv, MoveTimerThrows
    PROVE  QInv'
<1>1. Marked(jobs, jobs) /\ UNCHANGED <<nextJob, guard, settling>>
  BY MarkNone DEF QInv, MoveTimerThrows
<1>2. CASE UNCHANGED jobs
  BY <1>1, <1>2, MarkOnlyQ
<1>3. ASSUME NEW j \in Queue, MayAwaitTerminal(j), jobs' = Retiring(jobs, j)
      PROVE  QInv'
  BY <1>1, <1>3, RetiringMarks, MarkOnlyQ DEF MayAwaitTerminal
<1>4. ASSUME NEW j \in Queue, jobs' = [jobs EXCEPT ![j].cancelReq = TRUE]
      PROVE  QInv'
  BY <1>1, <1>4, CancelReqMarks, MarkOnlyQ
<1> QED  BY <1>2, <1>3, <1>4 DEF MoveTimerThrows

\* Every step keeps the invariant of the queue and the reservations.
LEMMA StepQ ==
    ASSUME QInv, [Next]_vars
    PROVE  QInv'
<1>1. CASE Calls
  <2>1. CASE AdvanceMoveQueue
    BY <2>1, AdvanceQ
  <2>2. CASE DrainQueue \/ ArmRecovery \/ \E n \in 0..MaxJobs : CompletePostedAttempt(n)
    BY <2>2, StutterQ DEF DrainQueue, ArmRecovery, CompletePostedAttempt
  <2>3. CASE \E o \in Ops : CancelCall(o)
    BY <2>3, CancelOperationQ DEF CancelCall
  <2>4. CASE \E o \in AutoOps \cup {NoOp} : ArmMoveTimer(o)
    BY <2>4, ArmQ
  <2>5. ASSUME NEW o \in ManualOps,
               \/ FinishManualMove(o)
               \/ \E old \in SUBSET ManualOps : StartManualRestore(o, old)
               \/ \E todo \in SUBSET Windows : ManualPlanLoop(o, todo)
        PROVE  QInv'
    BY <2>5, StutterQ, StartManualQ, ManualPlanLoopQ DEF FinishManualMove
  <2>6. ASSUME NEW o \in AutoOps,
               \/ FinishAutoOperation(o)
               \/ \E todo \in SUBSET Windows :
                    \/ AutoPlanLoop(o, todo)
                    \/ \E queued \in BOOLEAN : RearmPickerClaims(o, todo, queued)
        PROVE  QInv'
    BY <2>6, StutterQ, AutoPlanLoopQ, RearmQ DEF FinishAutoOperation
  <2>7. CASE \E j \in settling : \E ok \in BOOLEAN : ReleaseReservation(j, ok)
    BY <2>7, ReleaseQ
  <2> QED  BY <1>1, <2>1, <2>2, <2>3, <2>4, <2>5, <2>6, <2>7 DEF Calls
<1>2. CASE MoveTimerThrows
  BY <1>2, TimerThrowsQ
<1>3. CASE MoveTimer \/ CancelRetryMessage \/ Heartbeat
  BY <1>3, StutterQ DEF MoveTimer, CancelRetryMessage, Heartbeat
<1>4. CASE \E o \in AutoOps : \/ BeginAutoRestore(o) \/ AutoPlanResult(o)
                              \/ AutoPlanDeferred(o) \/ ResetAutoRuntime(o)
  BY <1>4, StutterQ
     DEF BeginAutoRestore, AutoPlanResult, AutoPlanDeferred, ResetAutoRuntime
<1>5. CASE \/ \E o \in ManualOps : \/ ManualRestoreClick(o)
                                   \/ \E a \in Apps : ManualPlanResult(o, a)
           \/ \E o \in Ops : RetireOperation(o)
  BY <1>5, StutterQ DEF ManualRestoreClick, ManualPlanResult, RetireOperation
<1>6. ASSUME NEW w \in Windows,
             \/ BeginPickerAction(w) \/ PickerTransitionEnds(w) \/ WindowCloses(w)
      PROVE  QInv'
  BY <1>6, StutterQ, BeginPickerQ, PickerEndsQ DEF WindowCloses
<1>7. CASE UNCHANGED vars
  BY <1>7, StutterQ DEF vars
<1> QED  BY <1>1, <1>2, <1>3, <1>4, <1>5, <1>6, <1>7 DEF Next

LEMMA InitQ ==
    ASSUME Init
    PROVE  QInv
<1>1. DOMAIN jobs = {} /\ jobs \in [{} -> Job] /\ nextJob = 1
      /\ guard = [w \in Windows |-> NoGuard] /\ settling = {}
  BY DEF Init
<1>2. \A w \in Windows : guard[w] = NoGuard /\ NoGuard \notin JobIds
  BY <1>1, EngineAssumption DEF JobIds
<1>3. Typed(jobs, nextJob, guard, settling)
  BY <1>1, EngineAssumption DEF Typed
<1>4. Movers(jobs, guard) /\ Leaks(jobs, guard, settling) /\ Flights(jobs)
  BY <1>1, <1>2 DEF Movers, Leaks, Flights
<1> QED  BY <1>3, <1>4 DEF QInv, QueueInv

\* The invariant of the queue and the reservations holds of every behaviour.
THEOREM QueueInvariant == Spec => []QInv
BY InitQ, StepQ, PTL DEF Spec

-----------------------------------------------------------------------------
(* The safety properties. *)

\* A job that may still issue a move holds its window's reservation.
THEOREM MoverHoldsGuardAlways == Spec => []MoverHoldsGuard
<1>1. QInv => MoverHoldsGuard
  BY DEF QInv, QueueInv, Movers, MoverHoldsGuard, MayIssue, Wants, Queue
<1> QED  BY <1>1, QueueInvariant, PTL

\* No reservation is left behind by a job that is gone.
THEOREM NoLeakedGuardAlways == Spec => []NoLeakedGuard
<1>1. QInv => NoLeakedGuard
  BY DEF QInv, QueueInv, Leaks, NoLeakedGuard, Queue
<1> QED  BY <1>1, QueueInvariant, PTL

\* At most one move is in flight, and it is the front job's.
THEOREM OneMoveInFlightAlways == Spec => []OneMoveInFlight
<1>1. QInv => OneMoveInFlight
  BY DEF QInv, QueueInv, Flights, OneMoveInFlight, IsFront, Queue
<1> QED  BY <1>1, QueueInvariant, PTL

-----------------------------------------------------------------------------
(* The types of the other variables. *)

OpTypes ==
    /\ phase \in [Ops -> {"new", "live", "cancelling", "gone"}]
    /\ pending \in [Ops -> SUBSET Apps]
    /\ claims \in [AutoOps -> SUBSET Windows]
    /\ failed \in [AutoOps -> BOOLEAN]
    /\ outcome \in [AutoOps ->
            {"none", "Success", "Exhausted", "Deferred", "Cancelled"}]
WakeTypes ==
    /\ cancelPending \in BOOLEAN /\ timer \in BOOLEAN
    /\ retry \in [posted : BOOLEAN, noProgress : 0..MaxNoProgress]
    /\ msgs \in 0..MaxPosts
EnvTypes == heartbeatDeferred \in BOOLEAN /\ lost \subseteq Windows /\ disarmed \subseteq Ops
Types == OpTypes /\ WakeTypes /\ EnvTypes

\* Publishing a cancellation and scheduling its retry keep the types.
LEMMA RefreshTypes ==
    ASSUME WakeTypes, RefreshMoveCancellationPending, UNCHANGED <<timer, msgs>>
    PROVE  WakeTypes'
<1>1. cancelPending' \in BOOLEAN
  BY DEF RefreshMoveCancellationPending, AnyCancelRequested
<1>2. ClearRetry \in [posted : BOOLEAN, noProgress : 0..MaxNoProgress]
  BY EngineAssumption DEF ClearRetry
<1> QED  BY <1>1, <1>2 DEF WakeTypes, RefreshMoveCancellationPending

LEMMA PostTypes ==
    ASSUME msgs \in 0..MaxPosts, NEW state, PostRetry(state),
           state \in [posted : BOOLEAN, noProgress : 0..MaxNoProgress]
    PROVE  /\ msgs' \in 0..MaxPosts
           /\ retry' \in [posted : BOOLEAN, noProgress : 0..MaxNoProgress]
<1>1. msgs \in Nat /\ MaxPosts \in Nat /\ msgs <= MaxPosts
  BY EngineAssumption
<1>2. CASE retry' = state /\ UNCHANGED msgs
  BY <1>2
<1>3. CASE /\ msgs < MaxPosts
           /\ retry' = [state EXCEPT !.posted = TRUE]
           /\ msgs' = msgs + 1
  <2>1. retry' \in [posted : BOOLEAN, noProgress : 0..MaxNoProgress]
    BY <1>3
  <2>2. msgs' \in 0..MaxPosts
    BY <1>1, <1>3
  <2> QED  BY <2>1, <2>2
<1> QED  BY <1>2, <1>3 DEF PostRetry

LEMMA ScheduleTypes ==
    ASSUME WakeTypes, RefreshAndScheduleRetry
    PROVE  WakeTypes'
<1>1. cancelPending' \in BOOLEAN
  BY DEF RefreshAndScheduleRetry, AnyCancelRequested
<1>2. ClearRetry \in [posted : BOOLEAN, noProgress : 0..MaxNoProgress]
  BY EngineAssumption DEF ClearRetry
<1> QED  BY <1>1, <1>2, PostTypes DEF WakeTypes, RefreshAndScheduleRetry

LEMMA FinalizeTypes ==
    ASSUME heartbeatDeferred \in BOOLEAN, NEW held, NEW ended, NEW succeeded,
           FinalizeMoveReservation(held, ended, succeeded)
    PROVE  heartbeatDeferred' \in BOOLEAN
<1>1. CASE heartbeatDeferred' = TRUE
  BY <1>1
<1>2. CASE heartbeatDeferred' = FALSE
  BY <1>2
<1> QED  BY <1>1, <1>2 DEF FinalizeMoveReservation, StaysDeferred

\* Settling a job's operation keeps the types of the operations.
LEMMA OwnerTypes ==
    ASSUME OpTypes, QInv, NEW j \in Queue, NEW terminal, NEW armFail, NEW rest,
           NEW held, DispatchMoveOwnerResult(held, j, terminal, armFail, rest),
           UNCHANGED <<pending, claims, outcome>>
    PROVE  OpTypes'
<1>1. jobs[j].op \in Ops
  BY JobIsTyped DEF Job
<1>2. phase' \in [Ops -> {"new", "live", "cancelling", "gone"}]
  BY <1>1 DEF OpTypes, DispatchMoveOwnerResult
<1>3. failed' \in [AutoOps -> BOOLEAN]
  BY <1>1 DEF OpTypes, DispatchMoveOwnerResult
<1> QED  BY <1>2, <1>3 DEF OpTypes

LEMMA OwnerHeartbeatTypes ==
    ASSUME heartbeatDeferred \in BOOLEAN, NEW held, NEW j, NEW terminal,
           NEW armFail, NEW rest,
           DispatchMoveOwnerResult(held, j, terminal, armFail, rest)
    PROVE  heartbeatDeferred' \in BOOLEAN
BY FinalizeTypes DEF DispatchMoveOwnerResult

LEMMA DispatchTypes ==
    ASSUME OpTypes, EnvTypes, QInv, NEW base, NEW j \in Queue,
           NEW terminal, NEW rest, DispatchMoveResult(base, j, terminal, rest),
           UNCHANGED disarmed
    PROVE  OpTypes' /\ EnvTypes'
BY OwnerTypes, OwnerHeartbeatTypes DEF DispatchMoveResult, EnvTypes

LEMMA MarkTypes ==
    ASSUME OpTypes, EnvTypes, NEW base, NEW rest, MarkOnly(base, rest),
           UNCHANGED disarmed
    PROVE  OpTypes' /\ EnvTypes'
BY DEF MarkOnly, EnvTypes, OpTypes, opVars

LEMMA TryTypes ==
    ASSUME OpTypes, EnvTypes, QInv, NEW base, NEW j \in Queue, NEW after,
           NEW otherwise, TryCancel(base, j, after, otherwise),
           UNCHANGED disarmed
    PROVE  OpTypes' /\ EnvTypes'
BY DispatchTypes, MarkTypes DEF TryCancel

LEMMA SameWakeTypes ==
    ASSUME WakeTypes, UNCHANGED wakeVars
    PROVE  WakeTypes'
BY DEF WakeTypes, wakeVars

LEMMA IndeterminateTypes ==
    ASSUME Types, QInv, NEW j \in Queue, HandleIndeterminateMoveIdentity(j),
           UNCHANGED disarmed
    PROVE  Types'
BY TryTypes, MarkTypes, RefreshTypes, SameWakeTypes
   DEF Types, HandleIndeterminateMoveIdentity

LEMMA FrontTypes ==
    ASSUME Types, QInv, NEW j \in Queue, UNCHANGED disarmed,
           CancelFront(j) \/ IssueFront(j) \/ VerifyFront(j)
    PROVE  Types'
<1>1. CASE CancelFront(j)
  BY <1>1, TryTypes, RefreshTypes DEF CancelFront, Types
<1>2. CASE IssueMove(j)
  BY <1>2, IndeterminateTypes, TryTypes, MarkTypes, DispatchTypes, SameWakeTypes
     DEF IssueMove, Types
<1>3. CASE IssueFront(j)
  BY <1>2, <1>3, IndeterminateTypes, TryTypes, DispatchTypes, SameWakeTypes
     DEF IssueFront, Types
<1>4. ASSUME NEW read, RetireIssued(j, read)
      PROVE  OpTypes' /\ EnvTypes'
  BY <1>4, TryTypes, MarkTypes DEF RetireIssued, Types
<1>5. ASSUME NEW read, VerifyIssued(j, read)
      PROVE  OpTypes' /\ EnvTypes'
  BY <1>5, TryTypes, DispatchTypes, MarkTypes DEF VerifyIssued, Types
<1>6. CASE VerifyFront(j)
  BY <1>4, <1>5, <1>6, IndeterminateTypes, SameWakeTypes DEF VerifyFront, Types
<1> QED  BY <1>1, <1>3, <1>6

LEMMA CancelTypes ==
    ASSUME Types, NEW o \in Ops, NEW rest, CancelOperation(o, rest)
    PROVE  Types'
<1>1. CASE CancelLiveOperation(o)
  <2>1. OpTypes'
    BY <1>1 DEF CancelLiveOperation, ToldCancelled, Types, OpTypes
  <2>2. WakeTypes'
    BY <1>1, RefreshTypes, ScheduleTypes DEF CancelLiveOperation, Types
  <2>3. heartbeatDeferred' \in BOOLEAN
    BY <1>1, FinalizeTypes DEF CancelLiveOperation, Types, EnvTypes
  <2> QED  BY <2>1, <2>2, <2>3 DEF Types, EnvTypes, CancelOperation
<1>2. CASE UNCHANGED <<queueVars, opVars, heartbeatDeferred>>
           /\ (UNCHANGED wakeVars \/ RefreshAndScheduleRetry)
  BY <1>2, SameWakeTypes, ScheduleTypes
     DEF CancelOperation, Types, OpTypes, EnvTypes, opVars
<1> QED  BY <1>1, <1>2 DEF CancelOperation

LEMMA CancelNowTypes ==
    ASSUME OpTypes, WakeTypes, heartbeatDeferred \in BOOLEAN, QInv,
           NEW base, NEW held, NEW j \in Queue, NEW rest,
           CancelNowOrDefer(base, held, j, rest),
           UNCHANGED <<pending, claims, outcome>>
    PROVE  OpTypes' /\ WakeTypes' /\ heartbeatDeferred' \in BOOLEAN
<1>1. CASE UNCHANGED <<heartbeatDeferred, phase, failed>> /\ RefreshAndScheduleRetry
  BY <1>1, ScheduleTypes DEF OpTypes
<1>2. CASE /\ DispatchMoveOwnerResult(held, j, "Cancelled", base[j].armFail, rest)
           /\ RefreshMoveCancellationPending /\ UNCHANGED <<timer, msgs>>
  BY <1>2, OwnerTypes, OwnerHeartbeatTypes, RefreshTypes
<1> QED  BY <1>1, <1>2 DEF CancelNowOrDefer

LEMMA ArmTypes ==
    ASSUME Types, QInv, NEW o, ArmMoveTimer(o)
    PROVE  Types'
<1>1. CASE /\ timer' = TRUE \/ UNCHANGED timer
           /\ UNCHANGED <<phase, failed, heartbeatDeferred, cancelPending,
                          retry, msgs, disarmed>>
  BY <1>1 DEF ArmMoveTimer, Types, OpTypes, WakeTypes, EnvTypes
<1>2. CASE ArmFailure(o)
  <2>1. disarmed' \subseteq Ops
    <3>1. \A j \in Queue : jobs[j].op \in Ops
      BY JobIsTyped DEF Job
    <3> QED  BY <1>2, <3>1 DEF ArmFailure, Types, EnvTypes
  <2>2. CASE /\ RefreshMoveCancellationPending
             /\ UNCHANGED <<heartbeatDeferred, phase, failed, timer, msgs>>
    BY <2>1, <2>2, RefreshTypes DEF ArmMoveTimer, Types, OpTypes, EnvTypes
  <2>3. ASSUME NEW base, NEW j \in Queue, NEW rest,
               CancelNowOrDefer(base, guard, j, rest)
        PROVE  Types'
    BY <2>1, <2>3, CancelNowTypes DEF ArmMoveTimer, Types, EnvTypes
  <2> QED  BY <1>2, <2>2, <2>3 DEF ArmFailure
<1> QED  BY <1>1, <1>2 DEF ArmMoveTimer

LEMMA AutoPlanTypes ==
    ASSUME Types, NEW o \in AutoOps, NEW todo \in SUBSET Windows,
           AutoPlanLoop(o, todo)
    PROVE  Types'
BY SameWakeTypes DEF AutoPlanLoop, Types, OpTypes, EnvTypes

LEMMA ManualPlanTypes ==
    ASSUME Types, QInv, NEW o \in ManualOps, NEW todo \in SUBSET Windows,
           ManualPlanLoop(o, todo)
    PROVE  Types'
<1>1. CASE UNCHANGED <<phase, failed, heartbeatDeferred, wakeVars>>
  BY <1>1, SameWakeTypes DEF ManualPlanLoop, Types, OpTypes, EnvTypes
<1>2. ASSUME NEW base, NEW held, NEW j \in Queue, NEW rest,
             CancelNowOrDefer(base, held, j, rest)
      PROVE  Types'
  BY <1>2, CancelNowTypes DEF ManualPlanLoop, Types, EnvTypes
<1> QED  BY <1>1, <1>2 DEF ManualPlanLoop, QueueManualMove

LEMMA RearmTypes ==
    ASSUME Types, NEW o \in AutoOps, NEW todo \in SUBSET Windows, NEW queued,
           RearmPickerClaims(o, todo, queued)
    PROVE  Types'
<1>1. phase' \in [Ops -> {"new", "live", "cancelling", "gone"}]
  BY DEF RearmPickerClaims, CompleteAutoOperation, Types, OpTypes, Ops
<1>2. claims' \in [AutoOps -> SUBSET Windows]
  BY DEF RearmPickerClaims, CompleteAutoOperation, Types, OpTypes
<1>3. outcome' \in [AutoOps ->
            {"none", "Success", "Exhausted", "Deferred", "Cancelled"}]
  BY DEF RearmPickerClaims, CompleteAutoOperation, Types, OpTypes
<1> QED  BY <1>1, <1>2, <1>3, SameWakeTypes
         DEF RearmPickerClaims, CompleteAutoOperation, Types, OpTypes, EnvTypes

LEMMA CompleteTypes ==
    ASSUME Types, NEW before, CompletePostedAttempt(before)
    PROVE  Types'
<1> DEFINE refreshed == IF AnyCancelRequested THEN retry ELSE ClearRetry
           count == IF CancelRequestedCount < before THEN 0
                    ELSE IF refreshed.noProgress < MaxNoProgress
                         THEN refreshed.noProgress + 1 ELSE MaxNoProgress
           completed == [posted |-> FALSE, noProgress |-> count]
           RetryType == [posted : BOOLEAN, noProgress : 0..MaxNoProgress]
<1>1. ClearRetry \in RetryType
  BY EngineAssumption DEF ClearRetry
<1>2. refreshed \in RetryType
  BY <1>1 DEF Types, WakeTypes
<1>3. count \in 0..MaxNoProgress
  BY <1>2, EngineAssumption
<1>4. completed \in RetryType
  BY <1>3
<1>5. cancelPending' \in BOOLEAN
  BY DEF CompletePostedAttempt, AnyCancelRequested
<1>6. timer' \in BOOLEAN
  BY DEF CompletePostedAttempt, Types, WakeTypes
<1>7. retry' \in RetryType /\ msgs' \in 0..MaxPosts
  <2>1. CASE retry' = completed /\ UNCHANGED msgs
    BY <1>4, <2>1 DEF Types, WakeTypes
  <2>2. CASE retry' = ClearRetry /\ UNCHANGED msgs
    BY <1>1, <2>2 DEF Types, WakeTypes
  <2>3. CASE PostRetry(completed)
    BY <1>4, <2>3, PostTypes DEF Types, WakeTypes
  <2> QED  BY <2>1, <2>2, <2>3 DEF CompletePostedAttempt
<1> QED  BY <1>5, <1>6, <1>7
         DEF CompletePostedAttempt, Types, OpTypes, WakeTypes, EnvTypes, opVars

LEMMA StartManualTypes ==
    ASSUME Types, NEW o \in ManualOps, NEW old \in SUBSET ManualOps,
           StartManualRestore(o, old)
    PROVE  Types'
<1>1. ASSUME NEW p \in old, NEW rest, CancelOperation(p, rest)
      PROVE  Types'
  BY <1>1, CancelTypes DEF Ops
<1>2. CASE /\ UNCHANGED <<queueVars, claims, failed, outcome,
                          heartbeatDeferred, wakeVars, lost, disarmed>>
           /\ \/ UNCHANGED <<phase, pending>>
              \/ \E asked \in SUBSET Apps :
                    /\ phase' = [phase EXCEPT ![o] = "live"]
                    /\ pending' = [pending EXCEPT ![o] = asked]
  BY <1>2, SameWakeTypes DEF Types, OpTypes, EnvTypes
<1> QED  BY <1>1, <1>2 DEF StartManualRestore

LEMMA BeginPickerTypes ==
    ASSUME Types, QInv, NEW w \in Windows, BeginPickerAction(w)
    PROVE  Types'
<1>1. claims' \in [AutoOps -> SUBSET Windows]
  BY DEF BeginPickerAction, Types, OpTypes
<1>2. pending' \in [Ops -> SUBSET Apps]
      /\ outcome' \in [AutoOps ->
            {"none", "Success", "Exhausted", "Deferred", "Cancelled"}]
      /\ lost' \subseteq Windows /\ disarmed' \subseteq Ops
  BY DEF BeginPickerAction, Types, OpTypes, EnvTypes
<1>3. CASE UNCHANGED <<phase, failed, heartbeatDeferred, wakeVars>>
  BY <1>1, <1>2, <1>3, SameWakeTypes DEF Types, OpTypes, EnvTypes
<1>4. CASE /\ guard[w] \in Queue
           /\ CancelNowOrDefer(jobs, [guard EXCEPT ![w] = Picker], guard[w], <<>>)
  <2>1. CASE UNCHANGED <<heartbeatDeferred, phase, failed>> /\ RefreshAndScheduleRetry
    BY <1>1, <1>2, <2>1, ScheduleTypes DEF Types, OpTypes, EnvTypes
  <2>2. CASE /\ DispatchMoveOwnerResult([guard EXCEPT ![w] = Picker], guard[w],
                                        "Cancelled", jobs[guard[w]].armFail, <<>>)
             /\ RefreshMoveCancellationPending /\ UNCHANGED <<timer, msgs>>
    <3>1. jobs[guard[w]].op \in Ops
      BY <1>4, JobIsTyped DEF Job
    <3>2. phase' \in [Ops -> {"new", "live", "cancelling", "gone"}]
          /\ failed' \in [AutoOps -> BOOLEAN]
      BY <2>2, <3>1 DEF DispatchMoveOwnerResult, Types, OpTypes
    <3> QED  BY <1>1, <1>2, <2>2, <3>2, OwnerHeartbeatTypes, RefreshTypes
             DEF Types, OpTypes, EnvTypes
  <2> QED  BY <1>4, <2>1, <2>2 DEF CancelNowOrDefer
<1> QED  BY <1>3, <1>4 DEF BeginPickerAction, Installed

LEMMA StepTypes ==
    ASSUME Types, QInv, [Next]_vars
    PROVE  Types'
<1>1. CASE AdvanceMoveQueue
  <2>1. CASE timer' = FALSE /\ UNCHANGED <<queueVars, opVars, heartbeatDeferred,
                                          cancelPending, retry, msgs, lost>>
    BY <1>1, <2>1
       DEF AdvanceMoveQueue, Types, OpTypes, WakeTypes, EnvTypes, opVars
  <2> QED  BY <1>1, <2>1, FrontTypes DEF AdvanceMoveQueue
<1>2. CASE DrainQueue
  BY <1>2 DEF DrainQueue, StillTimed, Types, OpTypes, WakeTypes, EnvTypes, opVars
<1>3. CASE ArmRecovery
  BY <1>3, RefreshTypes, ScheduleTypes
     DEF ArmRecovery, Types, OpTypes, EnvTypes, opVars
<1>4. CASE \E n \in 0..MaxJobs : CompletePostedAttempt(n)
  BY <1>4, CompleteTypes
<1>5. CASE \E o \in Ops : CancelCall(o)
  BY <1>5, CancelTypes DEF CancelCall
<1>6. CASE \E o \in AutoOps \cup {NoOp} : ArmMoveTimer(o)
  BY <1>6, ArmTypes
<1>7. ASSUME NEW o \in ManualOps,
             \/ FinishManualMove(o)
             \/ \E old \in SUBSET ManualOps : StartManualRestore(o, old)
             \/ \E todo \in SUBSET Windows : ManualPlanLoop(o, todo)
      PROVE  Types'
  <2>1. CASE FinishManualMove(o)
    BY <2>1, SameWakeTypes DEF FinishManualMove, Types, OpTypes, EnvTypes, Ops
  <2> QED  BY <1>7, <2>1, StartManualTypes, ManualPlanTypes
<1>8. ASSUME NEW o \in AutoOps,
             \/ FinishAutoOperation(o)
             \/ \E todo \in SUBSET Windows :
                  \/ AutoPlanLoop(o, todo)
                  \/ \E queued \in BOOLEAN : RearmPickerClaims(o, todo, queued)
      PROVE  Types'
  <2>1. CASE FinishAutoOperation(o)
    BY <2>1, SameWakeTypes DEF FinishAutoOperation, Types, OpTypes, EnvTypes, opVars
  <2> QED  BY <1>8, <2>1, AutoPlanTypes, RearmTypes
<1>9. CASE MoveTimer \/ Heartbeat
  BY <1>9, SameWakeTypes DEF MoveTimer, Heartbeat, Types, OpTypes, EnvTypes, opVars
<1>10. CASE MoveTimerThrows
  BY <1>10, ScheduleTypes DEF MoveTimerThrows, Types, OpTypes, EnvTypes, opVars
<1>11. CASE CancelRetryMessage
  <2>1. ClearRetry \in [posted : BOOLEAN, noProgress : 0..MaxNoProgress]
    BY EngineAssumption DEF ClearRetry
  <2>2. msgs' \in 0..MaxPosts
    BY <1>11, EngineAssumption DEF CancelRetryMessage, Types, WakeTypes
  <2> QED  BY <1>11, <2>1, <2>2
           DEF CancelRetryMessage, Types, OpTypes, WakeTypes, EnvTypes, opVars
<1>12. ASSUME NEW o \in AutoOps,
              \/ BeginAutoRestore(o) \/ AutoPlanResult(o)
              \/ AutoPlanDeferred(o) \/ ResetAutoRuntime(o)
       PROVE  Types'
  <2>1. CASE BeginAutoRestore(o)
    <3>1. AppOf[o] \in Apps /\ o \in Ops
      BY EngineAssumption DEF Ops
    <3> QED  BY <2>1, <3>1, SameWakeTypes
             DEF BeginAutoRestore, Types, OpTypes, EnvTypes
  <2>2. CASE AutoPlanResult(o)
    <3>1. claims' \in [AutoOps -> SUBSET Windows]
          /\ pending' \in [Ops -> SUBSET Apps]
      BY <2>2 DEF AutoPlanResult, TransferLateAcceptedPlanRecords, OpenWindows, Types, OpTypes
    <3> QED  BY <2>2, <3>1, SameWakeTypes
             DEF AutoPlanResult, Types, OpTypes, EnvTypes
  <2>3. CASE AutoPlanDeferred(o)
    BY <2>3, SameWakeTypes DEF AutoPlanDeferred, Types, OpTypes, EnvTypes
  <2>4. CASE ResetAutoRuntime(o)
    BY <2>4, SameWakeTypes DEF ResetAutoRuntime, Types, OpTypes, EnvTypes, opVars
  <2> QED  BY <1>12, <2>1, <2>2, <2>3, <2>4
<1>13. ASSUME NEW o \in ManualOps,
              ManualRestoreClick(o) \/ \E a \in Apps : ManualPlanResult(o, a)
       PROVE  Types'
  <2>1. o \in Ops
    BY DEF Ops
  <2>2. CASE ManualRestoreClick(o)
    BY <2>2, SameWakeTypes DEF ManualRestoreClick, Types, OpTypes, EnvTypes, opVars
  <2>3. ASSUME NEW a \in Apps, ManualPlanResult(o, a)
        PROVE  Types'
    <3>1. pending' \in [Ops -> SUBSET Apps]
      BY <2>3 DEF ManualPlanResult, Types, OpTypes
    <3> QED  BY <2>3, <3>1, SameWakeTypes
             DEF ManualPlanResult, Types, OpTypes, EnvTypes
  <2> QED  BY <1>13, <2>2, <2>3
<1>14. CASE \E o \in Ops : RetireOperation(o)
  BY <1>14, SameWakeTypes DEF RetireOperation, Types, OpTypes, EnvTypes, opVars
<1>15. ASSUME NEW w \in Windows,
              BeginPickerAction(w) \/ PickerTransitionEnds(w) \/ WindowCloses(w)
       PROVE  Types'
  <2>1. CASE PickerTransitionEnds(w)
    BY <2>1, SameWakeTypes DEF PickerTransitionEnds, Types, OpTypes, EnvTypes, opVars
  <2>2. CASE WindowCloses(w)
    BY <2>2, SameWakeTypes DEF WindowCloses, Types, OpTypes, EnvTypes, opVars
  <2> QED  BY <1>15, <2>1, <2>2, BeginPickerTypes
<1>16. ASSUME NEW j, NEW ok, ReleaseReservation(j, ok)
       PROVE  Types'
  BY <1>16, FinalizeTypes, SameWakeTypes
     DEF ReleaseReservation, Types, OpTypes, EnvTypes, opVars
<1>17. CASE UNCHANGED vars
  BY <1>17 DEF vars, opVars, wakeVars, Types, OpTypes, WakeTypes, EnvTypes
<1> QED  BY <1>1, <1>2, <1>3, <1>4, <1>5, <1>6, <1>7, <1>8, <1>9, <1>10, <1>11,
            <1>12, <1>13, <1>14, <1>15, <1>17, <1>16 DEF Next, Calls

LEMMA InitTypes ==
    ASSUME Init
    PROVE  Types
<1>1. ClearRetry \in [posted : BOOLEAN, noProgress : 0..MaxNoProgress]
      /\ 0 \in 0..MaxPosts
  BY EngineAssumption DEF ClearRetry
<1> QED  BY <1>1 DEF Init, Types, OpTypes, WakeTypes, EnvTypes

\* Every variable keeps its type.
THEOREM TypeCorrect == Spec => []TypeOK
<1>1. Init => QInv /\ Types
  BY InitQ, InitTypes
<1>2. QInv /\ Types /\ [Next]_vars => QInv' /\ Types'
  BY StepQ, StepTypes
<1>3. QInv /\ Types => TypeOK
  BY EngineAssumption DEF JobIds, QInv, QueueInv, Typed, Types, OpTypes, WakeTypes, EnvTypes, TypeOK, Queue
<1> QED  BY <1>1, <1>2, <1>3, PTL DEF Spec

-----------------------------------------------------------------------------
(* A deferred heartbeat always has a reservation to wait for. *)

\* A handler that ends jobs keeps the property if it only adds reservations.
LEMMA FinalizeKeepsHeartbeat ==
    ASSUME DeferredHeartbeatHasGuard, NEW held, NEW ended, NEW succeeded,
           \A w \in Windows : held[w] = NoGuard => guard[w] = NoGuard,
           FinalizeMoveReservation(held, ended, succeeded)
    PROVE  DeferredHeartbeatHasGuard'
<1> SUFFICES ASSUME heartbeatDeferred'
             PROVE  \E w \in Windows : guard'[w] # NoGuard
  BY DEF DeferredHeartbeatHasGuard, Guarded
<1> DEFINE released == ReleasedBy(held, ended)
<1>1. heartbeatDeferred /\ (released # {} => \E w \in Windows : guard'[w] # NoGuard)
  BY DEF FinalizeMoveReservation, StaysDeferred
<1>2. PICK v \in Windows : guard[v] # NoGuard
  BY <1>1 DEF DeferredHeartbeatHasGuard, Guarded
<1>3. CASE released = {}
  <2>1. guard'[v] = held[v]
    BY <1>3 DEF FinalizeMoveReservation
  <2> QED  BY <1>2, <2>1
<1> QED  BY <1>1, <1>3

LEMMA SameHeartbeat ==
    ASSUME DeferredHeartbeatHasGuard, UNCHANGED <<guard, heartbeatDeferred>>
    PROVE  DeferredHeartbeatHasGuard'
BY DEF DeferredHeartbeatHasGuard, Guarded

LEMMA MoreHeartbeat ==
    ASSUME DeferredHeartbeatHasGuard, QInv, NEW w \in Windows, NEW h,
           h # NoGuard, guard' = [guard EXCEPT ![w] = h],
           UNCHANGED heartbeatDeferred
    PROVE  DeferredHeartbeatHasGuard'
<1>1. guard \in [Windows -> {NoGuard, Picker} \cup JobIds]
  BY DEF QInv, QueueInv, Typed
<1> QED  BY <1>1 DEF DeferredHeartbeatHasGuard, Guarded

\* Settling a job's owner releases the reservation under the same condition,
\* or leaves it in place.
LEMMA OwnerHeartbeat ==
    ASSUME DeferredHeartbeatHasGuard, NEW held, NEW j, NEW terminal,
           NEW armFail, NEW rest,
           \A w \in Windows : held[w] = NoGuard => guard[w] = NoGuard,
           DispatchMoveOwnerResult(held, j, terminal, armFail, rest)
    PROVE  DeferredHeartbeatHasGuard'
<1>1. CASE guard' = held /\ UNCHANGED heartbeatDeferred
  BY <1>1 DEF DeferredHeartbeatHasGuard, Guarded
<1>2. CASE FinalizeMoveReservation(held, {j}, terminal = "Succeeded")
  BY <1>2, FinalizeKeepsHeartbeat
<1> QED  BY <1>1, <1>2 DEF DispatchMoveOwnerResult

LEMMA DispatchHeartbeat ==
    ASSUME DeferredHeartbeatHasGuard, NEW base, NEW j, NEW terminal, NEW rest,
           DispatchMoveResult(base, j, terminal, rest)
    PROVE  DeferredHeartbeatHasGuard'
BY OwnerHeartbeat DEF DispatchMoveResult

LEMMA TryHeartbeat ==
    ASSUME DeferredHeartbeatHasGuard, NEW base, NEW j, NEW after, NEW otherwise,
           TryCancel(base, j, after, otherwise)
    PROVE  DeferredHeartbeatHasGuard'
BY DispatchHeartbeat, SameHeartbeat DEF TryCancel, MarkOnly

LEMMA FrontHeartbeat ==
    ASSUME DeferredHeartbeatHasGuard, NEW j \in Queue,
           CancelFront(j) \/ IssueFront(j) \/ VerifyFront(j)
    PROVE  DeferredHeartbeatHasGuard'
<1>1. CASE HandleIndeterminateMoveIdentity(j)
  BY <1>1, TryHeartbeat, SameHeartbeat DEF HandleIndeterminateMoveIdentity, MarkOnly
<1>2. CASE IssueMove(j)
  BY <1>1, <1>2, TryHeartbeat, DispatchHeartbeat, SameHeartbeat DEF IssueMove, MarkOnly
<1>3. CASE IssueFront(j)
  BY <1>1, <1>2, <1>3, TryHeartbeat, DispatchHeartbeat DEF IssueFront
<1>4. ASSUME NEW read, RetireIssued(j, read) \/ VerifyIssued(j, read)
      PROVE  DeferredHeartbeatHasGuard'
  BY <1>4, TryHeartbeat, DispatchHeartbeat, SameHeartbeat
     DEF RetireIssued, VerifyIssued, MarkOnly
<1> QED  BY <1>1, <1>3, <1>4, TryHeartbeat DEF CancelFront, VerifyFront

LEMMA CancelHeartbeat ==
    ASSUME DeferredHeartbeatHasGuard, NEW o, NEW rest, CancelOperation(o, rest)
    PROVE  DeferredHeartbeatHasGuard'
<1>1. CASE CancelLiveOperation(o)
  <2>1. PICK ended : FinalizeMoveReservation(guard, ended, FALSE)
    BY <1>1 DEF CancelLiveOperation
  <2> QED  BY <2>1, FinalizeKeepsHeartbeat
<1> QED  BY <1>1, SameHeartbeat DEF CancelOperation, queueVars

\* Taking a window over from the job j, the reservations being `held' so far.
LEMMA CancelNowHeartbeat ==
    ASSUME DeferredHeartbeatHasGuard, NEW base, NEW held, NEW j, NEW rest,
           CancelNowOrDefer(base, held, j, rest),
           \A w \in Windows : held[w] = NoGuard => guard[w] = NoGuard
    PROVE  DeferredHeartbeatHasGuard'
<1>1. CASE guard' = held /\ UNCHANGED heartbeatDeferred
  BY <1>1 DEF DeferredHeartbeatHasGuard, Guarded
<1> QED  BY <1>1, OwnerHeartbeat DEF CancelNowOrDefer

LEMMA QueueManualHeartbeat ==
    ASSUME DeferredHeartbeatHasGuard, QInv, NEW o, NEW w \in Windows, NEW rest,
           QueueManualMove(o, w, rest)
    PROVE  DeferredHeartbeatHasGuard'
<1> DEFINE held == [guard EXCEPT ![w] = nextJob]
<1>1. nextJob # NoGuard /\ guard \in [Windows -> {NoGuard, Picker} \cup JobIds]
  BY EngineAssumption DEF QInv, QueueInv, Typed
<1>2. \A v \in Windows : held[v] = NoGuard => guard[v] = NoGuard
  BY <1>1
<1>3. CASE guard' = held /\ UNCHANGED heartbeatDeferred
  BY <1>1, <1>3, MoreHeartbeat
<1> QED  BY <1>2, <1>3, CancelNowHeartbeat DEF QueueManualMove, Installed

LEMMA QueueAutoHeartbeat ==
    ASSUME DeferredHeartbeatHasGuard, QInv, NEW o, NEW w \in Windows,
           QueueAutoMove(o, w), UNCHANGED heartbeatDeferred
    PROVE  DeferredHeartbeatHasGuard'
<1>1. nextJob # NoGuard
  BY EngineAssumption DEF QInv, QueueInv, Typed
<1> QED  BY <1>1, MoreHeartbeat DEF QueueAutoMove

LEMMA PickerHeartbeat ==
    ASSUME DeferredHeartbeatHasGuard, QInv, NEW w \in Windows,
           BeginPickerAction(w)
    PROVE  DeferredHeartbeatHasGuard'
<1> DEFINE held == [guard EXCEPT ![w] = Picker]
<1>1. Picker # NoGuard /\ guard \in [Windows -> {NoGuard, Picker} \cup JobIds]
  BY EngineAssumption DEF QInv, QueueInv, Typed
<1>2. \A v \in Windows : held[v] = NoGuard => guard[v] = NoGuard
  BY <1>1
<1>3. CASE guard' = held /\ UNCHANGED heartbeatDeferred
  BY <1>1, <1>3, MoreHeartbeat
<1> QED  BY <1>2, <1>3, CancelNowHeartbeat DEF BeginPickerAction, Installed

LEMMA StepHeartbeat ==
    ASSUME DeferredHeartbeatHasGuard, QInv, [Next]_vars
    PROVE  DeferredHeartbeatHasGuard'
<1>1. CASE AdvanceMoveQueue
  BY <1>1, FrontHeartbeat, SameHeartbeat DEF AdvanceMoveQueue, queueVars
<1>2. CASE DrainQueue \/ ArmRecovery \/ \E n \in 0..MaxJobs : CompletePostedAttempt(n)
  BY <1>2, SameHeartbeat DEF DrainQueue, ArmRecovery, CompletePostedAttempt, queueVars
<1>3. CASE \E o \in Ops : CancelCall(o)
  BY <1>3, CancelHeartbeat DEF CancelCall
<1>4. ASSUME NEW o, ArmMoveTimer(o)
      PROVE  DeferredHeartbeatHasGuard'
  BY <1>4, SameHeartbeat, CancelNowHeartbeat DEF ArmMoveTimer, ArmFailure
<1>5. ASSUME NEW o \in ManualOps,
             \/ FinishManualMove(o)
             \/ \E old \in SUBSET ManualOps : StartManualRestore(o, old)
             \/ \E todo \in SUBSET Windows : ManualPlanLoop(o, todo)
      PROVE  DeferredHeartbeatHasGuard'
  <2>1. CASE FinishManualMove(o) \/ \E old \in SUBSET ManualOps : StartManualRestore(o, old)
    BY <2>1, SameHeartbeat, CancelHeartbeat
       DEF FinishManualMove, StartManualRestore, queueVars
  <2>2. CASE \E todo \in SUBSET Windows : ManualPlanLoop(o, todo)
    BY <2>2, SameHeartbeat, QueueManualHeartbeat DEF ManualPlanLoop, queueVars
  <2> QED  BY <1>5, <2>1, <2>2
<1>6. ASSUME NEW o \in AutoOps,
             \/ FinishAutoOperation(o)
             \/ \E todo \in SUBSET Windows :
                  \/ AutoPlanLoop(o, todo)
                  \/ \E queued \in BOOLEAN : RearmPickerClaims(o, todo, queued)
      PROVE  DeferredHeartbeatHasGuard'
  BY <1>6, SameHeartbeat, QueueAutoHeartbeat
     DEF FinishAutoOperation, AutoPlanLoop, RearmPickerClaims, queueVars
<1>7. CASE MoveTimer \/ MoveTimerThrows \/ CancelRetryMessage
  BY <1>7, SameHeartbeat DEF MoveTimer, MoveTimerThrows, CancelRetryMessage, queueVars
<1>8. CASE Heartbeat
  BY <1>8 DEF Heartbeat, DeferredHeartbeatHasGuard, Guarded, queueVars
<1>9. CASE \E o \in AutoOps : \/ BeginAutoRestore(o) \/ AutoPlanResult(o)
                              \/ AutoPlanDeferred(o) \/ ResetAutoRuntime(o)
  BY <1>9, SameHeartbeat
     DEF BeginAutoRestore, AutoPlanResult, AutoPlanDeferred, ResetAutoRuntime, queueVars
<1>10. CASE \/ \E o \in ManualOps : \/ ManualRestoreClick(o)
                                    \/ \E a \in Apps : ManualPlanResult(o, a)
            \/ \E o \in Ops : RetireOperation(o)
  BY <1>10, SameHeartbeat
     DEF ManualRestoreClick, ManualPlanResult, RetireOperation, queueVars
<1>11. ASSUME NEW w \in Windows,
              BeginPickerAction(w) \/ PickerTransitionEnds(w) \/ WindowCloses(w)
       PROVE  DeferredHeartbeatHasGuard'
  BY <1>11, SameHeartbeat, PickerHeartbeat
     DEF PickerTransitionEnds, WindowCloses, DeferredHeartbeatHasGuard, queueVars
<1>12. CASE UNCHANGED vars
  BY <1>12, SameHeartbeat DEF vars, queueVars
<1>13. ASSUME NEW j, NEW ok, ReleaseReservation(j, ok)
       PROVE  DeferredHeartbeatHasGuard'
  BY <1>13, FinalizeKeepsHeartbeat DEF ReleaseReservation
<1> QED  BY <1>1, <1>2, <1>3, <1>4, <1>5, <1>6, <1>7, <1>8, <1>9, <1>10, <1>11,
            <1>12, <1>13 DEF Next, Calls

\* A deferred heartbeat checkpoint always has a reservation whose end runs it.
THEOREM DeferredHeartbeatAlways == Spec => []DeferredHeartbeatHasGuard
<1>1. Init => DeferredHeartbeatHasGuard
  BY DEF Init, DeferredHeartbeatHasGuard
<1> QED  BY <1>1, QueueInvariant, StepHeartbeat, PTL DEF Spec

-----------------------------------------------------------------------------
(* The contract: what a step does to the windows. *)

Wanted == {j \in Queue : MayIssue(j)}
Unread == {j \in Queue : jobs[j].waiting}

\* A step that issues no move, and the one that does.
NotIssued == \A k \in Queue \cap DOMAIN jobs' : jobs'[k].waiting => jobs[k].waiting
Issues(j) ==
    /\ j \in Queue /\ ~jobs[j].waiting /\ MayIssue(j) /\ guard[jobs[j].win] = j
    /\ Unread = {}
    /\ \A k \in Queue \cap DOMAIN jobs' : k # j => (jobs'[k].waiting => jobs[k].waiting)
Keeping ==
    /\ Contract!ContractNext
    /\ NotIssued \/ \E j \in Queue : Issues(j)

LEMMA ContractSettles ==
    ASSUME NEW ended \in SUBSET JobIds, NEW withdrawn \in SUBSET JobIds,
           NEW released \in SUBSET Windows,
           Wanted' = Wanted \ (ended \cup withdrawn), Unread' = Unread \ ended,
           \A w \in released : guard[w] \in JobIds \ (Wanted' \cup Unread'),
           guard' = [w \in Windows |-> IF w \in released THEN NoGuard ELSE guard[w]]
    PROVE  Contract!ContractNext
<1>1. Contract!Settle(ended, withdrawn, released)
  BY DEF Contract!Settle, Wanted, Unread
<1> QED  BY <1>1 DEF Contract!ContractNext

LEMMA ContractClaims ==
    ASSUME NEW w \in Windows, NEW j \in JobIds, guard[w] # Picker,
           \A v \in Windows : guard[v] # j, j \notin Wanted \cup Unread,
           guard' = [guard EXCEPT ![w] = j],
           Wanted' = (Wanted \ ({guard[w]} \cap JobIds)) \cup {j},
           Unread' = Unread \/ Unread' = Unread \ ({guard[w]} \cap JobIds)
    PROVE  Contract!ContractNext
<1>1. Contract!Claim(w, j)
  BY DEF Contract!Claim, Contract!Holds, Wanted, Unread
<1> QED  BY <1>1 DEF Contract!ContractNext

LEMMA ContractTakes ==
    ASSUME NEW w \in Windows, guard[w] # Picker, guard[w] \notin Unread,
           guard' = [guard EXCEPT ![w] = Picker],
           Wanted' = Wanted \ {guard[w]}, Unread' = Unread
    PROVE  Contract!ContractNext
<1>1. Contract!PickerTakes(w)
  BY DEF Contract!PickerTakes, Wanted, Unread
<1> QED  BY <1>1 DEF Contract!ContractNext

LEMMA ContractReleases ==
    ASSUME NEW w \in Windows, guard[w] = Picker,
           guard' = [guard EXCEPT ![w] = NoGuard], Wanted' = Wanted, Unread' = Unread
    PROVE  Contract!ContractNext
<1>1. Contract!PickerReleases(w)
  BY DEF Contract!PickerReleases, Wanted, Unread
<1> QED  BY <1>1 DEF Contract!ContractNext

LEMMA ContractIssues ==
    ASSUME NEW j \in Wanted, NEW w \in Windows, guard[w] = j, Unread = {}, Unread' = {j},
           guard' = guard, Wanted' = Wanted
    PROVE  Contract!ContractNext
<1>1. Contract!Issue(j)
  BY DEF Contract!Issue, Contract!Holds, Wanted, Unread
<1> QED  BY <1>1 DEF Contract!ContractNext, Wanted

LEMMA ContractReads ==
    ASSUME Unread' = {}, guard' = guard, Wanted' = Wanted
    PROVE  Contract!ContractNext
<1>1. Contract!ReadBack
  BY DEF Contract!ReadBack, Wanted, Unread
<1> QED  BY <1>1 DEF Contract!ContractNext

\* What a handler may write into a job that it neither issues nor reads back.
Same(r, s) == (s.waiting <=> r.waiting) /\ (Wants(s) => Wants(r))
SameJobs(B) == DOMAIN B = Queue /\ \A k \in Queue : Same(jobs[k], B[k])

\* Jobs end or are marked, and reservations of jobs that are gone are released.
LEMMA GivesUp ==
    ASSUME QInv, NEW E, E \subseteq JobIds, E \cap DOMAIN jobs' = {},
           DOMAIN jobs' \subseteq Queue, \A k \in DOMAIN jobs' : Same(jobs[k], jobs'[k]),
           guard' = Released(guard, E)
    PROVE  Keeping
<1> DEFINE ended == Queue \ DOMAIN jobs'
           withdrawn == {k \in Queue \cap DOMAIN jobs' : ~Wants(jobs'[k])}
           released == {w \in Windows : guard[w] \in E}
<1>1. Queue \subseteq JobIds
  BY EngineAssumption DEF QInv, QueueInv, Typed, Queue, JobIds
<1>2. Wanted' = Wanted \ (ended \cup withdrawn)
  BY DEF Wanted, MayIssue, Wants, Same, Queue
<1>3. Unread' = Unread \ ended
  BY DEF Unread, Same, Queue
<1>4. \A w \in released : guard[w] \in JobIds \ (Wanted' \cup Unread')
  BY DEF Wanted, Unread, Queue
<1>5. guard' = [w \in Windows |-> IF w \in released THEN NoGuard ELSE guard[w]]
  BY DEF Released
<1>6. NotIssued
  BY DEF NotIssued, Same
<1> QED  BY <1>1, <1>2, <1>3, <1>4, <1>5, <1>6, ContractSettles DEF Keeping

LEMMA ReleasedNone ==
    ASSUME QInv
    PROVE  guard = Released(guard, {})
BY DEF QInv, QueueInv, Typed, Released

\* Marking jobs.
LEMMA MarksOnly ==
    ASSUME QInv, NEW base, SameJobs(base), jobs' = base, guard' = guard
    PROVE  Keeping
BY GivesUp, ReleasedNone DEF SameJobs

LEMMA QueueStays ==
    ASSUME QInv, UNCHANGED queueVars
    PROVE  Keeping
<1>1. SameJobs(jobs)
  BY DEF SameJobs, Same, Queue
<1> QED  BY <1>1, MarksOnly DEF queueVars

\* A job ends.
LEMMA EndsOne ==
    ASSUME QInv, NEW base, SameJobs(base), NEW j \in Queue,
           jobs' = [k \in Queue \ {j} |-> base[k]],
           ReleasesOrSettles(guard, j)
    PROVE  Keeping
<1>1. j \in JobIds
  BY EngineAssumption DEF QInv, QueueInv, Typed, Queue, JobIds
<1>2. DOMAIN jobs' = Queue \ {j} /\ \A k \in DOMAIN jobs' : Same(jobs[k], jobs'[k])
  BY DEF SameJobs
<1>3. CASE guard' = Released(guard, {j})
  BY <1>1, <1>2, <1>3, GivesUp
<1>4. CASE guard' = guard
  BY <1>2, <1>4, GivesUp, ReleasedNone
<1> QED  BY <1>3, <1>4 DEF ReleasesOrSettles

LEMMA DispatchGives ==
    ASSUME QInv, NEW base, SameJobs(base), NEW j \in Queue, NEW terminal, NEW rest,
           DispatchMoveResult(base, j, terminal, rest)
    PROVE  Keeping
<1>1. ReleasesOrSettles(guard, j) /\ jobs' = [k \in Queue \ {j} |-> base[k]]
  BY OwnerReleases DEF DispatchMoveResult
<1> QED  BY <1>1, EndsOne

LEMMA TryGives ==
    ASSUME QInv, NEW base, SameJobs(base), NEW j \in Queue, NEW after, NEW otherwise,
           TryCancel(base, j, after, otherwise)
    PROVE  Keeping
BY DispatchGives, MarksOnly DEF TryCancel, MarkOnly

LEMMA UpdateSame ==
    ASSUME NEW j \in Queue, NEW r, Same(jobs[j], r)
    PROVE  SameJobs(Update(j, r))
BY DEF SameJobs, Same, Update, Queue

LEMMA IndeterminateGives ==
    ASSUME QInv, NEW j \in Queue, HandleIndeterminateMoveIdentity(j)
    PROVE  Keeping
<1> DEFINE count == IF jobs[j].indet < MaxIndeterminate
                    THEN jobs[j].indet + 1 ELSE jobs[j].indet
           counted == [jobs[j] EXCEPT !.indet = count]
           given == [counted EXCEPT !.cancelReq = TRUE]
<1>1. jobs[j] \in Job
  BY JobIsTyped
<1>2. Same(jobs[j], counted) /\ Same(jobs[j], given)
  BY <1>1 DEF Same, Wants, Job
<1>3. SameJobs(Update(j, counted)) /\ SameJobs(Update(j, given))
  BY <1>2, UpdateSame
<1>4. CASE MarkOnly(Update(j, counted), Rest)
  BY <1>3, <1>4, MarksOnly DEF MarkOnly
<1>5. CASE TryCancel(Update(j, given), j, Rest, Rest)
  BY <1>3, <1>5, TryGives
<1> QED  BY <1>4, <1>5 DEF HandleIndeterminateMoveIdentity

LEMMA JobsAreSame == SameJobs(jobs)
BY DEF SameJobs, Same, Queue

\* The accepted issue: the front job is the holder's, and nothing is unread.
LEMMA IssueGives ==
    ASSUME QInv, NEW j \in Queue, IsFront(j), ~MustCancel(j), ~jobs[j].waiting, IssueMove(j)
    PROVE  Keeping
<1> DEFINE issued == [jobs[j] EXCEPT !.attempts = @ + 1, !.waiting = TRUE,
                                     !.awaiting = TRUE, !.indet = 0]
<1>1. CASE HandleIndeterminateMoveIdentity(j)
  BY <1>1, IndeterminateGives
<1>2. CASE TryCancel(jobs, j, <<Drain>> \o Rest, <<Drain>> \o Rest)
  BY <1>2, JobsAreSame, TryGives
<1>3. CASE DispatchMoveResult(jobs, j, "PermanentFailure", <<Drain>> \o Rest)
  BY <1>3, JobsAreSame, DispatchGives
<1>4. CASE MarkOnly(Update(j, issued), <<Drain>> \o Rest)
  <2>1. jobs[j] \in Job /\ ~jobs[j].retire /\ ~jobs[j].cancelReq /\ jobs[j].win \in Windows
    BY JobIsTyped DEF MustCancel, Job
  <2>2. /\ issued.waiting /\ issued.cancelReq = jobs[j].cancelReq
        /\ issued.retire = jobs[j].retire
    BY <2>1 DEF Job
  <2>3. guard' = guard /\ DOMAIN jobs' = Queue /\ jobs'[j] = issued
        /\ \A k \in Queue : k # j => jobs'[k] = jobs[k]
    BY <1>4 DEF MarkOnly, Update, Queue
  <2>4. j \in Wanted /\ guard[jobs[j].win] = j
    BY <2>1 DEF Wanted, MayIssue, QInv, QueueInv, Movers, Wants, Queue
  <2>5. \A k \in Queue : ~jobs[k].waiting
    <3> SUFFICES ASSUME NEW k \in Queue, jobs[k].waiting
                 PROVE  FALSE
      OBVIOUS
    <3>1. k <= j /\ j <= k
      BY DEF QInv, QueueInv, Flights, IsFront, Queue
    <3>2. j \in Nat /\ k \in Nat
      BY EngineAssumption DEF QInv, QueueInv, Typed, Queue
    <3> QED  BY <3>1, <3>2
  <2>6. Unread = {} /\ Unread' = {j} /\ Wanted' = Wanted
    BY <2>2, <2>3, <2>5 DEF Unread, Wanted, MayIssue, Queue
  <2>7. Issues(j)
    BY <2>3, <2>4, <2>6 DEF Issues, Wanted
  <2> QED  BY <2>1, <2>3, <2>4, <2>6, <2>7, ContractIssues DEF Keeping
<1> QED  BY <1>1, <1>2, <1>3, <1>4 DEF IssueMove

LEMMA IssueFrontGives ==
    ASSUME QInv, NEW j \in Queue, IsFront(j), IssueFront(j)
    PROVE  Keeping
<1>1. CASE HandleIndeterminateMoveIdentity(j)
  BY <1>1, IndeterminateGives
<1>2. CASE TryCancel(jobs, j, <<Drain>> \o Rest, <<Drain>> \o Rest)
  BY <1>2, JobsAreSame, TryGives
<1>3. CASE \E terminal \in {"Succeeded", "PermanentFailure"} :
             DispatchMoveResult(jobs, j, terminal, <<Drain>> \o Rest)
  BY <1>3, JobsAreSame, DispatchGives
<1>4. CASE ~MustCancel(j) /\ ~jobs[j].waiting /\ IssueMove(j)
  BY <1>4, IssueGives
<1> QED  BY <1>1, <1>2, <1>3, <1>4 DEF IssueFront

LEMMA RetireGives ==
    ASSUME QInv, NEW j \in Queue, NEW read, RetireIssued(j, read)
    PROVE  Keeping
<1> DEFINE seen == IF read.identity = "Match"
                   THEN [jobs[j] EXCEPT !.indet = 0] ELSE jobs[j]
           count == IF jobs[j].unresolved < MaxUnresolved
                    THEN jobs[j].unresolved + 1 ELSE jobs[j].unresolved
           counted == [seen EXCEPT !.unresolved = count]
           safe == [seen EXCEPT !.awaiting = FALSE]
<1>1. jobs[j] \in Job
  BY JobIsTyped
<1>2. seen \in Job /\ Same(jobs[j], seen)
  BY <1>1, EngineAssumption DEF Same, Wants, Job
<1>3. Same(jobs[j], counted) /\ Same(jobs[j], safe)
  BY <1>2 DEF Same, Wants, Job
<1>4. SameJobs(Update(j, seen)) /\ SameJobs(Update(j, counted)) /\ SameJobs(Update(j, safe))
  BY <1>2, <1>3, UpdateSame
<1>5. CASE TryCancel(Update(j, safe), j, <<Drain>> \o Rest, Rest)
  BY <1>4, <1>5, TryGives
<1>6. CASE TryCancel(Update(j, seen), j, <<Drain>> \o Rest, Rest)
  BY <1>4, <1>6, TryGives
<1>7. CASE TryCancel(Update(j, counted), j, <<Drain>> \o Rest, Rest)
  BY <1>4, <1>7, TryGives
<1>8. CASE MarkOnly(Update(j, counted), Rest)
  BY <1>4, <1>8, MarksOnly DEF MarkOnly
<1> QED  BY <1>5, <1>6, <1>7, <1>8 DEF RetireIssued

\* The readback: the job ends, or it may try again and nothing is unread.
LEMMA VerifyGives ==
    ASSUME QInv, NEW j \in Queue, NEW read, jobs[j].waiting, VerifyIssued(j, read)
    PROVE  Keeping
<1> DEFINE seen == [jobs[j] EXCEPT !.awaiting = FALSE,
                        !.indet = IF read.identity = "Match" THEN 0 ELSE @]
           again == [seen EXCEPT !.waiting = FALSE]
           base == Update(j, seen)
           after == <<Drain>> \o Rest
<1>1. jobs[j] \in Job
  BY JobIsTyped
<1>2. /\ seen.waiting = jobs[j].waiting /\ seen.cancelReq = jobs[j].cancelReq
      /\ seen.retire = jobs[j].retire
      /\ again.cancelReq = jobs[j].cancelReq /\ again.retire = jobs[j].retire
      /\ ~again.waiting
  BY <1>1 DEF Job
<1>3. SameJobs(base)
  BY <1>2, UpdateSame DEF Same, Wants
<1>4. CASE TryCancel(base, j, after, after)
  BY <1>3, <1>4, TryGives
<1>5. CASE \E terminal \in {"Succeeded", "PermanentFailure", "Exhausted"} :
             DispatchMoveResult(base, j, terminal, after)
  BY <1>3, <1>5, DispatchGives
<1>6. CASE MarkOnly(Update(j, again), after)
  <2>1. guard' = guard /\ DOMAIN jobs' = Queue /\ jobs'[j] = again
        /\ \A k \in Queue : k # j => jobs'[k] = jobs[k]
    BY <1>6 DEF MarkOnly, Update, Queue
  <2>2. \A k \in Queue : jobs[k].waiting => k = j
    <3> SUFFICES ASSUME NEW k \in Queue, jobs[k].waiting
                 PROVE  k = j
      OBVIOUS
    <3>1. k <= j /\ j <= k /\ j \in Nat /\ k \in Nat
      BY EngineAssumption DEF QInv, QueueInv, Typed, Flights, Queue
    <3> QED  BY <3>1
  <2>3. Unread' = {}
    BY <1>2, <2>1, <2>2 DEF Unread, Queue
  <2>4. \A k \in Queue : MayIssue(k)' <=> MayIssue(k)
    BY <1>2, <2>1 DEF MayIssue
  <2>5. Wanted' = Wanted
    BY <2>1, <2>4 DEF Wanted, Queue
  <2>6. NotIssued
    BY <1>2, <2>1 DEF NotIssued
  <2> QED  BY <2>1, <2>3, <2>5, <2>6, ContractReads DEF Keeping
<1> QED  BY <1>4, <1>5, <1>6 DEF VerifyIssued

LEMMA AdvanceGives ==
    ASSUME QInv, AdvanceMoveQueue
    PROVE  Keeping
<1>1. CASE UNCHANGED queueVars
  BY <1>1, QueueStays
<1>2. ASSUME NEW j \in Queue, IsFront(j), CancelFront(j) \/ IssueFront(j) \/ VerifyFront(j)
      PROVE  Keeping
  <2>1. CASE CancelFront(j)
    BY <2>1, JobsAreSame, TryGives DEF CancelFront
  <2>2. CASE VerifyFront(j)
    BY <2>2, IndeterminateGives, RetireGives, VerifyGives DEF VerifyFront
  <2> QED  BY <1>2, <2>1, <2>2, IssueFrontGives
<1> QED  BY <1>1, <1>2 DEF AdvanceMoveQueue

LEMMA CancelLiveGives ==
    ASSUME QInv, NEW o \in Ops, CancelLiveOperation(o)
    PROVE  Keeping
<1>1. PICK keep \in SUBSET {j \in JobsOf(o) : MayAwaitTerminal(j)} :
        \E stuck \in SUBSET (JobsOf(o) \ keep) :
          LET ended == JobsOf(o) \ (keep \cup stuck)
          IN /\ jobs' = [j \in Queue \ ended |->
                           IF j \in keep THEN [jobs[j] EXCEPT !.retire = TRUE]
                           ELSE IF j \in stuck
                                THEN [jobs[j] EXCEPT !.cancelReq = TRUE]
                                ELSE jobs[j]]
             /\ FinalizeMoveReservation(guard, ended, FALSE)
  BY DEF CancelLiveOperation
<1>2. PICK stuck \in SUBSET (JobsOf(o) \ keep) :
          LET ended == JobsOf(o) \ (keep \cup stuck)
          IN /\ jobs' = [j \in Queue \ ended |->
                           IF j \in keep THEN [jobs[j] EXCEPT !.retire = TRUE]
                           ELSE IF j \in stuck
                                THEN [jobs[j] EXCEPT !.cancelReq = TRUE]
                                ELSE jobs[j]]
             /\ FinalizeMoveReservation(guard, ended, FALSE)
  BY <1>1
<1> DEFINE ended == JobsOf(o) \ (keep \cup stuck)
<1>3. \A j \in Queue : /\ Same(jobs[j], jobs[j])
                       /\ Same(jobs[j], [jobs[j] EXCEPT !.retire = TRUE])
                       /\ Same(jobs[j], [jobs[j] EXCEPT !.cancelReq = TRUE])
  BY JobIsTyped DEF Same, Wants, Job
<1>4. DOMAIN jobs' = Queue \ ended /\ \A k \in DOMAIN jobs' : Same(jobs[k], jobs'[k])
  BY <1>2, <1>3
<1>5. ended \subseteq JobIds
  BY EngineAssumption DEF JobsOf, QInv, QueueInv, Typed, Queue, JobIds
<1>6. guard' = Released(guard, ended)
  BY <1>2, FinalizeReleases
<1> QED  BY <1>4, <1>5, <1>6, GivesUp

LEMMA CancelGives ==
    ASSUME QInv, NEW o \in Ops, NEW rest, CancelOperation(o, rest)
    PROVE  Keeping
BY QueueStays, CancelLiveGives DEF CancelOperation

LEMMA ArmGives ==
    ASSUME QInv, NEW o, ArmMoveTimer(o)
    PROVE  Keeping
<1> DEFINE marked == [j \in Queue |-> [jobs[j] EXCEPT !.cancelReq = TRUE,
                                                     !.armFail = TRUE]]
<1>1. \A j \in Queue : jobs[j] \in Job /\ marked[j] \in Job /\ Same(jobs[j], marked[j])
                       /\ Same(jobs[j], [marked[j] EXCEPT !.retire = TRUE])
                       /\ Same(jobs[j], [marked[j] EXCEPT !.cancelReq = TRUE])
  <2> SUFFICES ASSUME NEW j \in Queue
               PROVE  /\ jobs[j] \in Job /\ marked[j] \in Job /\ Same(jobs[j], marked[j])
                      /\ Same(jobs[j], [marked[j] EXCEPT !.retire = TRUE])
                      /\ Same(jobs[j], [marked[j] EXCEPT !.cancelReq = TRUE])
    OBVIOUS
  <2>1. jobs[j] \in Job /\ marked[j] \in Job /\ marked[j].waiting = jobs[j].waiting
        /\ marked[j].cancelReq
    BY JobIsTyped DEF Job
  <2> QED  BY <2>1 DEF Same, Wants, Job
<1>2. SameJobs(marked)
  BY <1>1 DEF SameJobs
<1> HIDE DEF marked
<1>3. CASE UNCHANGED queueVars
  BY <1>3, QueueStays
<1>4. ASSUME NEW j \in Queue, jobs' = Retiring(marked, j), UNCHANGED guard
      PROVE  Keeping
  <2>1. SameJobs(Retiring(marked, j))
    BY <1>1, <1>2 DEF SameJobs, Retiring
  <2> QED  BY <1>4, <2>1, MarksOnly
<1>5. ASSUME NEW j \in Queue, NEW after, CancelNowOrDefer(marked, guard, j, after)
      PROVE  Keeping
  <2>1. CASE /\ jobs' = [marked EXCEPT ![j].cancelReq = TRUE] /\ guard' = guard
    <3>1. SameJobs([marked EXCEPT ![j].cancelReq = TRUE])
      BY <1>1, <1>2 DEF SameJobs
    <3> QED  BY <2>1, <3>1, MarksOnly
  <2>2. CASE /\ jobs' = [k \in DOMAIN marked \ {j} |-> marked[k]]
             /\ ReleasesOrSettles(guard, j)
    BY <1>2, <2>2, EndsOne DEF SameJobs
  <2> QED  BY <1>5, <2>1, <2>2, OwnerReleases DEF CancelNowOrDefer
<1> QED  BY <1>3, <1>4, <1>5 DEF ArmMoveTimer, ArmFailure, queueVars, marked

\* The next id is nobody's: no reservation carries it.
LEMMA NextIsFree ==
    ASSUME QInv, MayQueue
    PROVE  /\ nextJob \in JobIds /\ nextJob \notin Queue
           /\ \A v \in Windows : guard[v] # nextJob
<1>1. /\ nextJob \in Nat /\ nextJob >= 1 /\ nextJob <= MaxJobs
      /\ Queue \subseteq 1..(nextJob - 1) /\ settling \subseteq 1..(nextJob - 1)
      /\ MaxJobs \in Nat
  BY EngineAssumption DEF QInv, QueueInv, Typed, MayQueue, Queue
<1>2. nextJob \in JobIds /\ nextJob \notin Queue /\ nextJob \notin settling
  BY <1>1 DEF JobIds
<1> QED  BY <1>2 DEF QInv, QueueInv, Leaks, Queue

\* The successor j is the only new job; the one that held the window has
\* ended or may move it no more.
LEMMA ClaimGives ==
    ASSUME QInv, MayQueue, NEW o \in Ops, NEW w \in Windows, guard[w] # Picker,
           guard' = [guard EXCEPT ![w] = nextJob],
           DOMAIN jobs' \in {Queue \cup {nextJob}, (Queue \ {guard[w]}) \cup {nextJob}},
           jobs'[nextJob] = NewJob(o, w),
           \A k \in Queue \cap DOMAIN jobs' : k # guard[w] => jobs'[k] = jobs[k],
           guard[w] \in DOMAIN jobs' =>
              ~Wants(jobs'[guard[w]]) /\ (jobs'[guard[w]].waiting <=> jobs[guard[w]].waiting)
    PROVE  Keeping
<1> DEFINE prior == guard[w]
<1>1. /\ nextJob \in JobIds /\ nextJob \notin Queue /\ prior # nextJob
      /\ \A v \in Windows : guard[v] # nextJob
  BY NextIsFree
<1>2. Queue \subseteq JobIds
  BY EngineAssumption DEF QInv, QueueInv, Typed, Queue, JobIds
<1>3. ~jobs'[nextJob].waiting /\ Wants(jobs'[nextJob])
  BY DEF NewJob, Wants
<1>4. Wanted' = (Wanted \ ({prior} \cap JobIds)) \cup {nextJob}
  <2>1. Wanted' = {k \in DOMAIN jobs' : Wants(jobs'[k])}
    BY DEF Wanted, MayIssue, Wants, Queue
  <2>2. Wanted = {k \in Queue : Wants(jobs[k])}
    BY DEF Wanted, MayIssue, Wants
  <2> QED  BY <1>1, <1>2, <1>3, <2>1, <2>2
<1>5. Unread' = Unread \/ Unread' = Unread \ ({prior} \cap JobIds)
  <2>1. CASE DOMAIN jobs' = Queue \cup {nextJob}
    BY <1>1, <1>3, <2>1 DEF Unread, Queue
  <2>2. CASE DOMAIN jobs' = (Queue \ {prior}) \cup {nextJob}
    BY <1>1, <1>2, <1>3, <2>2 DEF Unread, Queue
  <2> QED  BY <2>1, <2>2
<1>6. NotIssued
  BY <1>1 DEF NotIssued
<1>7. nextJob \notin Wanted \cup Unread
  BY <1>1 DEF Wanted, Unread
<1> QED  BY <1>1, <1>4, <1>5, <1>6, <1>7, ContractClaims DEF Keeping

LEMMA QueueAutoGives ==
    ASSUME QInv, NEW o \in AutoOps, NEW w \in Windows, QueueAutoMove(o, w)
    PROVE  Keeping
<1>1. NoGuard # Picker /\ NoGuard \notin Queue /\ NoGuard # nextJob
  BY EngineAssumption DEF QInv, QueueInv, Typed, Queue
<1>2. nextJob \notin Queue
  BY NextIsFree DEF QueueAutoMove
<1>3. /\ MayQueue /\ guard[w] = NoGuard /\ guard' = [guard EXCEPT ![w] = nextJob]
      /\ DOMAIN jobs' = Queue \cup {nextJob} /\ jobs'[nextJob] = NewJob(o, w)
      /\ \A k \in Queue : jobs'[k] = jobs[k]
  BY <1>2 DEF QueueAutoMove, Enqueue
<1>4. o \in Ops /\ guard[w] \notin DOMAIN jobs'
  BY <1>1, <1>3 DEF Ops
<1> QED  BY <1>1, <1>3, <1>4, ClaimGives

\* No window but w is held by the job that holds w.
LEMMA HoldsOne ==
    ASSUME QInv, NEW w \in Windows, guard[w] \in Queue, NEW v \in Windows, v # w
    PROVE  guard[v] # guard[w]
<1>1. guard[w] \in JobIds /\ guard[w] \notin settling
  BY EngineAssumption DEF QInv, QueueInv, Typed, Queue, JobIds
<1> QED  BY <1>1 DEF QInv, QueueInv, Leaks, Queue

\* The reservation of a displaced job has passed on before the job ends.
LEMMA PassedOn ==
    ASSUME QInv, NEW w \in Windows, guard[w] \in Queue, NEW s, s # guard[w],
           ReleasesOrSettles([guard EXCEPT ![w] = s], guard[w])
    PROVE  guard' = [guard EXCEPT ![w] = s]
<1> DEFINE held == [guard EXCEPT ![w] = s]
<1>1. guard \in [Windows -> {NoGuard, Picker} \cup JobIds]
  BY DEF QInv, QueueInv, Typed
<1>2. \A v \in Windows : held[v] # guard[w]
  BY <1>1, HoldsOne
<1>3. Released(held, {guard[w]}) = held
  BY <1>1, <1>2 DEF Released
<1> QED  BY <1>3 DEF ReleasesOrSettles

LEMMA QueueManualGives ==
    ASSUME QInv, NEW o \in ManualOps, NEW w \in Windows, NEW rest,
           QueueManualMove(o, w, rest)
    PROVE  Keeping
<1> DEFINE base == Enqueue(o, w)
           held == [guard EXCEPT ![w] = nextJob]
           prior == guard[w]
<1>1. MayQueue /\ prior # Picker /\ o \in Ops
  BY DEF QueueManualMove, Ops
<1>2. nextJob \notin Queue /\ prior # nextJob
  BY <1>1, NextIsFree
<1>3. /\ DOMAIN base = Queue \cup {nextJob} /\ base[nextJob] = NewJob(o, w)
      /\ \A k \in Queue : base[k] = jobs[k]
  BY <1>2 DEF Enqueue
<1> HIDE DEF base
<1>4. CASE prior \notin Queue /\ jobs' = base /\ guard' = held
  BY <1>1, <1>2, <1>3, <1>4, ClaimGives
<1>5. ASSUME prior \in Queue, NEW r, jobs' = [base EXCEPT ![prior] = r], guard' = held,
             ~Wants(r), r.waiting <=> jobs[prior].waiting
      PROVE  Keeping
  <2>1. /\ DOMAIN jobs' = Queue \cup {nextJob} /\ jobs'[nextJob] = NewJob(o, w)
        /\ jobs'[prior] = r /\ \A k \in Queue : k # prior => jobs'[k] = jobs[k]
    BY <1>2, <1>3, <1>5
  <2> QED  BY <1>1, <1>5, <2>1, ClaimGives
<1>6. CASE prior \in Queue /\ jobs' = Retiring(base, prior) /\ guard' = held
  <2> DEFINE r == [base[prior] EXCEPT !.retire = TRUE]
  <2>1. jobs[prior] \in Job
    BY <1>6, JobIsTyped
  <2>2. ~Wants(r) /\ (r.waiting <=> jobs[prior].waiting)
    BY <1>3, <1>6, <2>1 DEF Wants, Job
  <2>3. jobs' = [base EXCEPT ![prior] = r]
    BY <1>6 DEF Retiring
  <2> QED  BY <1>5, <1>6, <2>2, <2>3
<1>7. CASE prior \in Queue /\ jobs' = [base EXCEPT ![prior].cancelReq = TRUE] /\ guard' = held
  <2> DEFINE r == [base[prior] EXCEPT !.cancelReq = TRUE]
  <2>1. jobs[prior] \in Job
    BY <1>7, JobIsTyped
  <2>2. ~Wants(r) /\ (r.waiting <=> jobs[prior].waiting)
    BY <1>3, <1>7, <2>1 DEF Wants, Job
  <2>3. jobs' = [base EXCEPT ![prior] = r]
    BY <1>7
  <2> QED  BY <1>5, <1>7, <2>2, <2>3
<1>8. CASE /\ prior \in Queue
           /\ jobs' = [k \in DOMAIN base \ {prior} |-> base[k]]
           /\ ReleasesOrSettles(held, prior)
  <2>1. guard' = held
    BY <1>2, <1>8, PassedOn
  <2>2. /\ DOMAIN jobs' = (Queue \ {prior}) \cup {nextJob} /\ jobs'[nextJob] = NewJob(o, w)
        /\ \A k \in Queue : k # prior => jobs'[k] = jobs[k]
    BY <1>2, <1>3, <1>8
  <2>3. prior \notin DOMAIN jobs'
    BY <1>2, <2>2
  <2> QED  BY <1>1, <2>1, <2>2, <2>3, ClaimGives
<1> QED  BY <1>4, <1>6, <1>7, <1>8, OwnerReleases
         DEF QueueManualMove, Installed, CancelNowOrDefer, base

LEMMA PickerGives ==
    ASSUME QInv, NEW w \in Windows, BeginPickerAction(w)
    PROVE  Keeping
<1> DEFINE prior == guard[w]
           held == [guard EXCEPT ![w] = Picker]
<1>1. prior # Picker
  BY DEF BeginPickerAction
<1>2. CASE prior = NoGuard /\ guard' = held /\ UNCHANGED jobs
  <2>1. prior \notin Queue
    BY <1>2, EngineAssumption DEF QInv, QueueInv, Typed, Queue
  <2>2. Wanted' = Wanted \ {prior} /\ Unread' = Unread /\ prior \notin Unread /\ NotIssued
    BY <1>2, <2>1 DEF Wanted, Unread, MayIssue, Queue, NotIssued
  <2> QED  BY <1>1, <1>2, <2>2, ContractTakes DEF Keeping
<1>3. CASE prior \in Queue /\ PickerMaySupersede(prior) /\ CancelNowOrDefer(jobs, held, prior, <<>>)
  <2>1. ~jobs[prior].waiting
    BY <1>3 DEF PickerMaySupersede, IsFront, QInv, QueueInv, Flights, Queue
  <2>2. CASE /\ jobs' = [k \in Queue \ {prior} |-> jobs[k]] /\ ReleasesOrSettles(held, prior)
    <3>1. Picker # prior
      BY <1>1
    <3>2. guard' = held
      BY <1>3, <2>2, <3>1, PassedOn
    <3>3. DOMAIN jobs' = Queue \ {prior} /\ \A k \in DOMAIN jobs' : jobs'[k] = jobs[k]
      BY <2>2
    <3>4. Wanted' = Wanted \ {prior} /\ Unread' = Unread /\ prior \notin Unread /\ NotIssued
      BY <2>1, <3>3 DEF Wanted, Unread, MayIssue, Queue, NotIssued
    <3> QED  BY <1>1, <3>2, <3>4, ContractTakes DEF Keeping
  <2>3. CASE jobs' = [jobs EXCEPT ![prior].cancelReq = TRUE] /\ guard' = held
    <3>1. jobs[prior] \in Job
      BY <1>3, JobIsTyped
    <3>2. /\ DOMAIN jobs' = Queue /\ jobs'[prior].cancelReq
          /\ jobs'[prior].waiting = jobs[prior].waiting
          /\ \A k \in Queue : k # prior => jobs'[k] = jobs[k]
      BY <1>3, <2>3, <3>1 DEF Job, Queue
    <3>3. Wanted' = Wanted \ {prior} /\ Unread' = Unread /\ prior \notin Unread /\ NotIssued
      BY <2>1, <3>2 DEF Wanted, Unread, MayIssue, Queue, NotIssued
    <3> QED  BY <1>1, <2>3, <3>3, ContractTakes DEF Keeping
  <2> QED  BY <1>3, <2>2, <2>3, OwnerReleases DEF CancelNowOrDefer, Queue
<1> QED  BY <1>2, <1>3 DEF BeginPickerAction, Installed

LEMMA PickerEndGives ==
    ASSUME QInv, NEW w \in Windows, PickerTransitionEnds(w)
    PROVE  Keeping
<1>1. Wanted' = Wanted /\ Unread' = Unread /\ NotIssued
  BY DEF PickerTransitionEnds, Wanted, Unread, MayIssue, Queue, NotIssued
<1> QED  BY <1>1, ContractReleases DEF PickerTransitionEnds, Keeping

LEMMA ReleaseGives ==
    ASSUME QInv, NEW j \in settling, NEW ok, ReleaseReservation(j, ok)
    PROVE  Keeping
<1>1. j \in JobIds /\ j \notin Queue
  BY EngineAssumption DEF QInv, QueueInv, Typed, Queue, JobIds
<1>2. guard' = Released(guard, {j}) /\ jobs' = jobs
  BY FinalizeReleases DEF ReleaseReservation
<1> QED  BY <1>1, <1>2, GivesUp, JobsAreSame DEF SameJobs, Queue

LEMMA ThrowGives ==
    ASSUME QInv, MoveTimerThrows
    PROVE  Keeping
<1>1. guard' = guard
  BY DEF MoveTimerThrows
<1>2. ASSUME NEW j \in Queue, \/ jobs' = Retiring(jobs, j)
                              \/ jobs' = [jobs EXCEPT ![j].cancelReq = TRUE]
      PROVE  Keeping
  <2>1. Same(jobs[j], [jobs[j] EXCEPT !.retire = TRUE])
        /\ Same(jobs[j], [jobs[j] EXCEPT !.cancelReq = TRUE])
    BY JobIsTyped DEF Same, Wants, Job
  <2>2. SameJobs(jobs')
    BY <1>2, <2>1, JobsAreSame DEF SameJobs, Retiring, Queue
  <2> QED  BY <1>1, <2>2, MarksOnly
<1> QED  BY <1>1, <1>2, JobsAreSame, MarksOnly DEF MoveTimerThrows

\* Every step does one of the things the contract allows.
LEMMA StepGives ==
    ASSUME QInv, [Next]_vars
    PROVE  Keeping
<1>1. CASE Calls
  <2>1. CASE AdvanceMoveQueue
    BY <2>1, AdvanceGives
  <2>2. CASE DrainQueue \/ ArmRecovery \/ \E n \in 0..MaxJobs : CompletePostedAttempt(n)
    BY <2>2, QueueStays DEF DrainQueue, ArmRecovery, CompletePostedAttempt
  <2>3. CASE \E o \in Ops : CancelCall(o)
    BY <2>3, CancelGives DEF CancelCall
  <2>4. CASE \E o \in AutoOps \cup {NoOp} : ArmMoveTimer(o)
    BY <2>4, ArmGives
  <2>5. ASSUME NEW o \in ManualOps, NEW old \in SUBSET ManualOps, StartManualRestore(o, old)
        PROVE  Keeping
    BY <2>5, QueueStays, CancelGives DEF StartManualRestore, Ops
  <2>6. ASSUME NEW o \in ManualOps,
               FinishManualMove(o) \/ \E todo \in SUBSET Windows : ManualPlanLoop(o, todo)
        PROVE  Keeping
    BY <2>6, QueueStays, QueueManualGives DEF FinishManualMove, ManualPlanLoop
  <2>7. ASSUME NEW o \in AutoOps,
               \/ FinishAutoOperation(o)
               \/ \E todo \in SUBSET Windows :
                    \/ AutoPlanLoop(o, todo)
                    \/ \E queued \in BOOLEAN : RearmPickerClaims(o, todo, queued)
        PROVE  Keeping
    BY <2>7, QueueStays, QueueAutoGives
       DEF FinishAutoOperation, AutoPlanLoop, RearmPickerClaims
  <2>8. CASE \E j \in settling : \E ok \in BOOLEAN : ReleaseReservation(j, ok)
    BY <2>8, ReleaseGives
  <2> QED  BY <1>1, <2>1, <2>2, <2>3, <2>4, <2>5, <2>6, <2>7, <2>8 DEF Calls
<1>2. CASE MoveTimerThrows
  BY <1>2, ThrowGives
<1>3. CASE MoveTimer \/ CancelRetryMessage \/ Heartbeat
  BY <1>3, QueueStays DEF MoveTimer, CancelRetryMessage, Heartbeat
<1>4. CASE \E o \in AutoOps : \/ BeginAutoRestore(o) \/ AutoPlanResult(o)
                              \/ AutoPlanDeferred(o) \/ ResetAutoRuntime(o)
  BY <1>4, QueueStays
     DEF BeginAutoRestore, AutoPlanResult, AutoPlanDeferred, ResetAutoRuntime
<1>5. CASE \/ \E o \in ManualOps : \/ ManualRestoreClick(o)
                                   \/ \E a \in Apps : ManualPlanResult(o, a)
           \/ \E o \in Ops : RetireOperation(o)
  BY <1>5, QueueStays DEF ManualRestoreClick, ManualPlanResult, RetireOperation
<1>6. ASSUME NEW w \in Windows,
             \/ BeginPickerAction(w) \/ PickerTransitionEnds(w) \/ WindowCloses(w)
      PROVE  Keeping
  BY <1>6, QueueStays, PickerGives, PickerEndGives DEF WindowCloses
<1>7. CASE UNCHANGED vars
  BY <1>7, QueueStays DEF vars
<1> QED  BY <1>1, <1>2, <1>3, <1>4, <1>5, <1>6, <1>7 DEF Next

\* The engine with its queue, operations, timer and failures implements the
\* contract, which knows of nothing but who holds each window, which jobs may
\* still move theirs and whose move is unread.
THEOREM ImplementsContractAlways == Spec => ImplementsContract
<1>1. Init => Contract!ContractInit
  BY DEF Init, Contract!ContractInit, Queue
<1>2. QInv /\ [Next]_vars => [Contract!ContractNext]_(Contract!contractVars)
  BY StepGives DEF Keeping
<1> QED  BY <1>1, <1>2, QueueInvariant, PTL DEF Spec, ImplementsContract, Contract!ContractSpec

-----------------------------------------------------------------------------
(* The operations: who owns a queued move, what an operation waits for,    *)
(* and what wakes a queue up whose timer could not be set.  All of it is   *)
(* only true between two handlers; while one runs, the calls it still has  *)
(* to make owe the rest.  So the invariant says what each call on the      *)
(* stack relies on, and every action is considered by what it does to the  *)
(* calls below it.                                                         *)

\* The calls a handler may have left.
Frames ==
    [fn : {"Advance", "Drain", "ArmTail"}]
    \cup [fn : {"Release"}, job : JobIds, succeeded : BOOLEAN]
    \cup [fn : {"RetryDone"}, before : Nat]
    \cup [fn : {"Arm"}, op : AutoOps \cup {NoOp}]
    \cup [fn : {"Cancel", "Finish"}, op : Ops]
    \cup [fn : {"Rearm"}, op : AutoOps, todo : SUBSET Windows, queued : BOOLEAN]
    \cup [fn : {"AutoLoop"}, op : AutoOps, todo : SUBSET Windows]
    \cup [fn : {"ManualLoop"}, op : ManualOps, todo : SUBSET Windows]
    \cup [fn : {"StartManual"}, op : ManualOps, old : SUBSET ManualOps]
On(s) == {s[i] : i \in DOMAIN s}

\* A call that runs is on top.  Under the loop over a manual plan there is
\* nothing, and above it only what the displacement of an automatic move calls;
\* a look at the queue is on top of nothing but the end of a retry.
Running(f) == f.fn \in {"AutoLoop", "Rearm", "StartManual", "Advance"}
Nested(f) ==
    \/ f.fn \in {"Release", "ArmTail"}
    \/ f.fn \in {"Cancel", "Finish", "Rearm", "Arm"} /\ f.op \in AutoOps
Ordered(s) ==
    \A i \in DOMAIN s :
        /\ Running(s[i]) => i = 1
        /\ s[i].fn = "ManualLoop" =>
              i = Len(s) /\ \A k \in DOMAIN s : k # i => Nested(s[k])
        /\ s[i].fn = "Advance" => \A k \in DOMAIN s : k # i => s[k].fn = "RetryDone"

\* A stack, and one whose next call has not started to run.
Stack(s) == s \in Seq(Frames) /\ Ordered(s)
Calm(s) == Stack(s) /\ \A f \in On(s) : ~Running(f)
\* A call that may be put on a calm stack.
Fits(f, s) ==
    /\ f \in Frames
    /\ Nested(f) \/ \A g \in On(s) : g.fn # "ManualLoop"
    /\ f.fn = "ManualLoop" => s = <<>>
    /\ f.fn = "Advance" => \A g \in On(s) : g.fn = "RetryDone"

-----------------------------------------------------------------------------
(* Stacks of calls. *)

LEMMA EmptyStack == Calm(<<>>) /\ On(<<>>) = {}
<1>1. <<>> \in Seq(Frames) /\ DOMAIN <<>> = {}
  OBVIOUS
<1> QED  BY <1>1 DEF Calm, Stack, Ordered, On

\* What is left when the call on top has been made.
LEMMA PopStack ==
    ASSUME NEW s, Stack(s), s # <<>>
    PROVE  /\ Calm(Tail(s)) /\ Head(s) \in Frames
           /\ On(s) = {Head(s)} \cup On(Tail(s))
           /\ Head(s).fn = "ManualLoop" => Tail(s) = <<>>
           /\ Nested(Head(s)) \/ \A g \in On(Tail(s)) : g.fn # "ManualLoop"
           /\ Head(s).fn = "Advance" => \A g \in On(Tail(s)) : g.fn = "RetryDone"
<1> DEFINE t == Tail(s)
           f == Head(s)
<1>1. /\ s \in Seq(Frames) /\ t \in Seq(Frames) /\ f \in Frames
      /\ f = s[1] /\ Len(t) = Len(s) - 1 /\ Len(s) \in Nat /\ Len(s) > 0
      /\ DOMAIN s = 1..Len(s) /\ DOMAIN t = 1..(Len(s) - 1)
      /\ \A i \in DOMAIN t : t[i] = s[i + 1]
  BY DEF Stack
<1> HIDE DEF t, f
<1>2. \A i \in DOMAIN t : i + 1 \in DOMAIN s /\ i + 1 # 1 /\ t[i] = s[i + 1]
  BY <1>1
<1>3. \A g \in On(t) : \E i \in DOMAIN s : i # 1 /\ g = s[i]
  BY <1>2 DEF On
<1>4. On(s) = {f} \cup On(t)
  <2>1. f \in On(s) /\ On(t) \subseteq On(s)
    BY <1>1, <1>2 DEF On
  <2>2. ASSUME NEW g \in On(s), g # f
        PROVE  g \in On(t)
    <3>1. PICK i \in DOMAIN s : g = s[i]
      BY DEF On
    <3>2. i - 1 \in DOMAIN t /\ t[i - 1] = g
      BY <1>1, <2>2, <3>1
    <3> QED  BY <3>2 DEF On
  <2> QED  BY <2>1, <2>2
<1>5. \A g \in On(t) : ~Running(g)
  BY <1>3 DEF Stack, Ordered
<1>6. Ordered(t)
  <2> SUFFICES ASSUME NEW i \in DOMAIN t
               PROVE  /\ Running(t[i]) => i = 1
                      /\ t[i].fn = "ManualLoop" =>
                            i = Len(t) /\ \A k \in DOMAIN t : k # i => Nested(t[k])
                      /\ t[i].fn = "Advance" =>
                            \A k \in DOMAIN t : k # i => t[k].fn = "RetryDone"
    BY DEF Ordered
  <2>1. ~Running(t[i])
    BY <1>5 DEF On
  <2>2. ASSUME t[i].fn = "ManualLoop"
        PROVE  i = Len(t) /\ \A k \in DOMAIN t : k # i => Nested(t[k])
    BY <1>1, <1>2, <2>2 DEF Stack, Ordered
  <2> QED  BY <2>1, <2>2 DEF Running
<1>7. f.fn = "ManualLoop" => t = <<>>
  <2> SUFFICES ASSUME f.fn = "ManualLoop"
               PROVE  t = <<>>
    OBVIOUS
  <2>1. Len(s) = 1
    BY <1>1 DEF Stack, Ordered
  <2> QED  BY <1>1, <2>1
<1>8. Nested(f) \/ \A g \in On(t) : g.fn # "ManualLoop"
  BY <1>1, <1>3 DEF Stack, Ordered
<1>9. f.fn = "Advance" => \A g \in On(t) : g.fn = "RetryDone"
  BY <1>1, <1>3 DEF Stack, Ordered
<1> QED  BY <1>1, <1>4, <1>5, <1>6, <1>7, <1>8, <1>9 DEF Calm, Stack, t, f

\* A call that is left to be made.
LEMMA PushStack ==
    ASSUME NEW s, Calm(s), NEW f, Fits(f, s)
    PROVE  /\ Stack(<<f>> \o s) /\ On(<<f>> \o s) = {f} \cup On(s)
           /\ <<f>> \o s # <<>> /\ Head(<<f>> \o s) = f /\ Tail(<<f>> \o s) = s
           /\ ~Running(f) => Calm(<<f>> \o s)
<1> DEFINE t == <<f>> \o s
<1>1. /\ s \in Seq(Frames) /\ t \in Seq(Frames) /\ f \in Frames
      /\ t[1] = f /\ Len(t) = Len(s) + 1 /\ Len(s) \in Nat
      /\ DOMAIN s = 1..Len(s) /\ DOMAIN t = 1..(Len(s) + 1)
      /\ \A i \in DOMAIN s : t[i + 1] = s[i]
  BY DEF Calm, Stack, Fits
<1>2. t # <<>> /\ Head(t) = f /\ Tail(t) = s
  <2>1. Tail(t) \in Seq(Frames) /\ Len(Tail(t)) = Len(s) /\ \A i \in 1..Len(s) : Tail(t)[i] = s[i]
    BY <1>1
  <2>2. Tail(t) = s
    BY <1>1, <2>1, SeqEqual
  <2> QED  BY <1>1, <2>2
<1> HIDE DEF t
<1>3. \A i \in DOMAIN t : i # 1 => i - 1 \in DOMAIN s /\ t[i] = s[i - 1]
  BY <1>1
<1>4. On(t) = {f} \cup On(s)
  <2>1. On(t) \subseteq {f} \cup On(s)
    BY <1>1, <1>3 DEF On
  <2>2. \A i \in DOMAIN s : i + 1 \in DOMAIN t /\ t[i + 1] = s[i]
    BY <1>1
  <2>3. f \in On(t) /\ On(s) \subseteq On(t)
    BY <1>1, <2>2 DEF On
  <2> QED  BY <2>1, <2>3
<1>5. Ordered(t)
  <2> SUFFICES ASSUME NEW i \in DOMAIN t
               PROVE  /\ Running(t[i]) => i = 1
                      /\ t[i].fn = "ManualLoop" =>
                            i = Len(t) /\ \A k \in DOMAIN t : k # i => Nested(t[k])
                      /\ t[i].fn = "Advance" =>
                            \A k \in DOMAIN t : k # i => t[k].fn = "RetryDone"
    BY DEF Ordered
  <2>1. \A k \in DOMAIN t : k # 1 => t[k] \in On(s)
    BY <1>3 DEF On
  <2>2. CASE i = 1
    <3>1. f.fn = "ManualLoop" => Len(t) = 1 /\ DOMAIN t = {1}
      BY <1>1 DEF Fits
    <3>2. f.fn = "Advance" => \A k \in DOMAIN t : k # 1 => t[k].fn = "RetryDone"
      BY <2>1 DEF Fits
    <3> QED  BY <1>1, <2>2, <3>1, <3>2
  <2>3. CASE i # 1
    <3>1. t[i] \in On(s) /\ ~Running(t[i])
      BY <2>1, <2>3 DEF Calm
    <3>2. ASSUME t[i].fn = "ManualLoop"
          PROVE  i = Len(t) /\ \A k \in DOMAIN t : k # i => Nested(t[k])
      <4>1. i - 1 \in DOMAIN s /\ s[i - 1].fn = "ManualLoop"
        BY <1>3, <2>3, <3>2
      <4>2. i - 1 = Len(s) /\ \A k \in DOMAIN s : k # i - 1 => Nested(s[k])
        BY <4>1 DEF Calm, Stack, Ordered
      <4>3. Nested(f)
        BY <3>1, <3>2 DEF Fits
      <4> QED  BY <1>1, <1>3, <4>2, <4>3
    <3> QED  BY <2>3, <3>1, <3>2 DEF Running
  <2> QED  BY <2>2, <2>3
<1> QED  BY <1>1, <1>2, <1>4, <1>5 DEF Calm, Stack, t

LEMMA PushTwo ==
    ASSUME NEW s, Calm(s), NEW f, NEW g, Fits(g, s), ~Running(g), Nested(f), f \in Frames
    PROVE  /\ Stack(<<f, g>> \o s) /\ On(<<f, g>> \o s) = {f, g} \cup On(s)
           /\ <<f, g>> \o s # <<>> /\ Head(<<f, g>> \o s) = f
           /\ ~Running(f) => Calm(<<f, g>> \o s)
<1>1. g \in Frames /\ s \in Seq(Frames)
  BY DEF Fits, Calm, Stack
<1>2. <<f, g>> \o s = <<f>> \o (<<g>> \o s)
  <2>1. <<f>> \in Seq(Frames) /\ <<g>> \in Seq(Frames) /\ <<f, g>> \in Seq(Frames)
    BY <1>1
  <2>2. <<f>> \o <<g>> \in Seq(Frames) /\ Len(<<f>> \o <<g>>) = 2
        /\ (<<f>> \o <<g>>)[1] = f /\ (<<f>> \o <<g>>)[2] = g
    BY <2>1
  <2>3. \A i \in 1..2 : <<f, g>>[i] = (<<f>> \o <<g>>)[i]
    BY <2>2
  <2>4. <<f, g>> = <<f>> \o <<g>>
    BY <2>1, <2>2, <2>3, SeqEqual
  <2> QED  BY <1>1, <2>1, <2>4, ConcatAssociative
<1>3. Calm(<<g>> \o s) /\ On(<<g>> \o s) = {g} \cup On(s)
  BY PushStack
<1>4. f.fn # "ManualLoop" /\ f.fn # "Advance"
  BY DEF Nested
<1>5. Fits(f, <<g>> \o s)
  BY <1>4 DEF Fits
<1> DEFINE t == <<g>> \o s
<1>6. /\ Stack(<<f>> \o t) /\ On(<<f>> \o t) = {f} \cup On(t)
      /\ <<f>> \o t # <<>> /\ Head(<<f>> \o t) = f
      /\ ~Running(f) => Calm(<<f>> \o t)
  BY <1>3, <1>5, PushStack
<1> QED  BY <1>2, <1>3, <1>6


-----------------------------------------------------------------------------
(* The inductive invariant. *)

\* A queued job belongs to an operation that is live, that was cancelled and
\* no longer wants the move, or that is orphaned; the operation waits for no
\* result of that application; and a job marked when the timer could not be
\* set is a cancelled one.
JobInv ==
    \A j \in Queue :
        /\ \/ phase[jobs[j].op] = "live"
           \/ phase[jobs[j].op] = "cancelling" /\ ~Wants(jobs[j])
           \/ Orphaned(jobs[j].op)
        /\ AppOf[jobs[j].win] \notin pending[jobs[j].op]
        /\ jobs[j].op \in AutoOps => AppOf[jobs[j].win] = AppOf[jobs[j].op]
        /\ jobs[j].armFail => jobs[j].cancelReq

\* An automatic restore is about windows of its application, of which one is
\* live at a time; it waits for its results or has claims; and the lifecycle
\* knows how it stands.
AutoInv ==
    \A o \in AutoOps :
        /\ pending[o] \subseteq {AppOf[o]}
        /\ \A w \in claims[o] : AppOf[w] = AppOf[o]
        /\ claims[o] # {} => phase[o] # "new" /\ pending[o] = {}
        /\ \A p \in AutoOps :
              phase[o] = "live" /\ phase[p] = "live" /\ AppOf[o] = AppOf[p] => o = p
        /\ (phase[o] \in {"cancelling", "gone"}) <=> (outcome[o] # "none")
        /\ outcome[o] = "Success" => phase[o] = "gone" /\ o \notin disarmed
        /\ o \in disarmed => phase[o] # "new"

\* No operation is forgotten: one that waits for nothing is in the hands of a
\* call, and one that lost a move because the timer could not be set is about
\* to be cancelled.
InHands(o, s) ==
    \E f \in On(s) : \/ f \in {Finish(o), Cancel(o)}
                     \/ f.fn \in {"AutoLoop", "Rearm", "ManualLoop"} /\ f.op = o
AboutToCancel(o) == stack # <<>> /\ Head(stack) = Cancel(o)
OpInv ==
    /\ \A o \in Ops : phase[o] = "cancelling" => JobsOf(o) # {}
    /\ \A o \in Ops : phase[o] = "live" =>
          \/ pending[o] # {} \/ JobsOf(o) # {}
          \/ o \in AutoOps /\ \E w \in claims[o] : guard[w] = Picker
          \/ InHands(o, stack)
    /\ \A o \in AutoOps \cap disarmed : phase[o] = "live" =>
          \/ \E j \in JobsOf(o) : jobs[j].armFail
          \/ AboutToCancel(o)

\* What the calls left on the stack rely on.
Relies(f) ==
    /\ f.fn = "Finish" /\ f.op \in AutoOps =>
          pending[f.op] = {} /\ phase[f.op] # "new"
    /\ f.fn \in {"AutoLoop", "Rearm"} =>
          /\ phase[f.op] = "live" /\ pending[f.op] = {}
          /\ \A w \in f.todo : AppOf[w] = AppOf[f.op]
    /\ f.fn = "Rearm" =>
          /\ f.queued <=> (JobsOf(f.op) # {})
          /\ \A j \in JobsOf(f.op) : ~jobs[j].awaiting
          /\ f.op \notin disarmed
    /\ f.fn = "ManualLoop" =>
          /\ phase[f.op] = "live" \/ (Orphaned(f.op) /\ timer)
          /\ \A w \in f.todo : AppOf[w] \notin pending[f.op]
          /\ \A j \in JobsOf(f.op) : jobs[j].win \notin f.todo
    /\ f.fn = "StartManual" => phase[f.op] = "new" /\ f.op \notin f.old
CallInv ==
    /\ \A f \in On(stack) : Relies(f)
    /\ \A j \in settling : \E f \in On(stack) : f.fn = "Release" /\ f.job = j
    /\ \A f, g \in On(stack) :
          f.fn = "ManualLoop" /\ g.fn \in {"Finish", "Rearm", "Arm"} => timer
    /\ \A f \in On(stack) : f.fn = "Advance" =>
          timer \/ \E g \in On(stack) : g.fn = "RetryDone"

\* Without the timer nobody looks at a job: it was cancelled, or it was never
\* issued and its operation, about to be armed or cancelled, is still staging.
Staging(o) ==
    \/ \E f \in On(stack) : \/ f.fn \in {"AutoLoop", "Rearm", "ManualLoop"} /\ f.op = o
                            \/ f.fn = "Arm"
    \/ AboutToCancel(o) /\ phase[o] = "live"
Asleep(r) ==
    \/ r.cancelReq /\ (r.armFail \/ phase[r.op] # "live")
    \/ ~r.awaiting /\ Staging(r.op)
SleepInv == timer \/ \A j \in Queue : Asleep(jobs[j])

\* A cancellation that is still to be carried out is published, and tried
\* again by somebody unless posting fails or has been of no use.
Retrying(s) == \E f \in On(s) : f.fn \in {"ArmTail", "RetryDone"}
RetryInv ==
    /\ \A j \in Queue : jobs[j].cancelReq => cancelPending
    /\ ~timer /\ (\E j \in Queue : jobs[j].cancelReq) =>
          \/ msgs > 0 \/ MaxPosts = 0 \/ "post" \in Faults
          \/ retry.noProgress >= MaxNoProgress
          \/ Retrying(stack)
    /\ retry.posted => msgs > 0 \/ \E f \in On(stack) : f.fn = "RetryDone"

Facts == QInv /\ Types /\ Stack(stack)
Inv == Facts /\ JobInv /\ AutoInv /\ OpInv /\ CallInv /\ SleepInv /\ RetryInv

-----------------------------------------------------------------------------
(* What the steps have in common. *)

\* A job that is still queued is the same job with more marks.
Carries(r, s) ==
    /\ s \in Job /\ s.op = r.op /\ s.win = r.win
    /\ r.cancelReq => s.cancelReq
    /\ r.retire => s.retire
    /\ r.armFail => s.armFail
    /\ s.armFail => s.cancelReq
\* All jobs but those of E are still queued.
Keeps(E) ==
    /\ E \cap DOMAIN jobs' = {} /\ Queue \ E \subseteq DOMAIN jobs'
    /\ \A k \in Queue \ E : Carries(jobs[k], jobs'[k])
\* No job is new, or only this one.
NoneNew == DOMAIN jobs' \subseteq Queue
OneNew(o, w) ==
    /\ DOMAIN jobs' \subseteq Queue \cup {nextJob} /\ nextJob \notin Queue
    /\ nextJob \in DOMAIN jobs' /\ jobs'[nextJob] = NewJob(o, w)
\* No job is asked to cancel that was not.
NoneAsked == \A k \in DOMAIN jobs' : jobs'[k].cancelReq => k \in Queue /\ jobs[k].cancelReq

LEMMA NewJobIs ==
    ASSUME NEW o \in Ops, NEW w \in Windows
    PROVE  /\ NewJob(o, w) \in Job /\ NewJob(o, w).op = o /\ NewJob(o, w).win = w
           /\ ~NewJob(o, w).cancelReq /\ ~NewJob(o, w).armFail
           /\ ~NewJob(o, w).awaiting /\ Wants(NewJob(o, w)) /\ ~NewJob(o, w).waiting
BY EngineAssumption DEF NewJob, Job, Wants

\* The ownership of jobs survives a step that keeps jobs, as long as each kept
\* job's operation stays as it is or is cancelled together with it.
LEMMA JobStep ==
    ASSUME JobInv, QInv, NEW E, Keeps(E), NoneNew, disarmed \subseteq disarmed',
           \A o \in Ops : pending'[o] \subseteq pending[o] \/ phase[o] = "new",
           \A k \in Queue \ E :
              \/ phase'[jobs[k].op] = phase[jobs[k].op]
              \/ phase'[jobs[k].op] = "cancelling" /\ ~Wants(jobs'[k])
    PROVE  JobInv'
<1> SUFFICES ASSUME NEW j \in DOMAIN jobs'
             PROVE  /\ \/ phase'[jobs'[j].op] = "live"
                       \/ phase'[jobs'[j].op] = "cancelling" /\ ~Wants(jobs'[j])
                       \/ jobs'[j].op \in ManualOps \cap disarmed'
                          /\ phase'[jobs'[j].op] = "gone"
                    /\ AppOf[jobs'[j].win] \notin pending'[jobs'[j].op]
                    /\ jobs'[j].op \in AutoOps =>
                          AppOf[jobs'[j].win] = AppOf[jobs'[j].op]
                    /\ jobs'[j].armFail => jobs'[j].cancelReq
  BY DEF JobInv, Queue, Orphaned
<1>1. j \in Queue \ E /\ Carries(jobs[j], jobs'[j]) /\ jobs[j].op \in Ops
  BY JobIsTyped DEF Keeps, NoneNew, Queue, Job
<1>2. Wants(jobs'[j]) => Wants(jobs[j])
  BY <1>1 DEF Carries, Wants
<1>3. phase[jobs[j].op] # "new"
  BY <1>1 DEF JobInv, Orphaned
<1> QED  BY <1>1, <1>2, <1>3 DEF JobInv, Carries, Orphaned

\* The same with a new job of a live or orphaned operation.
LEMMA JobStepNew ==
    ASSUME JobInv, QInv, NEW E, Keeps(E), disarmed \subseteq disarmed',
           pending' = pending,
           \A k \in Queue \ E : phase'[jobs[k].op] = phase[jobs[k].op],
           NEW o \in Ops, NEW w \in Windows, OneNew(o, w),
           phase'[o] = phase[o], phase[o] = "live" \/ Orphaned(o),
           AppOf[w] \notin pending[o], o \in AutoOps => AppOf[w] = AppOf[o]
    PROVE  JobInv'
<1> SUFFICES ASSUME NEW j \in DOMAIN jobs'
             PROVE  /\ \/ phase'[jobs'[j].op] = "live"
                       \/ phase'[jobs'[j].op] = "cancelling" /\ ~Wants(jobs'[j])
                       \/ jobs'[j].op \in ManualOps \cap disarmed'
                          /\ phase'[jobs'[j].op] = "gone"
                    /\ AppOf[jobs'[j].win] \notin pending'[jobs'[j].op]
                    /\ jobs'[j].op \in AutoOps =>
                          AppOf[jobs'[j].win] = AppOf[jobs'[j].op]
                    /\ jobs'[j].armFail => jobs'[j].cancelReq
  BY DEF JobInv, Queue, Orphaned
<1>1. CASE j = nextJob
  BY <1>1, NewJobIs DEF OneNew, Orphaned
<1>2. CASE j # nextJob
  <2>1. j \in Queue \ E /\ Carries(jobs[j], jobs'[j])
    BY <1>2 DEF Keeps, OneNew, Queue
  <2>2. Wants(jobs'[j]) => Wants(jobs[j])
    BY <2>1 DEF Carries, Wants
  <2> QED  BY <2>1, <2>2 DEF JobInv, Carries, Orphaned
<1> QED  BY <1>1, <1>2

\* Nothing AutoInv speaks of changes but restores that end.
LEMMA SameAuto ==
    ASSUME AutoInv, UNCHANGED <<pending, claims, outcome, disarmed>>,
           \A o \in AutoOps : \/ phase'[o] = phase[o]
                              \/ phase[o] = "cancelling" /\ phase'[o] = "gone"
    PROVE  AutoInv'
BY DEF AutoInv

\* A step that keeps jobs forgets no operation it leaves alone.
LEMMA OpStep ==
    ASSUME OpInv, QInv, Keeps({}), UNCHANGED <<phase, pending>>,
           \A o \in AutoOps : claims[o] \subseteq claims'[o],
           \A w \in Windows : guard[w] = Picker => guard'[w] = Picker,
           claims \in [AutoOps -> SUBSET Windows],
           \A o \in Ops : phase[o] = "live" /\ InHands(o, stack) =>
                \/ InHands(o, stack') \/ JobsOf(o)' # {} \/ pending[o] # {}
                \/ o \in AutoOps /\ \E w \in claims[o] : guard[w] = Picker,
           \A o \in AutoOps : ~AboutToCancel(o),
           \A o \in AutoOps \cap disarmed' :
                o \in disarmed \/ \E j \in JobsOf(o) : jobs'[j].armFail
    PROVE  OpInv'
<1>1. \A o \in Ops : JobsOf(o) \subseteq JobsOf(o)'
  BY DEF Keeps, Carries, JobsOf, Queue
<1>2. \A o \in Ops : \A j \in JobsOf(o) : jobs[j].armFail => jobs'[j].armFail
  BY DEF Keeps, Carries, JobsOf
<1>3. \A o \in Ops : phase'[o] = "cancelling" => JobsOf(o)' # {}
  BY <1>1 DEF OpInv
<1>4. \A o \in Ops : phase'[o] = "live" =>
          \/ pending'[o] # {} \/ JobsOf(o)' # {}
          \/ o \in AutoOps /\ \E w \in claims'[o] : guard'[w] = Picker
          \/ InHands(o, stack')
  BY <1>1 DEF OpInv
<1>5. \A o \in AutoOps \cap disarmed' : phase'[o] = "live" =>
          \E j \in JobsOf(o)' : jobs'[j].armFail
  BY <1>1, <1>2 DEF OpInv, Ops
<1> QED  BY <1>3, <1>4, <1>5 DEF OpInv, InHands


-----------------------------------------------------------------------------
(* Settling a job's operation. *)

Restarts(terminal, armFail) == terminal = "Cancelled" /\ armFail
OwnerCall(o, restarts) == IF restarts THEN Cancel(o) ELSE Finish(o)

\* What settling the operation of an ended job comes to: a live automatic
\* restore is completed or cancelled by a call, any other operation ends with
\* its last job.
Called(o) == o \in AutoOps /\ phase[o] = "live"
SettlesPhase(j, o) ==
    /\ \A p \in Ops : p # o => phase'[p] = phase[p]
    /\ \/ phase'[o] = phase[o]
       \/ phase'[o] = "gone" /\ JobsOf(o) = {j} /\ ~Called(o) /\ phase[o] # "new"
    /\ phase'[o] = "cancelling" => JobsOf(o) # {j}
    /\ phase'[o] = "live" /\ ~Called(o) => JobsOf(o) # {j} \/ pending[o] # {}
SettlesCalls(call, o, rest) ==
    /\ Stack(stack') /\ On(rest) \subseteq On(stack')
    /\ \A f \in On(stack') : \/ f \in On(rest) \/ f.fn = "Release"
                             \/ Called(o) /\ f = call
    /\ \A k \in settling' :
          k \in settling \/ \E f \in On(stack') : f.fn = "Release" /\ f.job = k
    /\ Called(o) => stack' # <<>> /\ Head(stack') = call
Settles(j, restarts, rest) ==
    /\ SettlesPhase(j, jobs[j].op)
    /\ SettlesCalls(OwnerCall(jobs[j].op, restarts), jobs[j].op, rest)

LEMMA SettlesJob ==
    ASSUME QInv, Types, JobInv, NEW j \in Queue, NEW held, NEW terminal,
           NEW armFail \in BOOLEAN, NEW rest, Calm(rest),
           DispatchMoveOwnerResult(held, j, terminal, armFail, rest)
    PROVE  Settles(j, Restarts(terminal, armFail), rest)
<1> DEFINE o == jobs[j].op
           restarts == Restarts(terminal, armFail)
           call == OwnerCall(o, restarts)
           ok == terminal = "Succeeded"
<1>1. o \in Ops /\ j \in JobIds /\ j \in JobsOf(o)
  <2>1. j \in 1..(nextJob - 1) /\ nextJob \in 1..(MaxJobs + 1)
    BY DEF QInv, QueueInv, Typed, Queue
  <2> QED  BY <2>1, JobIsTyped, EngineAssumption DEF Job, JobsOf, JobIds
<1>2. o \in AutoOps /\ phase[o] # "cancelling" => phase[o] = "live"
  BY <1>1, EngineAssumption DEF JobInv, Orphaned
<1>3. phase \in [Ops -> {"new", "live", "cancelling", "gone"}]
  BY DEF Types, OpTypes
<1>4. /\ \A p \in Ops : [phase EXCEPT ![o] = "gone"][p] = IF p = o THEN "gone" ELSE phase[p]
      /\ phase[o] # "new"
  BY <1>1, <1>3 DEF JobInv, Orphaned
<1>5. Stack(rest) /\ \A f \in On(rest) : f \in On(rest)
  BY DEF Calm
<1>6. CASE /\ phase[o] = "cancelling" /\ stack' = rest /\ settling' = settling
           /\ phase' = IF JobsOf(o) = {j} THEN [phase EXCEPT ![o] = "gone"] ELSE phase
  <2>1. SettlesPhase(j, o)
    BY <1>1, <1>3, <1>4, <1>6 DEF SettlesPhase, Called
  <2>2. SettlesCalls(call, o, rest)
    BY <1>5, <1>6 DEF SettlesCalls, Called
  <2> QED  BY <2>1, <2>2 DEF Settles
<1>7. CASE /\ phase[o] # "cancelling" /\ o \in ManualOps
           /\ stack' = rest /\ settling' = settling
           /\ phase' = IF JobsOf(o) = {j} /\ pending[o] = {}
                       THEN [phase EXCEPT ![o] = "gone"] ELSE phase
  <2>1. o \notin AutoOps
    BY <1>7, EngineAssumption
  <2>2. phase[o] \in {"live", "gone"}
    BY <1>3, <1>4, <1>7, <1>1
  <2>3. SettlesPhase(j, o)
    BY <1>1, <1>3, <1>4, <1>7, <2>1, <2>2 DEF SettlesPhase, Called
  <2>4. SettlesCalls(call, o, rest)
    BY <1>5, <1>7, <2>1 DEF SettlesCalls, Called
  <2> QED  BY <2>3, <2>4 DEF Settles
<1>8. CASE /\ phase[o] # "cancelling" /\ o \in AutoOps
           /\ stack' = <<call, Release(j, ok)>> \o rest
           /\ settling' = settling \cup {j} /\ phase' = phase
  <2>1. Release(j, ok) \in Frames /\ Nested(Release(j, ok)) /\ ~Running(Release(j, ok))
        /\ Release(j, ok).fn = "Release" /\ Release(j, ok).job = j
    BY <1>1 DEF Release, Frames, Nested, Running
  <2>2. call \in Frames /\ Nested(call)
    BY <1>1, <1>8 DEF OwnerCall, Cancel, Finish, Frames, Nested
  <2>3. Fits(Release(j, ok), rest)
    BY <2>1 DEF Fits
  <2> DEFINE s == <<call, Release(j, ok)>> \o rest
  <2>4. /\ Stack(s) /\ On(s) = {call, Release(j, ok)} \cup On(rest)
        /\ s # <<>> /\ Head(s) = call
    BY <2>1, <2>2, <2>3, PushTwo
  <2> HIDE DEF s
  <2>5. stack' = s
    BY <1>8 DEF s
  <2>6. Called(o)
    BY <1>2, <1>8 DEF Called
  <2>7. SettlesPhase(j, o)
    BY <1>1, <1>3, <1>8, <2>6 DEF SettlesPhase, Called
  <2>8. SettlesCalls(call, o, rest)
    BY <1>8, <2>1, <2>4, <2>5, <2>6 DEF SettlesCalls
  <2> QED  BY <2>7, <2>8 DEF Settles
<1> QED  BY <1>6, <1>7, <1>8 DEF DispatchMoveOwnerResult, LastJob, Rearms, Restarts, OwnerCall

\* Ending a job forgets no operation.
LEMMA OpEnd ==
    ASSUME OpInv, QInv, AutoInv, JobInv, NEW j \in Queue, NEW restarts, NEW rest,
           Settles(j, restarts, rest), Keeps({j}), pending' = pending,
           \A o \in AutoOps : claims[o] \subseteq claims'[o],
           \A w \in Windows : guard[w] = Picker => guard'[w] = Picker,
           claims \in [AutoOps -> SUBSET Windows],
           \A o \in Ops : phase[o] = "live" /\ InHands(o, stack) => InHands(o, rest),
           \A o \in AutoOps : ~AboutToCancel(o),
           jobs[j].armFail => restarts,
           \A o \in AutoOps \cap disarmed' :
                \/ o \in disarmed
                \/ restarts /\ \E k \in JobsOf(o) : k = j \/ jobs'[k].armFail
    PROVE  OpInv'
<1> DEFINE p == jobs[j].op
           call == OwnerCall(p, restarts)
<1>1. \A o \in Ops : JobsOf(o) \ {j} \subseteq JobsOf(o)' /\ (o # p => j \notin JobsOf(o))
  BY DEF Keeps, Carries, JobsOf, Queue
<1>2. \A o \in Ops : \A k \in JobsOf(o) \ {j} : jobs[k].armFail => jobs'[k].armFail
  BY DEF Keeps, Carries, JobsOf
<1>3. p \in Ops /\ j \in JobsOf(p)
  BY JobIsTyped DEF Job, JobsOf
<1>4. \A o \in Ops : phase'[o] = "cancelling" => JobsOf(o)' # {}
  BY <1>1, <1>3 DEF OpInv, Settles, SettlesPhase
<1>5. On(rest) \subseteq On(stack') /\ \A o \in Ops : InHands(o, rest) => InHands(o, stack')
  BY DEF InHands, Settles, SettlesCalls
<1>6. Called(p) => InHands(p, stack') /\ Head(stack') = call
  <2>1. ASSUME Called(p)
        PROVE  call \in On(stack') /\ Head(stack') = call
    <3>1. stack' # <<>> /\ Head(stack') = call /\ Stack(stack')
      BY <2>1 DEF Settles, SettlesCalls
    <3> QED  BY <3>1, PopStack
  <2> QED  BY <2>1 DEF InHands, OwnerCall
<1>7. \A o \in Ops : phase'[o] = "live" =>
          \/ pending'[o] # {} \/ JobsOf(o)' # {}
          \/ o \in AutoOps /\ \E w \in claims'[o] : guard'[w] = Picker
          \/ InHands(o, stack')
  <2> SUFFICES ASSUME NEW o \in Ops, phase'[o] = "live"
               PROVE  \/ pending'[o] # {} \/ JobsOf(o)' # {}
                      \/ o \in AutoOps /\ \E w \in claims'[o] : guard'[w] = Picker
                      \/ InHands(o, stack')
    OBVIOUS
  <2>1. CASE o = p
    BY <1>1, <1>3, <1>6, <2>1 DEF Settles, SettlesPhase, SettlesPhase
  <2>2. CASE o # p
    <3>1. phase[o] = "live"
      BY <2>2 DEF Settles, SettlesPhase
    <3>2. JobsOf(o) \subseteq JobsOf(o)'
      BY <1>1, <2>2
    <3> QED  BY <1>5, <3>1, <3>2 DEF OpInv
  <2> QED  BY <2>1, <2>2
<1>8. \A o \in AutoOps \cap disarmed' : phase'[o] = "live" =>
          \/ \E k \in JobsOf(o)' : jobs'[k].armFail
          \/ AboutToCancel(o)'
  <2> SUFFICES ASSUME NEW o \in AutoOps, o \in disarmed', phase'[o] = "live"
               PROVE  \/ \E k \in JobsOf(o)' : jobs'[k].armFail
                      \/ AboutToCancel(o)'
    OBVIOUS
  <2>1. o \in Ops /\ phase[o] = "live"
    BY DEF Ops, Settles, SettlesPhase
  <2>2. CASE \E k \in JobsOf(o) : k # j /\ jobs'[k].armFail
    BY <1>1, <2>1, <2>2
  <2>3. CASE restarts /\ j \in JobsOf(o)
    <3>1. o = p
      BY <1>1, <2>1, <2>3
    <3> QED  BY <1>6, <2>1, <2>3, <3>1 DEF AboutToCancel, OwnerCall, Settles, SettlesCalls, Called
  <2>4. o \in disarmed => \E k \in JobsOf(o) : jobs[k].armFail
    BY <2>1 DEF OpInv
  <2> QED  BY <1>2, <2>1, <2>2, <2>3, <2>4
<1> QED  BY <1>4, <1>7, <1>8 DEF OpInv, InHands

-----------------------------------------------------------------------------
(* Publishing a cancellation and trying it again. *)

LEMMA RetrySame ==
    ASSUME RetryInv, UNCHANGED wakeVars, NoneAsked,
           \A f \in On(stack) : f.fn \in {"ArmTail", "RetryDone"} => f \in On(stack')
    PROVE  RetryInv'
BY DEF RetryInv, NoneAsked, Retrying, wakeVars, Queue

\* Only published: there was another cancellation before, or somebody else
\* tries it again.
LEMMA RetryRefresh ==
    ASSUME RetryInv, Types, RefreshMoveCancellationPending, UNCHANGED <<timer, msgs>>,
           \A f \in On(stack) : f.fn \in {"ArmTail", "RetryDone"} => f \in On(stack'),
           NoneAsked \/ timer \/ Retrying(stack')
    PROVE  RetryInv'
<1>1. \A k \in DOMAIN jobs' : jobs'[k].cancelReq => cancelPending'
  BY DEF RefreshMoveCancellationPending, AnyCancelRequested
<1>2. (\E k \in DOMAIN jobs' : jobs'[k].cancelReq) => retry' = retry
  BY <1>1 DEF RefreshMoveCancellationPending
<1>3. retry'.posted => retry.posted
  BY DEF RefreshMoveCancellationPending, ClearRetry
<1>4. Retrying(stack) => Retrying(stack')
  BY DEF Retrying
<1>5. ~timer' /\ (\E k \in DOMAIN jobs' : jobs'[k].cancelReq) =>
          \/ msgs' > 0 \/ MaxPosts = 0 \/ "post" \in Faults
          \/ retry'.noProgress >= MaxNoProgress
          \/ Retrying(stack')
  BY <1>2, <1>4 DEF RetryInv, NoneAsked
<1>6. retry'.posted => msgs' > 0 \/ \E f \in On(stack') : f.fn = "RetryDone"
  BY <1>3 DEF RetryInv
<1> QED  BY <1>1, <1>5, <1>6 DEF RetryInv, Queue, Retrying

\* A retry is scheduled: the timer is set, or a message is posted, or one is
\* under way, or there is no use in it.
LEMMA RetryPosted ==
    ASSUME Types, NEW state \in [posted : BOOLEAN, noProgress : 0..MaxNoProgress],
           PostRetry(state), NEW s,
           state.posted => msgs > 0 \/ \E f \in On(s) : f.fn = "RetryDone"
    PROVE  /\ \/ msgs' > 0 \/ MaxPosts = 0 \/ "post" \in Faults
              \/ retry'.noProgress >= MaxNoProgress
              \/ Retrying(s)
           /\ retry'.posted => msgs' > 0 \/ \E f \in On(s) : f.fn = "RetryDone"
<1>1. msgs \in Nat /\ MaxPosts \in Nat
  BY EngineAssumption DEF Types, WakeTypes
<1>2. CASE ~state.posted /\ state.noProgress < MaxNoProgress /\ msgs' = msgs + 1
  BY <1>1, <1>2
<1>3. CASE /\ retry' = state /\ UNCHANGED msgs
           /\ \/ state.posted \/ ~(state.noProgress < MaxNoProgress)
              \/ msgs >= MaxPosts \/ "post" \in Faults
  <2>1. state.noProgress \in Nat /\ MaxNoProgress \in Nat
    BY EngineAssumption
  <2> QED  BY <1>1, <1>3, <2>1 DEF Retrying
<1> QED  BY <1>2, <1>3 DEF PostRetry

LEMMA RetrySchedule ==
    ASSUME RetryInv, Types, RefreshAndScheduleRetry, NEW s, s = stack',
           \A f \in On(stack) : f.fn = "RetryDone" => f \in On(s)
    PROVE  RetryInv'
<1>1. \A k \in DOMAIN jobs' : jobs'[k].cancelReq => cancelPending'
  BY DEF RefreshAndScheduleRetry, AnyCancelRequested
<1>2. retry \in [posted : BOOLEAN, noProgress : 0..MaxNoProgress]
  BY DEF Types, WakeTypes
<1>3. retry.posted => msgs > 0 \/ \E f \in On(s) : f.fn = "RetryDone"
  BY DEF RetryInv
<1>4. CASE retry' = ClearRetry /\ (~cancelPending' \/ timer' = TRUE)
  BY <1>1, <1>4 DEF RetryInv, Queue, ClearRetry
<1>5. CASE PostRetry(retry)
  BY <1>1, <1>2, <1>3, <1>5, RetryPosted DEF RetryInv, Queue, Retrying
<1> QED  BY <1>4, <1>5 DEF RefreshAndScheduleRetry


-----------------------------------------------------------------------------
(* Calls that wait below the one that was made, and jobs that sleep. *)

\* What a call below the running one relies on.
LEMMA RestRelies ==
    ASSUME NEW f \in Frames, ~Running(f), Relies(f),
           disarmed \subseteq disarmed',
           \A o \in AutoOps : pending[o] = {} /\ phase[o] # "new" =>
                                pending'[o] = {} /\ phase'[o] # "new",
           f.fn = "ManualLoop" =>
              /\ timer => timer'
              /\ pending'[f.op] \subseteq pending[f.op]
              /\ JobsOf(f.op)' \subseteq JobsOf(f.op)
              /\ \A j \in JobsOf(f.op)' : jobs'[j].win = jobs[j].win
              /\ \/ phase'[f.op] = phase[f.op]
                 \/ phase'[f.op] = "gone" /\ f.op \in disarmed' /\ timer'
    PROVE  Relies(f)'
<1>1. f.fn \notin {"AutoLoop", "Rearm", "StartManual"}
  BY DEF Running
<1>2. CASE f.fn = "Finish"
  BY <1>2 DEF Relies
<1>3. CASE f.fn = "ManualLoop"
  <2>1. f.op \in ManualOps
    BY <1>3 DEF Frames
  <2>2. \/ phase'[f.op] = "live"
        \/ f.op \in ManualOps \cap disarmed' /\ phase'[f.op] = "gone" /\ timer'
    BY <1>3, <2>1 DEF Relies, Orphaned
  <2>3. \A w \in f.todo : AppOf[w] \notin pending'[f.op]
    BY <1>3 DEF Relies
  <2>4. \A j \in JobsOf(f.op)' : jobs'[j].win \notin f.todo
    BY <1>3 DEF Relies
  <2> QED  BY <1>1, <1>3, <2>2, <2>3, <2>4 DEF Relies, Orphaned
<1> QED  BY <1>1, <1>2, <1>3 DEF Relies

\* A sleeping job stays asleep.
LEMMA SleepStep ==
    ASSUME SleepInv, QInv, NEW E, Keeps(E), timer => timer',
           \A k \in Queue \ E :
              phase[jobs[k].op] # "live" => phase'[jobs[k].op] # "live",
           \A k \in Queue \ E : \A o \in Ops :
              jobs[k].op = o /\ ~timer' /\ Staging(o) /\ ~jobs[k].awaiting =>
                  \/ ~jobs'[k].awaiting /\ Staging(o)'
                  \/ jobs'[k].cancelReq /\ (jobs'[k].armFail \/ phase'[o] # "live"),
           \A k \in DOMAIN jobs' \ Queue : \E o \in Ops :
              jobs'[k].op = o /\ ~jobs'[k].awaiting /\ Staging(o)'
    PROVE  SleepInv'
<1> SUFFICES ASSUME ~timer', NEW k \in DOMAIN jobs'
             PROVE  Asleep(jobs[k])'
  BY DEF SleepInv, Queue
<1>1. ASSUME NEW o \in Ops, jobs'[k].op = o,
             \/ jobs'[k].cancelReq /\ (jobs'[k].armFail \/ phase'[o] # "live")
             \/ ~jobs'[k].awaiting /\ Staging(o)'
      PROVE  Asleep(jobs[k])'
  BY <1>1 DEF Asleep, Staging, AboutToCancel
<1>2. CASE k \notin Queue
  BY <1>1, <1>2
<1>3. CASE k \in Queue
  <2>1. k \in Queue \ E /\ Carries(jobs[k], jobs'[k]) /\ Asleep(jobs[k])
    BY <1>3 DEF Keeps, SleepInv
  <2>2. PICK o \in Ops : o = jobs[k].op /\ o = jobs'[k].op
    BY <2>1, JobIsTyped DEF Carries, Job
  <2>3. \/ jobs[k].cancelReq /\ (jobs[k].armFail \/ phase[o] # "live")
        \/ ~jobs[k].awaiting /\ Staging(o)
    BY <2>1, <2>2 DEF Asleep
  <2>4. \/ jobs'[k].cancelReq /\ (jobs'[k].armFail \/ phase'[o] # "live")
        \/ ~jobs'[k].awaiting /\ Staging(o)'
    BY <2>1, <2>2, <2>3 DEF Carries
  <2> QED  BY <1>1, <2>2, <2>4
<1> QED  BY <1>2, <1>3

-----------------------------------------------------------------------------
(* A look at the front of the queue. *)

\* The job it looks at is marked, or it ends.
Looks(j, r, after) ==
    /\ Carries(jobs[j], r) /\ r.armFail = jobs[j].armFail
    /\ \/ MarkOnly(Update(j, r), after)
       \/ \E terminal : /\ DispatchMoveResult(Update(j, r), j, terminal, after)
                        /\ jobs[j].armFail => terminal = "Cancelled"
    /\ UNCHANGED <<timer, msgs>>
    /\ \/ RefreshMoveCancellationPending
       \/ UNCHANGED wakeVars /\ (r.cancelReq => jobs[j].cancelReq)
AfterLook == {Rest, <<Drain>> \o Rest}

LEMMA TryLooks ==
    ASSUME NEW j, NEW r, NEW after \in AfterLook, NEW otherwise \in AfterLook,
           Carries(jobs[j], r), r.armFail = jobs[j].armFail,
           TryCancel(Update(j, r), j, after, otherwise), UNCHANGED <<timer, msgs>>,
           \/ RefreshMoveCancellationPending
           \/ UNCHANGED wakeVars /\ (r.cancelReq => jobs[j].cancelReq)
    PROVE  \E a \in AfterLook : Looks(j, r, a)
BY DEF Looks, TryCancel

LEMMA JobCarries ==
    ASSUME QInv, JobInv, NEW j \in Queue
    PROVE  Carries(jobs[j], jobs[j]) /\ Update(j, jobs[j]) = jobs
<1>1. jobs[j] \in Job /\ jobs \in [Queue -> Job]
  BY JobIsTyped DEF QInv, QueueInv, Typed, Queue
<1> QED  BY <1>1 DEF Carries, JobInv, Update

LEMMA IndeterminateLooks ==
    ASSUME QInv, JobInv, NEW j \in Queue, HandleIndeterminateMoveIdentity(j)
    PROVE  \E r : \E a \in AfterLook : Looks(j, r, a)
<1> DEFINE count == IF jobs[j].indet < MaxIndeterminate
                    THEN jobs[j].indet + 1 ELSE jobs[j].indet
           counted == [jobs[j] EXCEPT !.indet = count]
           given == [counted EXCEPT !.cancelReq = TRUE]
<1>1. jobs[j] \in Job /\ count \in 0..MaxIndeterminate
  BY JobIsTyped, EngineAssumption DEF Job
<1>2. Carries(jobs[j], counted) /\ counted.armFail = jobs[j].armFail
      /\ counted.cancelReq = jobs[j].cancelReq
  BY <1>1 DEF Carries, JobInv, Job
<1>3. Carries(jobs[j], given) /\ given.armFail = jobs[j].armFail
  BY <1>1 DEF Carries, JobInv, Job
<1>4. Rest \in AfterLook
  BY DEF AfterLook
<1>5. CASE MarkOnly(Update(j, counted), Rest) /\ UNCHANGED wakeVars
  BY <1>2, <1>4, <1>5 DEF Looks, wakeVars
<1>6. CASE /\ TryCancel(Update(j, given), j, Rest, Rest)
           /\ RefreshMoveCancellationPending /\ UNCHANGED <<timer, msgs>>
  BY <1>3, <1>4, <1>6, TryLooks
<1> QED  BY <1>5, <1>6 DEF HandleIndeterminateMoveIdentity

\* A job marked when the timer could not be set only ever ends as cancelled.
LEMMA FrontLooks ==
    ASSUME QInv, JobInv, NEW j \in Queue, CancelFront(j) \/ IssueFront(j) \/ VerifyFront(j)
    PROVE  \E r : \E a \in AfterLook : Looks(j, r, a)
<1> DEFINE after == <<Drain>> \o Rest
<1>1. Rest \in AfterLook /\ after \in AfterLook
  BY DEF AfterLook
<1>2. Carries(jobs[j], jobs[j]) /\ Update(j, jobs[j]) = jobs /\ jobs[j] \in Job
  BY JobCarries, JobIsTyped
<1>3. CASE CancelFront(j)
  BY <1>1, <1>2, <1>3, TryLooks DEF CancelFront
<1>4. ~MustCancel(j) /\ ~jobs[j].waiting => ~jobs[j].armFail
  BY DEF MustCancel, JobInv
<1>5. ~MustCancel(j) /\ ~jobs[j].retire => ~jobs[j].armFail
  BY DEF MustCancel, JobInv
<1>6. ASSUME NEW terminal, DispatchMoveResult(jobs, j, terminal, after),
             UNCHANGED wakeVars, ~jobs[j].armFail
      PROVE  \E r : \E a \in AfterLook : Looks(j, r, a)
  BY <1>1, <1>2, <1>6 DEF Looks, wakeVars
<1>7. ASSUME TryCancel(jobs, j, after, after), UNCHANGED wakeVars
      PROVE  \E r : \E a \in AfterLook : Looks(j, r, a)
  BY <1>1, <1>2, <1>7, TryLooks DEF wakeVars
<1>8. CASE ~MustCancel(j) /\ ~jobs[j].waiting /\ IssueMove(j)
  <2> DEFINE issued == [jobs[j] EXCEPT !.attempts = @ + 1, !.waiting = TRUE,
                                       !.awaiting = TRUE, !.indet = 0]
  <2>1. jobs[j].attempts + 1 \in 0..MaxAttempts /\ 0 \in 0..MaxIndeterminate
    BY <1>2, <1>8, JobIsTyped, EngineAssumption DEF Job
  <2>2. Carries(jobs[j], issued) /\ issued.armFail = jobs[j].armFail
        /\ issued.cancelReq = jobs[j].cancelReq
    BY <1>2, <2>1 DEF Carries, JobInv, Job
  <2>3. CASE MarkOnly(Update(j, issued), after) /\ UNCHANGED wakeVars
    BY <1>1, <2>2, <2>3 DEF Looks, wakeVars
  <2> QED  BY <1>4, <1>6, <1>7, <1>8, <2>3, IndeterminateLooks DEF IssueMove
<1>9. CASE IssueFront(j)
  BY <1>4, <1>6, <1>7, <1>8, <1>9, IndeterminateLooks DEF IssueFront
<1>10. ASSUME NEW read, RetireIssued(j, read), UNCHANGED wakeVars
       PROVE  \E r : \E a \in AfterLook : Looks(j, r, a)
  <2> DEFINE seen == IF read.identity = "Match"
                     THEN [jobs[j] EXCEPT !.indet = 0] ELSE jobs[j]
             arrived == [seen EXCEPT !.awaiting = FALSE]
             count == IF jobs[j].unresolved < MaxUnresolved
                      THEN jobs[j].unresolved + 1 ELSE jobs[j].unresolved
             counted == [seen EXCEPT !.unresolved = count]
  <2>1. count \in 0..MaxUnresolved /\ 0 \in 0..MaxIndeterminate
    BY <1>2, EngineAssumption DEF Job
  <2>2. /\ seen \in Job /\ seen.op = jobs[j].op /\ seen.win = jobs[j].win
        /\ seen.retire = jobs[j].retire /\ seen.armFail = jobs[j].armFail
        /\ seen.cancelReq = jobs[j].cancelReq
    BY <1>2, <2>1 DEF Job
  <2>3. Carries(jobs[j], seen)
    BY <2>2 DEF Carries, JobInv
  <2>4. Carries(jobs[j], arrived) /\ arrived.armFail = jobs[j].armFail
        /\ arrived.cancelReq = jobs[j].cancelReq
    BY <2>2 DEF Carries, JobInv, Job
  <2>5. Carries(jobs[j], counted) /\ counted.armFail = jobs[j].armFail
        /\ counted.cancelReq = jobs[j].cancelReq
    BY <2>1, <2>2 DEF Carries, JobInv, Job
  <2>6. UNCHANGED <<timer, msgs>>
    BY <1>10 DEF wakeVars
  <2> HIDE DEF seen, arrived, counted
  <2>7. CASE TryCancel(Update(j, arrived), j, after, Rest)
    BY <1>1, <1>10, <2>4, <2>6, <2>7, TryLooks
  <2>8. CASE TryCancel(Update(j, seen), j, after, Rest)
    BY <1>1, <1>10, <2>2, <2>3, <2>6, <2>8, TryLooks
  <2>9. CASE TryCancel(Update(j, counted), j, after, Rest)
    BY <1>1, <1>10, <2>5, <2>6, <2>9, TryLooks
  <2>10. CASE MarkOnly(Update(j, counted), Rest)
    BY <1>1, <1>10, <2>5, <2>6, <2>10 DEF Looks
  <2> QED  BY <1>10, <2>7, <2>8, <2>9, <2>10
           DEF RetireIssued, seen, arrived, counted
<1>11. ASSUME NEW read, VerifyIssued(j, read), UNCHANGED wakeVars, ~jobs[j].armFail
       PROVE  \E r : \E a \in AfterLook : Looks(j, r, a)
  <2> DEFINE indet == IF read.identity = "Match" THEN 0 ELSE jobs[j].indet
             seen == [jobs[j] EXCEPT !.awaiting = FALSE,
                                     !.indet = IF read.identity = "Match" THEN 0 ELSE @]
             again == [seen EXCEPT !.waiting = FALSE]
  <2>1. indet \in 0..MaxIndeterminate
    BY <1>2, EngineAssumption DEF Job
  <2>2. /\ seen \in Job /\ seen.op = jobs[j].op /\ seen.win = jobs[j].win
        /\ seen.retire = jobs[j].retire /\ seen.armFail = jobs[j].armFail
        /\ seen.cancelReq = jobs[j].cancelReq
    BY <1>2, <2>1 DEF Job
  <2>3. Carries(jobs[j], seen)
    BY <2>2 DEF Carries, JobInv
  <2>4. Carries(jobs[j], again) /\ again.armFail = jobs[j].armFail
        /\ again.cancelReq = jobs[j].cancelReq
    BY <2>2 DEF Carries, JobInv, Job
  <2>5. UNCHANGED <<timer, msgs>>
    BY <1>11 DEF wakeVars
  <2> HIDE DEF seen, again
  <2>6. CASE TryCancel(Update(j, seen), j, after, after)
    BY <1>1, <1>11, <2>2, <2>3, <2>5, <2>6, TryLooks
  <2>7. ASSUME NEW terminal, DispatchMoveResult(Update(j, seen), j, terminal, after)
        PROVE  \E r : \E a \in AfterLook : Looks(j, r, a)
    BY <1>1, <1>11, <2>2, <2>3, <2>5, <2>7 DEF Looks
  <2>8. CASE MarkOnly(Update(j, again), after)
    BY <1>1, <1>11, <2>4, <2>5, <2>8 DEF Looks
  <2> QED  BY <1>11, <2>6, <2>7, <2>8 DEF VerifyIssued, seen, again
<1>12. CASE VerifyFront(j)
  BY <1>5, <1>10, <1>11, <1>12, IndeterminateLooks DEF VerifyFront
<1> QED  BY <1>3, <1>9, <1>12


\* Everything but the queue and the types, which have their own lemmas.
Rules == JobInv /\ AutoInv /\ OpInv /\ CallInv /\ SleepInv /\ RetryInv

\* A job is written back, or taken out of a table that differs in it only.
LEMMA UpdateCarries ==
    ASSUME QInv, JobInv, NEW j \in Queue, NEW r, Carries(jobs[j], r)
    PROVE  /\ jobs' = Update(j, r) => Keeps({}) /\ DOMAIN jobs' = Queue /\ jobs'[j] = r
                                        /\ \A k \in Queue : k # j => jobs'[k] = jobs[k]
           /\ jobs' = [k \in Queue \ {j} |-> Update(j, r)[k]] =>
                  /\ Keeps({j}) /\ DOMAIN jobs' = Queue \ {j}
                  /\ \A k \in Queue \ {j} : jobs'[k] = jobs[k]
<1>1. jobs \in [Queue -> Job] /\ \A k \in Queue : Carries(jobs[k], jobs[k])
  BY JobCarries DEF QInv, QueueInv, Typed, Queue
<1>2. /\ DOMAIN Update(j, r) = Queue /\ Update(j, r)[j] = r
      /\ \A k \in Queue : k # j => Update(j, r)[k] = jobs[k]
  BY <1>1 DEF Update
<1> QED  BY <1>1, <1>2 DEF Keeps

\* A restore that still owns a job waits for no result.
LEMMA OwnerWaits ==
    ASSUME QInv, JobInv, AutoInv, NEW j \in Queue, jobs[j].op \in AutoOps
    PROVE  pending[jobs[j].op] = {} /\ phase[jobs[j].op] \in {"live", "cancelling"}
BY EngineAssumption DEF JobInv, AutoInv, Orphaned

LEMMA LookKeeps ==
    ASSUME Inv, NEW j \in Queue, NEW r, NEW after \in AfterLook, Calling(Advance),
           Looks(j, r, after), UNCHANGED disarmed
    PROVE  Stack(stack') /\ Rules'
<1> DEFINE o == jobs[j].op
<1>1. /\ stack # <<>> /\ Head(stack) = Advance
      /\ Calm(Rest) /\ On(stack) = {Advance} \cup On(Rest)
      /\ \A g \in On(Rest) : g.fn = "RetryDone"
  <2>1. stack # <<>> /\ Head(stack) = Advance /\ Stack(stack) /\ Advance.fn = "Advance"
    BY DEF Inv, Facts, Calling, Advance
  <2> QED  BY <2>1, PopStack DEF Rest
<1>2. /\ Calm(after) /\ On(Rest) \subseteq On(after)
      /\ \A g \in On(after) : g.fn \in {"RetryDone", "Drain"}
  <2>1. CASE after = Rest
    BY <1>1, <2>1
  <2>2. CASE after = <<Drain>> \o Rest
    <3>1. Fits(Drain, Rest) /\ ~Running(Drain) /\ Drain.fn = "Drain"
      BY <1>1 DEF Fits, Drain, Frames, Running
    <3> QED  BY <1>1, <2>2, <3>1, PushStack
  <2> QED  BY <2>1, <2>2 DEF AfterLook
<1>3. \A p \in Ops : ~InHands(p, stack) /\ ~Staging(p) /\ ~AboutToCancel(p)
  BY <1>1 DEF InHands, Staging, AboutToCancel, Advance, Finish, Cancel
<1>4. settling = {}
  BY <1>1 DEF Inv, CallInv, Advance
<1>5. timer' = timer /\ msgs' = msgs
  BY DEF Looks
<1>6. ASSUME On(after) \subseteq On(stack')
      PROVE  \A f \in On(stack) : f.fn \in {"ArmTail", "RetryDone"} => f \in On(stack')
  BY <1>1, <1>2, <1>6 DEF Advance
<1>7. ~timer => \E f \in On(Rest) : f.fn = "RetryDone"
  BY <1>1 DEF Inv, CallInv, Advance
<1>8. o \in Ops /\ claims \in [AutoOps -> SUBSET Windows]
  BY JobIsTyped DEF Job, Inv, Facts, Types, OpTypes
<1>9. CASE MarkOnly(Update(j, r), after)
  <2>1. /\ Keeps({}) /\ NoneNew /\ stack' = after
        /\ UNCHANGED <<nextJob, guard, settling, phase, pending, claims, outcome, lost>>
    BY <1>9, UpdateCarries DEF Looks, MarkOnly, opVars, NoneNew, Inv, Facts
  <2>2. JobInv'
    BY <2>1, JobStep DEF Inv, Facts
  <2>3. AutoInv'
    BY <2>1, SameAuto DEF Inv
  <2>4. OpInv'
    BY <1>3, <1>8, <2>1, OpStep DEF Inv, Facts, Ops
  <2>5. CallInv'
    <3>1. \A f \in On(stack') : f.fn \in {"RetryDone", "Drain"}
      BY <1>2, <2>1
    <3> QED  BY <1>4, <2>1, <3>1 DEF CallInv, Relies
  <2>6. SleepInv'
    BY <1>3, <1>5, <2>1, SleepStep DEF Inv, Facts, NoneNew
  <2>7. RetryInv'
    <3>1. CASE RefreshMoveCancellationPending
      BY <1>5, <1>6, <1>7, <1>2, <2>1, <3>1, RetryRefresh DEF Inv, Facts, Retrying
    <3>2. CASE UNCHANGED wakeVars /\ (r.cancelReq => jobs[j].cancelReq)
      <4>1. NoneAsked
        <5>1. jobs' = Update(j, r) /\ Carries(jobs[j], r)
          BY <1>9 DEF MarkOnly, Looks
        <5>2. DOMAIN jobs' = Queue /\ jobs'[j] = r
              /\ \A k \in Queue : k # j => jobs'[k] = jobs[k]
          BY <5>1, UpdateCarries DEF Inv, Facts
        <5> QED  BY <3>2, <5>2 DEF NoneAsked
      <4> QED  BY <1>6, <2>1, <3>2, <4>1, RetrySame DEF Inv
    <3> QED  BY <3>1, <3>2 DEF Looks
  <2> QED  BY <1>2, <2>1, <2>2, <2>3, <2>4, <2>5, <2>6, <2>7 DEF Rules, Calm
<1>10. ASSUME NEW terminal, DispatchMoveResult(Update(j, r), j, terminal, after),
              jobs[j].armFail => terminal = "Cancelled"
       PROVE  Stack(stack') /\ Rules'
  <2> DEFINE restarts == Restarts(terminal, r.armFail)
             call == OwnerCall(o, restarts)
  <2>1. /\ Keeps({j}) /\ NoneNew /\ DOMAIN jobs' = Queue \ {j}
        /\ \A k \in Queue \ {j} : jobs'[k] = jobs[k]
        /\ Update(j, r)[j] = r /\ r.armFail = jobs[j].armFail /\ r.armFail \in BOOLEAN
        /\ UNCHANGED <<nextJob, pending, claims, outcome, lost>>
    <3>1. Update(j, r)[j] = r
      BY DEF Update, Inv, Facts, QInv, QueueInv, Typed, Queue
    <3>2. r.armFail \in BOOLEAN
      BY DEF Looks, Carries, Job
    <3> QED  BY <1>10, <3>1, <3>2, UpdateCarries DEF Looks, DispatchMoveResult, NoneNew, Inv, Facts
  <2>2. DispatchMoveOwnerResult(guard, j, terminal, r.armFail, after)
    BY <1>10, <2>1 DEF DispatchMoveResult
  <2>3. Settles(j, restarts, after)
    BY <1>2, <2>1, <2>2, SettlesJob DEF Inv, Facts
  <2>4. SettlesPhase(j, o) /\ SettlesCalls(call, o, after)
    BY <2>3 DEF Settles
  <2>5. \A w \in Windows : guard[w] = Picker => guard'[w] = Picker
    <3>1. j # Picker /\ guard \in [Windows -> {NoGuard, Picker} \cup JobIds]
      BY EngineAssumption DEF Inv, Facts, QInv, QueueInv, Typed, Queue
    <3> QED  BY <2>2, <3>1, OwnerReleases DEF ReleasesOrSettles, Released
  <2>6. \A k \in Queue \ {j} : phase'[jobs[k].op] = phase[jobs[k].op]
    <3> SUFFICES ASSUME NEW k \in Queue \ {j}
                 PROVE  phase'[jobs[k].op] = phase[jobs[k].op]
      OBVIOUS
    <3>1. jobs[k].op \in Ops /\ k \in JobsOf(jobs[k].op)
      BY JobIsTyped DEF Job, JobsOf, Inv, Facts
    <3> QED  BY <2>4, <3>1 DEF SettlesPhase
  <2>7. JobInv'
    BY <2>1, <2>6, JobStep DEF Inv, Facts
  <2>8. AutoInv'
    <3>1. \A p \in AutoOps : \/ phase'[p] = phase[p]
                             \/ phase[p] = "cancelling" /\ phase'[p] = "gone"
      <4> SUFFICES ASSUME NEW p \in AutoOps, phase'[p] # phase[p]
                   PROVE  phase[p] = "cancelling" /\ phase'[p] = "gone"
        OBVIOUS
      <4>1. p = o /\ phase'[o] = "gone" /\ ~Called(o)
        BY <2>4 DEF SettlesPhase, Ops
      <4>2. phase[o] \in {"live", "cancelling"}
        BY <4>1, OwnerWaits DEF Inv, Facts
      <4> QED  BY <4>1, <4>2 DEF Called
    <3> QED  BY <2>1, <3>1, SameAuto DEF Inv
  <2>9. OpInv'
    <3>1. jobs[j].armFail => restarts
      BY <1>10, <2>1 DEF Restarts
    <3> QED  BY <1>3, <1>8, <2>1, <2>3, <2>5, <3>1, OpEnd DEF Inv, Facts, Ops
  <2>10. CallInv'
    <3>1. \A f \in On(stack') : \/ f.fn \in {"RetryDone", "Drain", "Release"}
                                \/ Called(o) /\ f = call
      BY <1>2, <2>4 DEF SettlesCalls
    <3>2. Called(o) => pending'[o] = {} /\ phase'[o] # "new"
      BY <2>1, <2>4, OwnerWaits DEF Called, SettlesPhase, Inv, Facts
    <3>3. call.op = o /\ call.fn \in {"Cancel", "Finish"}
      BY DEF OwnerCall, Cancel, Finish
    <3>4. \A f \in On(stack') : Relies(f)'
      BY <3>1, <3>2, <3>3 DEF Relies
    <3>5. \A k \in settling' : \E f \in On(stack') : f.fn = "Release" /\ f.job = k
      BY <1>4, <2>4 DEF SettlesCalls
    <3> QED  BY <3>1, <3>3, <3>4, <3>5 DEF CallInv
  <2>11. SleepInv'
    BY <1>3, <1>5, <2>1, <2>6, SleepStep DEF Inv, Facts, NoneNew
  <2>12. RetryInv'
    <3>1. NoneAsked
      BY <2>1 DEF NoneAsked
    <3>2. On(after) \subseteq On(stack')
      BY <2>4 DEF SettlesCalls
    <3>3. CASE RefreshMoveCancellationPending
      BY <1>5, <1>6, <3>1, <3>2, <3>3, RetryRefresh DEF Inv, Facts
    <3>4. CASE UNCHANGED wakeVars
      BY <1>6, <3>1, <3>2, <3>4, RetrySame DEF Inv
    <3> QED  BY <3>3, <3>4 DEF Looks
  <2> QED  BY <2>4, <2>7, <2>8, <2>9, <2>10, <2>11, <2>12 DEF Rules, SettlesCalls
<1> QED  BY <1>9, <1>10 DEF Looks


-----------------------------------------------------------------------------
(* Calls that only look at what the queue and the operations are. *)

\* A call has been made that leaves the jobs and the operations as they are,
\* and that nothing was in the hands of.
LEMMA PopKeeps ==
    ASSUME Inv, stack # <<>>, stack' = Rest,
           UNCHANGED <<jobs, phase, pending, claims, outcome, disarmed>>,
           settling' \subseteq settling,
           \A k \in settling' : ~(Head(stack).fn = "Release" /\ Head(stack).job = k),
           \A w \in Windows : guard[w] = Picker => guard'[w] = Picker,
           \/ timer => timer'
           \/ Queue = {} /\ ~Nested(Head(stack)),
           Head(stack).fn \notin {"AutoLoop", "Rearm", "ManualLoop", "Cancel"},
           Head(stack).fn = "Arm" => timer' \/ Queue = {},
           \A o \in Ops : Head(stack) = Finish(o) /\ phase[o] = "live" =>
              \/ pending[o] # {} \/ JobsOf(o) # {}
              \/ o \in AutoOps /\ \E w \in claims[o] : guard[w] = Picker
    PROVE  /\ Stack(stack') /\ JobInv' /\ AutoInv' /\ OpInv' /\ CallInv' /\ SleepInv'
           /\ NoneAsked
<1> DEFINE h == Head(stack)
<1>1. /\ Calm(Rest) /\ On(stack) = {h} \cup On(Rest) /\ h \in Frames
      /\ Nested(h) \/ \A g \in On(Rest) : g.fn # "ManualLoop"
      /\ \A g \in On(Rest) : g \in Frames /\ ~Running(g)
  <2>1. \A g \in On(Rest) : g \in Frames
    BY PopStack DEF Inv, Facts, Rest, Calm, Stack, On
  <2> QED  BY <2>1, PopStack DEF Inv, Facts, Rest, Calm
<1>2. Keeps({}) /\ NoneNew /\ NoneAsked
  BY JobCarries DEF Keeps, NoneNew, NoneAsked, Queue, Inv, Facts
<1>3. \A o \in Ops : JobsOf(o)' = JobsOf(o)
  BY DEF JobsOf, Queue
<1>4. Head(stack).fn # "Cancel" => \A o \in Ops : ~AboutToCancel(o)
  BY DEF AboutToCancel, Cancel
<1>5. JobInv'
  BY <1>2, JobStep DEF Inv, Facts
<1>6. AutoInv'
  BY SameAuto DEF Inv
<1>7. OpInv'
  <2>1. \A o \in Ops : phase[o] = "live" /\ InHands(o, stack) =>
            \/ InHands(o, stack') \/ JobsOf(o)' # {} \/ pending[o] # {}
            \/ o \in AutoOps /\ \E w \in claims[o] : guard[w] = Picker
    BY <1>1, <1>3 DEF InHands, Cancel
  <2>2. claims \in [AutoOps -> SUBSET Windows]
    BY DEF Inv, Facts, Types, OpTypes
  <2> QED  BY <1>2, <1>4, <2>1, <2>2, OpStep DEF Inv, Facts, Ops
<1>8. CallInv'
  <2>1. \A f \in On(stack') : f \in On(Rest) /\ f \in On(stack)
    BY <1>1
  <2>2. ASSUME NEW f \in On(stack')
        PROVE  Relies(f)'
    <3>1. f \in Frames /\ ~Running(f) /\ Relies(f)
      BY <1>1, <2>1 DEF Inv, CallInv
    <3>2. f.fn = "ManualLoop" => /\ timer => timer'
                                 /\ f.op \in Ops
      BY <1>1, <2>1, <3>1 DEF Frames, Ops
    <3> QED  BY <1>3, <3>1, <3>2, RestRelies
  <2>3. \A k \in settling' : \E f \in On(stack') : f.fn = "Release" /\ f.job = k
    BY <1>1 DEF Inv, CallInv
  <2>4. \A f, g \in On(stack') :
            f.fn = "ManualLoop" /\ g.fn \in {"Finish", "Rearm", "Arm"} => timer'
    BY <1>1, <2>1 DEF Inv, CallInv
  <2>5. \A f \in On(stack') : f.fn # "Advance"
    BY <1>1 DEF Running
  <2> QED  BY <2>2, <2>3, <2>4, <2>5 DEF CallInv
<1>9. SleepInv'
  <2>1. CASE Queue = {}
    BY <2>1 DEF SleepInv, Queue
  <2>2. CASE (timer => timer') /\ Queue # {}
    <3>1. \A o \in Ops : ~timer' /\ Staging(o) => Staging(o)'
      BY <1>1, <1>4, <2>2 DEF Staging
    <3> QED  BY <1>2, <2>2, <3>1, SleepStep DEF Inv, Facts, NoneNew
  <2> QED  BY <2>1, <2>2
<1> QED  BY <1>1, <1>2, <1>5, <1>6, <1>7, <1>8, <1>9 DEF Calm

LEMMA AdvanceKeeps ==
    ASSUME Inv, AdvanceMoveQueue
    PROVE  Stack(stack') /\ Rules'
<1>1. CASE Queue = {} /\ timer' = FALSE /\ stack' = Rest
           /\ UNCHANGED <<queueVars, opVars, heartbeatDeferred,
                          cancelPending, retry, msgs, lost>>
  <2>1. stack # <<>> /\ Head(stack) = Advance /\ UNCHANGED disarmed
    BY <1>1 DEF AdvanceMoveQueue, Calling
  <2>2. /\ Stack(stack') /\ JobInv' /\ AutoInv' /\ OpInv' /\ CallInv' /\ SleepInv'
    BY <1>1, <2>1, PopKeeps DEF Advance, Nested, Finish, queueVars, opVars
  <2>3. RetryInv'
    <3>1. On(stack) = {Advance} \cup On(Rest)
      BY <2>1, PopStack DEF Inv, Facts, Rest
    <3> QED  BY <1>1, <3>1 DEF RetryInv, Inv, Queue, queueVars, Advance
  <2> QED  BY <2>2, <2>3 DEF Rules
<1>2. ASSUME NEW j \in Queue, CancelFront(j) \/ IssueFront(j) \/ VerifyFront(j)
      PROVE  Stack(stack') /\ Rules'
  <2>1. PICK r : \E a \in AfterLook : Looks(j, r, a)
    BY <1>2, FrontLooks DEF Inv, Facts
  <2> QED  BY <2>1, LookKeeps DEF AdvanceMoveQueue
<1> QED  BY <1>1, <1>2 DEF AdvanceMoveQueue

LEMMA DrainKeeps ==
    ASSUME Inv, DrainQueue
    PROVE  Stack(stack') /\ Rules'
<1>1. /\ stack # <<>> /\ Head(stack) = Drain /\ stack' = Rest
      /\ timer' = StillTimed
      /\ UNCHANGED <<queueVars, opVars, heartbeatDeferred, cancelPending, retry,
                     msgs, lost, disarmed>>
  BY DEF DrainQueue, Calling
<1>2. timer \in BOOLEAN
  BY DEF Inv, Facts, Types, WakeTypes
<1>3. (timer => timer') \/ Queue = {}
  BY <1>1, <1>2 DEF StillTimed
<1>4. /\ Stack(stack') /\ JobInv' /\ AutoInv' /\ OpInv' /\ CallInv' /\ SleepInv'
  BY <1>1, <1>3, PopKeeps DEF Drain, Nested, Finish, queueVars, opVars
<1>5. RetryInv'
  <2>1. On(stack) = {Drain} \cup On(Rest)
    BY <1>1, PopStack DEF Inv, Facts, Rest
  <2>2. Retrying(stack) => Retrying(stack')
    BY <1>1, <2>1 DEF Retrying, Drain
  <2>3. ~timer' => ~timer \/ Queue = {}
    BY <1>3
  <2> QED  BY <1>1, <2>1, <2>2, <2>3 DEF RetryInv, Inv, Queue, queueVars, Drain
<1> QED  BY <1>4, <1>5 DEF Rules

LEMMA ReleaseRuns ==
    ASSUME Inv, NEW j \in settling, NEW ok \in BOOLEAN, ReleaseReservation(j, ok)
    PROVE  Stack(stack') /\ Rules'
<1>1. /\ stack # <<>> /\ Head(stack) = Release(j, ok) /\ stack' = Rest
      /\ settling' = settling \ {j} /\ guard' = Released(guard, {j})
      /\ UNCHANGED <<jobs, nextJob, opVars, wakeVars, lost, disarmed>>
  BY FinalizeReleases DEF ReleaseReservation, Calling
<1>2. \A w \in Windows : guard[w] = Picker => guard'[w] = Picker
  <2>1. j # Picker
    BY EngineAssumption DEF Inv, Facts, QInv, QueueInv, Typed
  <2> QED  BY <1>1, <2>1 DEF Released
<1>3. /\ Stack(stack') /\ JobInv' /\ AutoInv' /\ OpInv' /\ CallInv' /\ SleepInv'
      /\ NoneAsked
  <2>1. Release(j, ok).fn = "Release" /\ Release(j, ok).job = j
        /\ \A o \in Ops : Release(j, ok) # Finish(o)
    BY DEF Release, Finish
  <2>2. settling' \subseteq settling /\ j \notin settling' /\ timer' = timer
        /\ UNCHANGED <<jobs, phase, pending, claims, outcome, disarmed>>
    BY <1>1 DEF opVars, wakeVars
  <2> QED  BY <1>1, <1>2, <2>1, <2>2, PopKeeps
<1>4. RetryInv'
  <2>1. On(stack) = {Release(j, ok)} \cup On(Rest)
    BY <1>1, PopStack DEF Inv, Facts, Rest
  <2> QED  BY <1>1, <1>3, <2>1, RetrySame DEF Inv, Release
<1> QED  BY <1>3, <1>4 DEF Rules

LEMMA ArmRecoveryKeeps ==
    ASSUME Inv, ArmRecovery
    PROVE  Stack(stack') /\ Rules'
<1>1. /\ stack # <<>> /\ Head(stack) = ArmTail /\ stack' = Rest
      /\ UNCHANGED <<queueVars, opVars, heartbeatDeferred, lost, disarmed>>
  BY DEF ArmRecovery, Calling
<1>2. timer => timer'
  BY DEF ArmRecovery, RefreshAndScheduleRetry
<1>3. /\ Stack(stack') /\ JobInv' /\ AutoInv' /\ OpInv' /\ CallInv' /\ SleepInv'
  BY <1>1, <1>2, PopKeeps DEF ArmTail, Finish, opVars, queueVars
<1>4. On(stack) = {ArmTail} \cup On(Rest)
  BY <1>1, PopStack DEF Inv, Facts, Rest
<1>5. RetryInv'
  <2>1. CASE Queue = {} /\ RefreshMoveCancellationPending /\ UNCHANGED <<timer, msgs>>
    <3>1. DOMAIN jobs' = {}
      BY <1>1, <2>1 DEF queueVars, Queue
    <3>2. retry'.posted => retry.posted
      BY <2>1 DEF RefreshMoveCancellationPending, ClearRetry
    <3> QED  BY <1>1, <1>4, <2>1, <3>1, <3>2 DEF RetryInv, Inv, Queue, ArmTail
  <2>2. CASE RefreshAndScheduleRetry
    BY <1>1, <1>4, <2>2, RetrySchedule DEF Inv, Facts, ArmTail
  <2> QED  BY <2>1, <2>2 DEF ArmRecovery
<1> QED  BY <1>3, <1>5 DEF Rules

LEMMA CompletePostedKeeps ==
    ASSUME Inv, NEW n \in 0..MaxJobs, CompletePostedAttempt(n)
    PROVE  Stack(stack') /\ Rules'
<1>1. /\ stack # <<>> /\ Head(stack) = RetryDone(n) /\ stack' = Rest
      /\ UNCHANGED <<queueVars, opVars, heartbeatDeferred, lost, disarmed>>
  BY DEF CompletePostedAttempt, Calling
<1>2. timer => timer'
  BY DEF CompletePostedAttempt
<1>3. /\ Stack(stack') /\ JobInv' /\ AutoInv' /\ OpInv' /\ CallInv' /\ SleepInv'
  BY <1>1, <1>2, PopKeeps DEF RetryDone, Finish, opVars, queueVars
<1> DEFINE refreshed == IF AnyCancelRequested THEN retry ELSE ClearRetry
           count == IF CancelRequestedCount < n THEN 0
                    ELSE IF refreshed.noProgress < MaxNoProgress
                         THEN refreshed.noProgress + 1 ELSE MaxNoProgress
           completed == [posted |-> FALSE, noProgress |-> count]
<1>4. /\ cancelPending' = AnyCancelRequested
      /\ \/ ~cancelPending' /\ retry' = completed /\ UNCHANGED <<timer, msgs>>
         \/ cancelPending' /\ timer' = TRUE /\ retry' = ClearRetry /\ UNCHANGED msgs
         \/ cancelPending' /\ UNCHANGED timer /\ PostRetry(completed)
  BY DEF CompletePostedAttempt
<1>5. completed \in [posted : BOOLEAN, noProgress : 0..MaxNoProgress]
  <2>1. refreshed.noProgress \in 0..MaxNoProgress /\ MaxNoProgress \in Nat
    BY EngineAssumption DEF Inv, Facts, Types, WakeTypes, ClearRetry
  <2> HIDE DEF refreshed
  <2>2. count \in 0..MaxNoProgress
    BY <2>1
  <2> QED  BY <2>2
<1>6. completed.posted = FALSE
  OBVIOUS
<1> HIDE DEF completed
<1>7. \A k \in DOMAIN jobs' : jobs'[k].cancelReq => cancelPending'
  BY <1>4 DEF AnyCancelRequested
<1>8. RetryInv'
  <2>1. CASE \/ ~cancelPending' /\ retry' = completed
             \/ timer' = TRUE /\ retry' = ClearRetry
    BY <1>6, <1>7, <2>1 DEF RetryInv, Queue, ClearRetry
  <2>2. CASE PostRetry(completed)
    <3>1. /\ \/ msgs' > 0 \/ MaxPosts = 0 \/ "post" \in Faults
             \/ retry'.noProgress >= MaxNoProgress
             \/ Retrying(Rest)
          /\ retry'.posted => msgs' > 0 \/ \E f \in On(Rest) : f.fn = "RetryDone"
      BY <1>5, <1>6, <2>2, RetryPosted DEF Inv, Facts
    <3> QED  BY <1>1, <1>7, <3>1 DEF RetryInv, Queue, Retrying
  <2> QED  BY <1>4, <2>1, <2>2
<1> QED  BY <1>3, <1>8 DEF Rules


-----------------------------------------------------------------------------
(* Cancelling an operation. *)

\* The jobs E end, the others of the operation wait until they have been read.
Cancelled(o, E) ==
    /\ Keeps(E) /\ NoneNew /\ E \subseteq JobsOf(o)
    /\ \A k \in Queue : jobs[k].op # o => jobs'[k] = jobs[k]
    /\ \A k \in JobsOf(o) \ E :
          ~Wants(jobs'[k]) /\ (~jobs[k].awaiting => jobs'[k].cancelReq)
    /\ phase' = [phase EXCEPT ![o] = IF JobsOf(o) = E THEN "gone" ELSE "cancelling"]
    /\ pending' = [pending EXCEPT ![o] = {}]
    /\ outcome' = ToldCancelled(o)
    /\ UNCHANGED <<claims, settling>>
    /\ \A w \in Windows : guard[w] = Picker => guard'[w] = Picker
    /\ \/ RefreshAndScheduleRetry
       \/ NoneAsked /\ RefreshMoveCancellationPending /\ UNCHANGED <<timer, msgs>>

LEMMA CancelLiveIs ==
    ASSUME QInv, JobInv, NEW o \in Ops, CancelLiveOperation(o)
    PROVE  \E E : Cancelled(o, E)
<1> DEFINE retired(j) == [jobs[j] EXCEPT !.retire = TRUE]
           asked(j) == [jobs[j] EXCEPT !.cancelReq = TRUE]
           Table(keep, stuck) ==
              [j \in Queue \ (JobsOf(o) \ (keep \cup stuck)) |->
                   IF j \in keep THEN retired(j)
                   ELSE IF j \in stuck THEN asked(j) ELSE jobs[j]]
           Rest1(keep, stuck) ==
              /\ jobs' = Table(keep, stuck)
              /\ FinalizeMoveReservation(guard, JobsOf(o) \ (keep \cup stuck), FALSE)
              /\ phase' = [phase EXCEPT ![o] =
                               IF keep \cup stuck = {} THEN "gone" ELSE "cancelling"]
              /\ pending' = [pending EXCEPT ![o] = {}]
              /\ outcome' = ToldCancelled(o)
              /\ IF stuck = {}
                 THEN RefreshMoveCancellationPending /\ UNCHANGED <<timer, msgs>>
                 ELSE RefreshAndScheduleRetry
              /\ UNCHANGED <<nextJob, settling, claims, failed>>
<1>1. PICK keep \in SUBSET {j \in JobsOf(o) : MayAwaitTerminal(j)} :
          \E stuck \in SUBSET (JobsOf(o) \ keep) : Rest1(keep, stuck)
  BY DEF CancelLiveOperation
<1>2. PICK stuck \in SUBSET (JobsOf(o) \ keep) : Rest1(keep, stuck)
  BY <1>1
<1> DEFINE E == JobsOf(o) \ (keep \cup stuck)
<1>3. \A j \in Queue : jobs[j] \in Job
  BY JobIsTyped
<1>4. \A j \in Queue : Carries(jobs[j], jobs[j]) /\ Carries(jobs[j], retired(j))
                       /\ Carries(jobs[j], asked(j)) /\ asked(j).cancelReq
                       /\ ~Wants(retired(j)) /\ ~Wants(asked(j))
                       /\ retired(j).cancelReq = jobs[j].cancelReq
  BY <1>3 DEF Carries, JobInv, Job, Wants
<1>5. keep \subseteq JobsOf(o) /\ stuck \subseteq JobsOf(o) /\ JobsOf(o) \subseteq Queue
  BY DEF JobsOf
<1>6. \A j \in keep : jobs[j].awaiting
  BY DEF MayAwaitTerminal
<1>7. /\ DOMAIN jobs' = Queue \ E
      /\ \A k \in Queue \ E : jobs'[k] = IF k \in keep THEN retired(k)
                                         ELSE IF k \in stuck THEN asked(k) ELSE jobs[k]
  BY <1>2
<1> HIDE DEF retired, asked
<1>8. Keeps(E) /\ NoneNew /\ E \subseteq JobsOf(o)
  BY <1>4, <1>7 DEF Keeps, NoneNew
<1>9. \A k \in Queue : jobs[k].op # o => jobs'[k] = jobs[k]
  BY <1>7 DEF JobsOf
<1>10. \A k \in JobsOf(o) \ E :
           ~Wants(jobs'[k]) /\ (~jobs[k].awaiting => jobs'[k].cancelReq)
  BY <1>4, <1>5, <1>6, <1>7
<1>11. JobsOf(o) = E <=> keep \cup stuck = {}
  BY <1>5
<1>12. \A w \in Windows : guard[w] = Picker => guard'[w] = Picker
  <2>1. guard' = Released(guard, E)
    BY <1>2, FinalizeReleases
  <2>2. Picker \notin E
    BY <1>5, EngineAssumption DEF QInv, QueueInv, Typed, Queue
  <2> QED  BY <2>1, <2>2 DEF Released
<1>13. stuck = {} => NoneAsked
  BY <1>4, <1>7 DEF NoneAsked
<1>14. Cancelled(o, E)
  BY <1>2, <1>8, <1>9, <1>10, <1>11, <1>12, <1>13 DEF Cancelled
<1> QED  BY <1>14

LEMMA CancelledWorld ==
    ASSUME Inv, NEW o \in Ops, NEW E, Cancelled(o, E), phase[o] = "live",
           UNCHANGED disarmed
    PROVE  /\ JobInv' /\ AutoInv' /\ (timer => timer')
           /\ \A p \in Ops : p # o => /\ phase'[p] = phase[p]
                                      /\ pending'[p] = pending[p]
                                      /\ JobsOf(p)' = JobsOf(p)
           /\ phase'[o] \in {"gone", "cancelling"} /\ pending'[o] = {}
           /\ phase'[o] = "cancelling" => JobsOf(o)' # {}
<1>1. /\ phase \in [Ops -> {"new", "live", "cancelling", "gone"}]
      /\ pending \in [Ops -> SUBSET Apps]
      /\ outcome \in [AutoOps ->
            {"none", "Success", "Exhausted", "Deferred", "Cancelled"}]
  BY DEF Inv, Facts, Types, OpTypes
<1>2. /\ \A p \in Ops : p # o => phase'[p] = phase[p] /\ pending'[p] = pending[p]
      /\ phase'[o] = IF JobsOf(o) = E THEN "gone" ELSE "cancelling"
      /\ pending'[o] = {}
      /\ \A p \in AutoOps : outcome'[p] = IF p = o THEN "Cancelled" ELSE outcome[p]
  BY <1>1 DEF Cancelled, ToldCancelled
<1>3. DOMAIN jobs' = Queue \ E /\ \A k \in Queue \ E : jobs'[k].op = jobs[k].op
  BY DEF Cancelled, Keeps, NoneNew, Carries, JobsOf
<1>4. /\ \A p \in Ops : p # o => JobsOf(p)' = JobsOf(p)
      /\ JobsOf(o)' = JobsOf(o) \ E
  BY <1>3 DEF Cancelled, JobsOf, Queue
<1>5. timer => timer'
  BY DEF Cancelled, RefreshAndScheduleRetry
<1>6. JobInv'
  <2>1. \A k \in Queue \ E :
            \/ phase'[jobs[k].op] = phase[jobs[k].op]
            \/ phase'[jobs[k].op] = "cancelling" /\ ~Wants(jobs'[k])
    <3> SUFFICES ASSUME NEW k \in Queue \ E
                 PROVE  \/ phase'[jobs[k].op] = phase[jobs[k].op]
                        \/ phase'[jobs[k].op] = "cancelling" /\ ~Wants(jobs'[k])
      OBVIOUS
    <3>1. jobs[k].op \in Ops
      BY JobIsTyped DEF Job, Inv, Facts
    <3>2. jobs[k].op = o => k \in JobsOf(o) \ E
      BY DEF JobsOf
    <3> QED  BY <1>2, <3>1, <3>2 DEF Cancelled
  <2>2. \A p \in Ops : pending'[p] \subseteq pending[p]
    BY <1>2
  <2> QED  BY <2>1, <2>2, JobStep DEF Cancelled, Inv, Facts
<1>7. AutoInv'
  <2>1. claims' = claims
    BY DEF Cancelled
  <2>2. \A p \in AutoOps : p \in Ops
    BY DEF Ops
  <2>3. \A p \in AutoOps : pending'[p] \subseteq pending[p]
                           /\ (phase'[p] = "new" => phase[p] = "new")
                           /\ (phase'[p] = "live" => phase[p] = "live")
                           /\ (phase[p] = "new" => phase'[p] = "new")
    BY <1>2, <2>2
  <2>4. \A p \in AutoOps :
            (phase'[p] \in {"cancelling", "gone"}) <=> (outcome'[p] # "none")
    BY <1>2, <2>2 DEF Inv, AutoInv
  <2>5. \A p \in AutoOps : outcome'[p] = "Success" =>
                            outcome[p] = "Success" /\ phase'[p] = phase[p]
    BY <1>2, <2>2
  <2> QED  BY <2>1, <2>3, <2>4, <2>5 DEF Inv, AutoInv
<1>8. phase'[o] = "cancelling" => JobsOf(o)' # {}
  BY <1>2, <1>4 DEF Cancelled
<1> QED  BY <1>2, <1>4, <1>5, <1>6, <1>7, <1>8

\* `rest' are the calls that take the place of the one that was made.
LEMMA CancelKeeps ==
    ASSUME Inv, NEW o \in Ops, NEW rest, CancelOperation(o, rest), Stack(rest),
           stack # <<>>,
           Head(stack) = Cancel(o) \/ Head(stack).fn = "StartManual",
           On(Rest) \subseteq On(rest),
           \A f \in On(rest) :
              \/ f \in On(Rest)
              \/ /\ f.fn = "StartManual" /\ f.op \in ManualOps /\ f.op # o
                 /\ phase[f.op] = "new" /\ f.op \notin f.old,
           o \in AutoOps \/ \A g \in On(Rest) : g.fn # "ManualLoop"
    PROVE  Stack(stack') /\ Rules'
<1> DEFINE h == Head(stack)
<1>1. /\ Calm(Rest) /\ On(stack) = {h} \cup On(Rest)
      /\ \A g \in On(Rest) : g \in Frames /\ ~Running(g) /\ Relies(g)
  <2>1. \A g \in On(Rest) : g \in Frames
    BY PopStack DEF Inv, Facts, Rest, Calm, Stack, On
  <2> QED  BY <2>1, PopStack DEF Inv, Facts, Rest, Calm, CallInv
<1>2. /\ h.fn \in {"Cancel", "StartManual"} /\ stack' = rest
      /\ \A p \in Ops : p # o => ~AboutToCancel(p)
      /\ UNCHANGED <<lost, disarmed>>
  BY DEF Cancel, AboutToCancel, CancelOperation
<1>3. \A p \in Ops : p # o /\ InHands(p, stack) => InHands(p, stack')
  BY <1>1, <1>2 DEF InHands, Cancel, Finish
<1>4. \A p \in Ops : p # o /\ Staging(p) => Staging(p)'
  BY <1>1, <1>2 DEF Staging
<1>5. ASSUME /\ timer => timer'
             /\ settling' = settling
             /\ \A p \in Ops : p # o => /\ phase'[p] = phase[p]
                                        /\ pending'[p] = pending[p]
                                        /\ JobsOf(p)' = JobsOf(p)
             /\ \A k \in Queue : jobs[k].op # o => jobs'[k].win = jobs[k].win
             /\ pending'[o] \subseteq pending[o] /\ (phase[o] # "new" => phase'[o] # "new")
      PROVE  CallInv'
  <2>1. \A p \in AutoOps : pending[p] = {} /\ phase[p] # "new" =>
                                pending'[p] = {} /\ phase'[p] # "new"
    BY <1>5 DEF Ops
  <2>2. ASSUME NEW f \in On(Rest)
        PROVE  Relies(f)'
    <3>1. f \in Frames /\ ~Running(f) /\ Relies(f)
      BY <1>1
    <3>2. f.fn = "ManualLoop" => f.op \in ManualOps /\ f.op # o /\ f.op \in Ops
      BY <3>1, EngineAssumption DEF Frames, Ops
    <3>3. f.fn = "ManualLoop" =>
              \A k \in JobsOf(f.op)' : jobs'[k].win = jobs[k].win
      BY <1>5, <3>2 DEF JobsOf
    <3> QED  BY <1>2, <1>5, <2>1, <3>1, <3>2, <3>3, RestRelies
  <2>3. ASSUME NEW f \in On(stack'), f \notin On(Rest)
        PROVE  Relies(f)'
    <3>1. /\ f.fn = "StartManual" /\ f.op \in Ops /\ f.op # o
          /\ phase[f.op] = "new" /\ f.op \notin f.old
      BY <1>2, <2>3 DEF Ops
    <3> QED  BY <1>5, <3>1 DEF Relies
  <2>4. \A k \in settling' : \E f \in On(stack') : f.fn = "Release" /\ f.job = k
    BY <1>1, <1>2, <1>5 DEF Inv, CallInv
  <2>5. \A f, g \in On(stack') :
            f.fn = "ManualLoop" /\ g.fn \in {"Finish", "Rearm", "Arm"} => timer'
    BY <1>1, <1>2, <1>5 DEF Inv, CallInv
  <2>6. \A f \in On(stack') : f.fn # "Advance"
    BY <1>1, <1>2 DEF Running
  <2> QED  BY <2>2, <2>3, <2>4, <2>5, <2>6 DEF CallInv
<1>6. \A f \in On(stack) : f.fn \in {"ArmTail", "RetryDone"} => f \in On(stack')
  BY <1>1, <1>2
<1>7. CASE /\ phase[o] # "live"
           /\ UNCHANGED <<queueVars, opVars, heartbeatDeferred>>
           /\ UNCHANGED wakeVars \/ RefreshAndScheduleRetry
  <2>1. UNCHANGED <<jobs, nextJob, guard, settling, phase, pending, claims, outcome>>
    BY <1>7 DEF queueVars, opVars
  <2>2. Keeps({}) /\ NoneNew /\ NoneAsked /\ (timer => timer')
    BY <1>7, <2>1, JobCarries
       DEF Keeps, NoneNew, NoneAsked, Queue, Inv, Facts, wakeVars, RefreshAndScheduleRetry
  <2>3. \A p \in Ops : JobsOf(p)' = JobsOf(p)
    BY <2>1 DEF JobsOf, Queue
  <2>4. JobInv' /\ AutoInv'
    BY <1>2, <2>1, <2>2, JobStep, SameAuto DEF Inv, Facts
  <2>5. OpInv'
    <3>1. \A p \in Ops : phase'[p] = "live" =>
              \/ pending'[p] # {} \/ JobsOf(p)' # {}
              \/ p \in AutoOps /\ \E w \in claims'[p] : guard'[w] = Picker
              \/ InHands(p, stack')
      BY <1>3, <1>7, <2>1, <2>3 DEF Inv, OpInv
    <3>2. \A p \in AutoOps \cap disarmed' : phase'[p] = "live" =>
              \E j \in JobsOf(p)' : jobs'[j].armFail
      BY <1>2, <1>7, <2>1, <2>3 DEF Inv, OpInv, Ops
    <3>3. \A p \in Ops : phase'[p] = "cancelling" => JobsOf(p)' # {}
      BY <2>1, <2>3 DEF Inv, OpInv
    <3> QED  BY <3>1, <3>2, <3>3 DEF OpInv, InHands
  <2>6. CallInv'
    BY <1>5, <2>1, <2>2, <2>3
  <2>7. SleepInv'
    <3>1. Staging(o) => Staging(o)'
      BY <1>1, <1>2, <1>7 DEF Staging, AboutToCancel
    <3> QED  BY <1>4, <2>1, <2>2, <3>1, SleepStep DEF Inv, Facts, NoneNew
  <2>8. RetryInv'
    BY <1>6, <1>7, <2>2, RetrySame, RetrySchedule DEF Inv, Facts
  <2> QED  BY <1>2, <2>4, <2>5, <2>6, <2>7, <2>8 DEF Rules
<1>8. CASE phase[o] = "live" /\ CancelLiveOperation(o)
  <2>1. PICK E : Cancelled(o, E)
    BY <1>8, CancelLiveIs DEF Inv, Facts
  <2>2. /\ JobInv' /\ AutoInv' /\ (timer => timer')
        /\ \A p \in Ops : p # o => /\ phase'[p] = phase[p]
                                   /\ pending'[p] = pending[p]
                                   /\ JobsOf(p)' = JobsOf(p)
        /\ phase'[o] \in {"gone", "cancelling"} /\ pending'[o] = {}
        /\ phase'[o] = "cancelling" => JobsOf(o)' # {}
    BY <1>2, <1>8, <2>1, CancelledWorld
  <2>3. /\ Keeps(E) /\ NoneNew /\ UNCHANGED <<claims, settling>>
        /\ \A k \in Queue : jobs[k].op # o => jobs'[k] = jobs[k]
        /\ \A w \in Windows : guard[w] = Picker => guard'[w] = Picker
        /\ \A k \in JobsOf(o) \ E : ~jobs[k].awaiting => jobs'[k].cancelReq
    BY <2>1 DEF Cancelled
  <2>4. claims \in [AutoOps -> SUBSET Windows]
    BY DEF Inv, Facts, Types, OpTypes
  <2>5. OpInv'
    <3>1. \A p \in Ops : phase'[p] = "cancelling" => JobsOf(p)' # {}
      BY <2>2 DEF Inv, OpInv
    <3>2. \A p \in Ops : phase'[p] = "live" =>
              \/ pending'[p] # {} \/ JobsOf(p)' # {}
              \/ p \in AutoOps /\ \E w \in claims'[p] : guard'[w] = Picker
              \/ InHands(p, stack')
      <4> SUFFICES ASSUME NEW p \in Ops, phase'[p] = "live"
                   PROVE  \/ pending'[p] # {} \/ JobsOf(p)' # {}
                          \/ p \in AutoOps /\ \E w \in claims'[p] : guard'[w] = Picker
                          \/ InHands(p, stack')
        OBVIOUS
      <4>1. p # o
        BY <2>2
      <4> QED  BY <1>3, <2>2, <2>3, <2>4, <4>1 DEF Inv, OpInv
    <3>3. \A p \in AutoOps \cap disarmed' : phase'[p] = "live" =>
              \E j \in JobsOf(p)' : jobs'[j].armFail
      <4> SUFFICES ASSUME NEW p \in AutoOps, p \in disarmed', phase'[p] = "live"
                   PROVE  \E j \in JobsOf(p)' : jobs'[j].armFail
        OBVIOUS
      <4>1. p # o /\ p \in Ops
        BY <2>2 DEF Ops
      <4>2. \E j \in JobsOf(p) : jobs[j].armFail
        BY <1>2, <2>2, <4>1 DEF Inv, OpInv
      <4>3. \A j \in JobsOf(p) : j \in Queue /\ jobs[j].op # o
        BY <4>1 DEF JobsOf
      <4> QED  BY <2>2, <2>3, <4>1, <4>2, <4>3
    <3> QED  BY <3>1, <3>2, <3>3 DEF OpInv, InHands
  <2>6. CallInv'
    BY <1>5, <2>2, <2>3
  <2>7. SleepInv'
    <3>1. \A k \in Queue \ E : phase[jobs[k].op] # "live" => phase'[jobs[k].op] # "live"
      <4>1. \A k \in Queue : jobs[k].op \in Ops
        BY JobIsTyped DEF Job, Inv, Facts
      <4> QED  BY <2>2, <4>1
    <3>2. \A k \in Queue \ E : \A p \in Ops :
              jobs[k].op = p /\ ~timer' /\ Staging(p) /\ ~jobs[k].awaiting =>
                  \/ ~jobs'[k].awaiting /\ Staging(p)'
                  \/ jobs'[k].cancelReq /\ (jobs'[k].armFail \/ phase'[p] # "live")
      BY <1>4, <2>2, <2>3 DEF JobsOf
    <3> QED  BY <2>2, <2>3, <3>1, <3>2, SleepStep DEF Inv, Facts, NoneNew
  <2>8. RetryInv'
    BY <1>6, <1>2, <2>1, RetrySchedule, RetryRefresh DEF Inv, Facts, Cancelled
  <2> QED  BY <1>2, <2>2, <2>5, <2>6, <2>7, <2>8 DEF Rules
<1> QED  BY <1>7, <1>8 DEF CancelOperation

LEMMA CancelCallRuns ==
    ASSUME Inv, NEW o \in Ops, CancelCall(o)
    PROVE  Stack(stack') /\ Rules'
<1>1. stack # <<>> /\ Head(stack) = Cancel(o) /\ CancelOperation(o, Rest)
  BY DEF CancelCall, Calling
<1>2. Calm(Rest) /\ (Nested(Cancel(o)) \/ \A g \in On(Rest) : g.fn # "ManualLoop")
  BY <1>1, PopStack DEF Inv, Facts, Rest
<1>3. o \in AutoOps \/ ~Nested(Cancel(o))
  BY DEF Nested, Cancel
<1> QED  BY <1>1, <1>2, <1>3, CancelKeeps DEF Calm

-----------------------------------------------------------------------------
(* Calls and messages that leave the jobs and the timer as they are. *)

LEMMA QuietStep ==
    ASSUME Inv, UNCHANGED <<jobs, settling, timer, disarmed>>, Stack(stack'),
           \A o \in Ops : phase'[o] # phase[o] =>
              /\ JobsOf(o) = {} /\ phase'[o] # "cancelling"
              /\ phase'[o] = "live" => phase[o] = "new",
           \A o \in Ops : pending'[o] \subseteq pending[o] \/ JobsOf(o) = {},
           \A f \in On(stack) : f.fn = "Release" => f \in On(stack'),
           \A o \in Ops : phase'[o] = "live" =>
              \/ pending'[o] # {} \/ JobsOf(o) # {}
              \/ o \in AutoOps /\ \E w \in claims'[o] : guard'[w] = Picker
              \/ InHands(o, stack'),
           \A o \in AutoOps : AboutToCancel(o) => phase'[o] # "live",
           \A o \in Ops : ~timer /\ JobsOf(o) # {} /\ Staging(o) => Staging(o)',
           \A f \in On(stack') : Relies(f)',
           \A f, g \in On(stack') :
              f.fn = "ManualLoop" /\ g.fn \in {"Finish", "Rearm", "Arm"} => timer,
           \A f \in On(stack') : f.fn = "Advance" =>
              timer \/ \E g \in On(stack') : g.fn = "RetryDone"
    PROVE  JobInv' /\ OpInv' /\ CallInv' /\ SleepInv' /\ Keeps({}) /\ NoneNew /\ NoneAsked
<1>1. Keeps({}) /\ NoneNew /\ NoneAsked
  BY JobCarries DEF Keeps, NoneNew, NoneAsked, Queue, Inv, Facts
<1>2. \A o \in Ops : JobsOf(o)' = JobsOf(o)
  BY DEF JobsOf, Queue
<1>3. \A k \in Queue : jobs[k].op \in Ops /\ k \in JobsOf(jobs[k].op)
  BY JobIsTyped DEF Job, JobsOf, Inv, Facts
<1>4. JobInv'
  <2> SUFFICES ASSUME NEW j \in Queue
               PROVE  /\ \/ phase'[jobs[j].op] = "live"
                         \/ phase'[jobs[j].op] = "cancelling" /\ ~Wants(jobs[j])
                         \/ jobs[j].op \in ManualOps \cap disarmed'
                            /\ phase'[jobs[j].op] = "gone"
                      /\ AppOf[jobs[j].win] \notin pending'[jobs[j].op]
                      /\ jobs[j].op \in AutoOps =>
                            AppOf[jobs[j].win] = AppOf[jobs[j].op]
                      /\ jobs[j].armFail => jobs[j].cancelReq
    BY DEF JobInv, Queue, Orphaned
  <2> QED  BY <1>3 DEF Inv, JobInv, Orphaned
<1>5. OpInv'
  <2>1. \A o \in Ops : phase'[o] = "cancelling" => JobsOf(o)' # {}
    BY <1>2 DEF Inv, OpInv
  <2>2. \A o \in Ops : phase'[o] = "live" =>
            \/ pending'[o] # {} \/ JobsOf(o)' # {}
            \/ o \in AutoOps /\ \E w \in claims'[o] : guard'[w] = Picker
            \/ InHands(o, stack')
    BY <1>2
  <2>3. \A o \in AutoOps \cap disarmed' : phase'[o] = "live" =>
            \/ \E j \in JobsOf(o)' : jobs'[j].armFail
    <3> SUFFICES ASSUME NEW o \in AutoOps, o \in disarmed, phase'[o] = "live"
                 PROVE  \E j \in JobsOf(o)' : jobs'[j].armFail
      OBVIOUS
    <3>1. o \in Ops /\ ~AboutToCancel(o)
      BY DEF Ops
    <3>2. phase[o] = "live"
      BY <1>2, <3>1 DEF Inv, OpInv, AutoInv
    <3> QED  BY <1>2, <3>1, <3>2 DEF Inv, OpInv
  <2> QED  BY <2>1, <2>2, <2>3 DEF OpInv, InHands
<1>6. CallInv'
  BY DEF CallInv, Inv
<1>7. SleepInv'
  <2>1. \A k \in Queue : phase'[jobs[k].op] = phase[jobs[k].op]
    BY <1>3
  <2>2. \A k \in Queue : \A o \in Ops :
              jobs[k].op = o /\ ~timer' /\ Staging(o) /\ ~jobs[k].awaiting =>
                  ~jobs'[k].awaiting /\ Staging(o)'
    BY <1>3
  <2> QED  BY <1>1, <2>1, <2>2, SleepStep DEF Inv, Facts, NoneNew
<1> QED  BY <1>1, <1>4, <1>5, <1>6, <1>7

LEMMA OneCall ==
    ASSUME NEW f \in Frames
    PROVE  /\ Stack(<<f>>) /\ On(<<f>>) = {f} /\ <<f>> # <<>> /\ Head(<<f>>) = f
           /\ ~Running(f) => Calm(<<f>>)
<1>1. Fits(f, <<>>)
  BY EmptyStack DEF Fits
<1>2. <<f>> \o <<>> = <<f>>
  OBVIOUS
<1> QED  BY <1>1, <1>2, EmptyStack, PushStack

\* Between two messages no call is left, and nothing is in anybody's hands.
LEMMA IdleIs ==
    ASSUME Inv, Idle
    PROVE  /\ On(stack) = {} /\ settling = {}
           /\ \A o \in Ops : /\ ~InHands(o, stack) /\ ~AboutToCancel(o)
                             /\ ~timer => ~Staging(o)
<1>1. On(stack) = {}
  BY EmptyStack DEF Idle
<1> QED  BY <1>1 DEF Idle, InHands, AboutToCancel, Staging, Inv, CallInv

\* A message that leaves the jobs and the timer as they are.
LEMMA QuietMessage ==
    ASSUME Inv, Idle, UNCHANGED <<jobs, settling, disarmed>>, UNCHANGED wakeVars,
           AutoInv', Stack(stack'),
           \A o \in Ops : phase'[o] # phase[o] =>
              /\ JobsOf(o) = {} /\ phase'[o] # "cancelling"
              /\ phase'[o] = "live" => phase[o] = "new",
           \A o \in Ops : pending'[o] \subseteq pending[o] \/ JobsOf(o) = {},
           \A o \in Ops : phase'[o] = "live" =>
              \/ pending'[o] # {} \/ JobsOf(o) # {}
              \/ o \in AutoOps /\ \E w \in claims'[o] : guard'[w] = Picker
              \/ InHands(o, stack'),
           \A f \in On(stack') : /\ Relies(f)' /\ (f.fn = "Advance" => timer)
                                 /\ \A g \in On(stack') : f = g
    PROVE  Stack(stack') /\ Rules'
<1>1. /\ On(stack) = {} /\ settling = {}
      /\ \A o \in Ops : ~InHands(o, stack) /\ ~AboutToCancel(o) /\ (~timer => ~Staging(o))
  BY IdleIs
<1>2. UNCHANGED <<timer, cancelPending, retry, msgs>>
  BY DEF wakeVars
<1>3. JobInv' /\ OpInv' /\ CallInv' /\ SleepInv' /\ NoneAsked
  <2>1. \A f, g \in On(stack') :
            f.fn = "ManualLoop" /\ g.fn \in {"Finish", "Rearm", "Arm"} => timer
    OBVIOUS
  <2>2. \A o \in AutoOps : ~AboutToCancel(o)
    BY <1>1 DEF Ops
  <2> QED  BY <1>1, <1>2, <2>1, <2>2, QuietStep
<1>4. RetryInv'
  BY <1>1, <1>3, RetrySame DEF Inv
<1> QED  BY <1>3, <1>4 DEF Rules

LEMMA MoveTimerKeeps ==
    ASSUME Inv, MoveTimer
    PROVE  Stack(stack') /\ Rules'
<1>1. Advance \in Frames /\ Advance.fn = "Advance"
  BY DEF Advance, Frames
<1>2. Stack(stack') /\ On(stack') = {Advance}
  BY <1>1, OneCall DEF MoveTimer
<1>3. UNCHANGED <<jobs, settling, guard, phase, pending, claims, outcome, disarmed>>
  BY DEF MoveTimer, queueVars, opVars
<1>4. AutoInv'
  BY <1>3, SameAuto DEF Inv
<1>5. \A o \in Ops : phase'[o] = "live" =>
          \/ pending'[o] # {} \/ JobsOf(o) # {}
          \/ o \in AutoOps /\ \E w \in claims'[o] : guard'[w] = Picker
  BY <1>3, IdleIs DEF Inv, OpInv, MoveTimer
<1> QED  BY <1>1, <1>2, <1>3, <1>4, <1>5, QuietMessage DEF MoveTimer, Relies

\* One call that a message makes about an operation.
LEMMA MessageCalls ==
    ASSUME Inv, Idle, NEW f \in Frames, stack' = <<f>>, Relies(f)', AutoInv',
           f.fn # "Advance",
           UNCHANGED <<queueVars, wakeVars, disarmed, phase>>,
           NEW o \in Ops, JobsOf(o) # {} => pending'[o] \subseteq pending[o],
           \A p \in Ops : p # o => pending'[p] = pending[p],
           o \in AutoOps => \A p \in AutoOps : p # o => claims'[p] = claims[p],
           o \notin AutoOps => claims' = claims,
           InHands(o, <<f>>) \/ (UNCHANGED <<pending, claims>>)
    PROVE  Stack(stack') /\ Rules'
<1>1. Stack(stack') /\ On(stack') = {f}
  BY OneCall
<1>2. UNCHANGED <<jobs, settling, guard>> /\ UNCHANGED wakeVars
  BY DEF queueVars
<1>3. \A p \in Ops : phase'[p] = "live" =>
          \/ pending'[p] # {} \/ JobsOf(p) # {}
          \/ p \in AutoOps /\ \E w \in claims'[p] : guard'[w] = Picker
          \/ InHands(p, stack')
  BY <1>2, IdleIs DEF Inv, OpInv
<1> QED  BY <1>1, <1>2, <1>3, QuietMessage

LEMMA QuietMessagesKeep ==
    ASSUME Inv, Heartbeat \/ \E w \in Windows : WindowCloses(w)
    PROVE  Stack(stack') /\ Rules'
<1>1. /\ Idle /\ UNCHANGED <<queueVars, opVars, wakeVars, disarmed, stack>>
  BY DEF Heartbeat, WindowCloses
<1>2. UNCHANGED <<jobs, settling, guard, phase, pending, claims, outcome, disarmed, stack>>
  BY <1>1 DEF queueVars, opVars
<1>3. AutoInv'
  BY <1>2, SameAuto DEF Inv
<1>4. Stack(stack') /\ On(stack') = {}
  BY <1>1, <1>2, IdleIs DEF Inv, Facts
<1>5. \A o \in Ops : phase'[o] = "live" =>
          \/ pending'[o] # {} \/ JobsOf(o) # {}
          \/ o \in AutoOps /\ \E w \in claims'[o] : guard'[w] = Picker
  BY <1>1, <1>2, IdleIs DEF Inv, OpInv
<1> QED  BY <1>1, <1>2, <1>3, <1>4, <1>5, QuietMessage

LEMMA BeginKeeps ==
    ASSUME Inv, NEW o \in AutoOps, BeginAutoRestore(o)
    PROVE  Stack(stack') /\ Rules'
<1>1. /\ Idle /\ phase[o] = "new" /\ o \in Ops
      /\ \A p \in AutoOps : phase[p] = "live" => AppOf[p] # AppOf[o]
      /\ UNCHANGED <<queueVars, claims, outcome, wakeVars, disarmed, stack>>
  BY DEF BeginAutoRestore, Ops
<1>2. /\ \A p \in Ops : p # o => phase'[p] = phase[p] /\ pending'[p] = pending[p]
      /\ phase'[o] = "live" /\ pending'[o] = {AppOf[o]}
  BY <1>1 DEF BeginAutoRestore, Inv, Facts, Types, OpTypes
<1>3. UNCHANGED <<jobs, settling, guard, claims, outcome, disarmed, stack>>
  BY <1>1 DEF queueVars
<1>4. \A p \in AutoOps : p \in Ops
  BY DEF Ops
<1>5. claims[o] = {} /\ outcome[o] = "none"
  BY <1>1 DEF Inv, AutoInv
<1>6. AutoInv'
  BY <1>1, <1>2, <1>3, <1>4, <1>5 DEF Inv, AutoInv
<1>7. Stack(stack') /\ On(stack') = {}
  BY <1>1, <1>3, IdleIs DEF Inv, Facts
<1>8. JobsOf(o) = {}
  BY <1>1 DEF JobsOf, Inv, JobInv, Orphaned
<1>9. \A p \in Ops : phase'[p] = "live" =>
          \/ pending'[p] # {} \/ JobsOf(p) # {}
          \/ p \in AutoOps /\ \E w \in claims'[p] : guard'[w] = Picker
  BY <1>1, <1>2, <1>3, IdleIs DEF Inv, OpInv
<1> QED  BY <1>1, <1>2, <1>3, <1>6, <1>7, <1>8, <1>9, QuietMessage

LEMMA PlanDeferredKeeps ==
    ASSUME Inv, NEW o \in AutoOps, AutoPlanDeferred(o)
    PROVE  Stack(stack') /\ Rules'
<1>1. /\ Idle /\ phase[o] = "live" /\ pending[o] # {} /\ o \in Ops
      /\ UNCHANGED <<queueVars, claims, wakeVars, disarmed, stack>>
  BY DEF AutoPlanDeferred, Ops
<1>2. /\ \A p \in Ops : p # o => phase'[p] = phase[p] /\ pending'[p] = pending[p]
      /\ phase'[o] = "gone" /\ pending'[o] = {}
      /\ \A p \in AutoOps : outcome'[p] = IF p = o THEN "Deferred" ELSE outcome[p]
  BY <1>1 DEF AutoPlanDeferred, Inv, Facts, Types, OpTypes
<1>3. UNCHANGED <<jobs, settling, guard, claims, disarmed, stack>>
  BY <1>1 DEF queueVars
<1>4. \A p \in AutoOps : p \in Ops
  BY DEF Ops
<1>5. AutoInv'
  BY <1>1, <1>2, <1>3, <1>4 DEF Inv, AutoInv
<1>6. Stack(stack') /\ On(stack') = {}
  BY <1>1, <1>3, IdleIs DEF Inv, Facts
<1>7. JobsOf(o) = {}
  BY <1>1, OwnerWaits DEF JobsOf, Inv, Facts
<1>8. \A p \in Ops : phase'[p] = "live" =>
          \/ pending'[p] # {} \/ JobsOf(p) # {}
          \/ p \in AutoOps /\ \E w \in claims'[p] : guard'[w] = Picker
  BY <1>1, <1>2, <1>3, IdleIs DEF Inv, OpInv
<1> QED  BY <1>1, <1>2, <1>3, <1>5, <1>6, <1>7, <1>8, QuietMessage

LEMMA CancelMessagesKeep ==
    ASSUME Inv, NEW o \in Ops, Idle, stack' = <<Cancel(o)>>,
           UNCHANGED <<queueVars, opVars, wakeVars, disarmed>>
    PROVE  Stack(stack') /\ Rules'
<1>1. Cancel(o) \in Frames /\ Cancel(o).fn = "Cancel"
  BY DEF Cancel, Frames
<1>2. UNCHANGED <<phase, pending, claims, outcome, disarmed>>
  BY DEF opVars
<1>3. AutoInv'
  BY <1>2, SameAuto DEF Inv
<1> QED  BY <1>1, <1>2, <1>3, MessageCalls DEF Relies

LEMMA PlanResultKeeps ==
    ASSUME Inv, NEW o \in AutoOps, AutoPlanResult(o)
    PROVE  Stack(stack') /\ Rules'
<1>1. /\ Idle /\ phase[o] = "live" /\ pending[o] # {} /\ o \in Ops
      /\ UNCHANGED <<queueVars, phase, failed, outcome, wakeVars, disarmed>>
  BY DEF AutoPlanResult, Ops
<1>2. PICK plan \in SUBSET OpenWindows(AppOf[o]) :
          LET held == {w \in plan : guard[w] = Picker}
          IN \/ /\ TransferLateAcceptedPlanRecords(o, held)
                /\ pending' = [pending EXCEPT ![o] = {}]
                /\ stack' = <<AutoLoop(o, plan \ held)>>
             \/ /\ held # {}
                /\ stack' = <<Cancel(o)>>
                /\ UNCHANGED <<claims, pending>>
  BY DEF AutoPlanResult
<1>3. CASE stack' = <<Cancel(o)>> /\ UNCHANGED <<claims, pending>>
  BY <1>1, <1>3, CancelMessagesKeep DEF opVars
<1> DEFINE held == {w \in plan : guard[w] = Picker}
           todo == plan \ held
<1>4. \A w \in plan : w \in Windows /\ AppOf[w] = AppOf[o]
  BY DEF OpenWindows
<1>5. CASE /\ claims' = [claims EXCEPT ![o] = held]
           /\ pending' = [pending EXCEPT ![o] = {}]
           /\ stack' = <<AutoLoop(o, todo)>>
  <2>1. /\ \A p \in Ops : p # o => pending'[p] = pending[p]
        /\ pending'[o] = {}
        /\ \A p \in AutoOps : claims'[p] = IF p = o THEN held ELSE claims[p]
    BY <1>1, <1>5 DEF Inv, Facts, Types, OpTypes
  <2> HIDE DEF held
  <2>2. \A w \in held : AppOf[w] = AppOf[o]
    BY <1>4 DEF held
  <2>3. \A p \in AutoOps : p \in Ops
    BY DEF Ops
  <2>4. AutoInv'
    BY <1>1, <2>1, <2>2, <2>3 DEF Inv, AutoInv
  <2>5. PICK f : f = AutoLoop(o, todo)
    OBVIOUS
  <2>6. /\ f \in Frames /\ f.fn = "AutoLoop" /\ f.op = o
        /\ \A w \in f.todo : AppOf[w] = AppOf[o]
    <3>1. todo \in SUBSET Windows /\ \A w \in todo : AppOf[w] = AppOf[o]
      BY <1>4
    <3> HIDE DEF todo
    <3> QED  BY <2>5, <3>1 DEF AutoLoop, Frames
  <2>7. Relies(f)'
    BY <1>1, <2>1, <2>6 DEF Relies
  <2>8. InHands(o, <<f>>)
    BY <2>6, OneCall DEF InHands
  <2> QED  BY <1>1, <1>5, <2>1, <2>4, <2>5, <2>6, <2>7, <2>8, MessageCalls
<1> QED  BY <1>2, <1>3, <1>5 DEF TransferLateAcceptedPlanRecords

LEMMA RestoreClickKeeps ==
    ASSUME Inv, NEW o \in ManualOps, ManualRestoreClick(o)
    PROVE  Stack(stack') /\ Rules'
<1> DEFINE old == {p \in ManualOps : phase[p] \in {"live", "cancelling"}}
<1>1. /\ Idle /\ phase[o] = "new" /\ o \in Ops
      /\ stack' = <<StartManual(o, old)>>
      /\ UNCHANGED <<queueVars, opVars, wakeVars, disarmed>>
  BY DEF ManualRestoreClick, Ops
<1>2. old \in SUBSET ManualOps /\ o \notin old
  BY <1>1
<1>3. PICK f : f = StartManual(o, old)
  OBVIOUS
<1>4. /\ f \in Frames /\ f.fn = "StartManual" /\ f.op = o /\ o \notin f.old
  <2> HIDE DEF old
  <2> QED  BY <1>2, <1>3 DEF StartManual, Frames
<1>5. UNCHANGED <<phase, pending, claims, outcome, disarmed>>
  BY <1>1 DEF opVars
<1>6. AutoInv' /\ Relies(f)'
  BY <1>1, <1>4, <1>5, SameAuto DEF Inv, Relies
<1> QED  BY <1>1, <1>3, <1>4, <1>5, <1>6, MessageCalls

LEMMA ManualResultKeeps ==
    ASSUME Inv, NEW o \in ManualOps, NEW a \in Apps, ManualPlanResult(o, a)
    PROVE  Stack(stack') /\ Rules'
<1>1. /\ Idle /\ phase[o] = "live" /\ a \in pending[o] /\ o \in Ops /\ o \notin AutoOps
      /\ UNCHANGED <<queueVars, phase, claims, outcome, wakeVars, disarmed>>
  BY EngineAssumption DEF ManualPlanResult, Ops
<1>2. /\ \A p \in Ops : p # o => pending'[p] = pending[p]
      /\ pending'[o] = pending[o] \ {a}
  BY <1>1 DEF ManualPlanResult, Inv, Facts, Types, OpTypes
<1>3. AutoInv'
  <2>1. \A p \in AutoOps : pending'[p] = pending[p]
    BY <1>1, <1>2 DEF Ops
  <2> QED  BY <1>1, <2>1 DEF Inv, AutoInv
<1>4. ASSUME NEW f \in Frames, stack' = <<f>>, Relies(f)', InHands(o, <<f>>), f.fn # "Advance"
      PROVE  Stack(stack') /\ Rules'
  BY <1>1, <1>2, <1>3, <1>4, MessageCalls
<1>5. CASE stack' = <<Finish(o)>>
  <2>1. Finish(o) \in Frames /\ Finish(o).fn = "Finish" /\ Finish(o).op = o
    BY <1>1 DEF Finish, Frames
  <2>2. Relies(Finish(o))' /\ InHands(o, <<Finish(o)>>)
    BY <1>1, <2>1, OneCall DEF Relies, InHands
  <2> QED  BY <1>4, <1>5, <2>1, <2>2
<1>6. ASSUME NEW plan \in SUBSET OpenWindows(a), stack' = <<ManualLoop(o, plan)>>
      PROVE  Stack(stack') /\ Rules'
  <2>1. plan \in SUBSET Windows /\ \A w \in plan : AppOf[w] = a
    BY DEF OpenWindows
  <2>2. /\ ManualLoop(o, plan) \in Frames /\ ManualLoop(o, plan).fn = "ManualLoop"
        /\ ManualLoop(o, plan).op = o /\ ManualLoop(o, plan).todo = plan
    BY <2>1 DEF ManualLoop, Frames
  <2>3. InHands(o, <<ManualLoop(o, plan)>>)
    BY <2>2, OneCall DEF InHands
  <2>4. JobsOf(o)' = JobsOf(o) /\ jobs' = jobs
    BY <1>1 DEF JobsOf, Queue, queueVars
  <2>5. \A j \in JobsOf(o) : jobs[j].win \notin plan
    BY <1>1, <2>1 DEF Inv, JobInv, JobsOf
  <2>6. Relies(ManualLoop(o, plan))'
    BY <1>1, <1>2, <2>1, <2>2, <2>4, <2>5 DEF Relies
  <2> QED  BY <1>4, <1>6, <2>2, <2>3, <2>6
<1> QED  BY <1>5, <1>6 DEF ManualPlanResult

LEMMA TransitionEndKeeps ==
    ASSUME Inv, NEW w \in Windows, PickerTransitionEnds(w)
    PROVE  Stack(stack') /\ Rules'
<1> DEFINE waiting == {o \in AutoOps : w \in claims[o] /\ JobsOf(o) = {}
                                       /\ phase[o] \in {"live", "cancelling"}}
<1>1. /\ Idle /\ guard[w] = Picker
      /\ guard' = [guard EXCEPT ![w] = NoGuard]
      /\ (waiting = {} /\ UNCHANGED stack) \/ \E o \in waiting : stack' = <<Finish(o)>>
      /\ UNCHANGED <<jobs, settling, opVars, wakeVars, disarmed>>
  BY DEF PickerTransitionEnds
<1>2. UNCHANGED <<phase, pending, claims, outcome>>
  BY <1>1 DEF opVars
<1>3. \A v \in Windows : v # w => guard'[v] = guard[v]
  BY <1>1 DEF Inv, Facts, QInv, QueueInv, Typed
<1>4. AutoInv'
  BY <1>1, <1>2, SameAuto DEF Inv
<1>5. ASSUME NEW o \in Ops, phase'[o] = "live"
      PROVE  \/ pending'[o] # {} \/ JobsOf(o) # {}
             \/ o \in AutoOps /\ \E v \in claims'[o] : guard'[v] = Picker
             \/ o \in waiting
  <2>1. \/ pending[o] # {} \/ JobsOf(o) # {}
        \/ o \in AutoOps /\ \E v \in claims[o] : guard[v] = Picker
    BY <1>1, <1>2, <1>5, IdleIs DEF Inv, OpInv
  <2>2. o \in AutoOps => claims[o] \subseteq Windows
    BY DEF Inv, Facts, Types, OpTypes
  <2> QED  BY <1>2, <1>3, <1>5, <2>1, <2>2
<1>6. \A o \in waiting : phase[o] = "live" /\ pending[o] = {} /\ AppOf[o] = AppOf[w]
  BY DEF Inv, OpInv, AutoInv, Ops
<1>7. CASE waiting = {} /\ UNCHANGED stack
  <2>1. Stack(stack') /\ On(stack') = {}
    BY <1>1, <1>7, IdleIs DEF Inv, Facts
  <2> QED  BY <1>1, <1>2, <1>4, <1>5, <1>7, <2>1, QuietMessage
<1>8. ASSUME NEW o \in waiting, stack' = <<Finish(o)>>
      PROVE  Stack(stack') /\ Rules'
  <2>1. PICK f : f = Finish(o)
    OBVIOUS
  <2>2. f \in Frames /\ f.fn = "Finish" /\ f.op = o
    BY <2>1 DEF Finish, Frames, Ops
  <2>3. Stack(stack') /\ On(stack') = {f}
    BY <1>8, <2>1, <2>2, OneCall
  <2>4. Relies(f)'
    <3>1. o \in AutoOps
      OBVIOUS
    <3> QED  BY <1>2, <1>6, <2>2, <3>1 DEF Relies
  <2>5. \A p \in waiting : p = o
    <3> SUFFICES ASSUME NEW p \in waiting
                 PROVE  p = o
      OBVIOUS
    <3>1. p \in AutoOps /\ o \in AutoOps
      OBVIOUS
    <3> QED  BY <1>6, <3>1 DEF Inv, AutoInv
  <2>6. \A p \in Ops : phase'[p] = "live" =>
            \/ pending'[p] # {} \/ JobsOf(p) # {}
            \/ p \in AutoOps /\ \E v \in claims'[p] : guard'[v] = Picker
            \/ InHands(p, stack')
    <3>1. InHands(o, stack')
      BY <2>1, <2>3 DEF InHands
    <3> QED  BY <1>5, <2>5, <3>1
  <2> HIDE DEF waiting
  <2> QED  BY <1>1, <1>2, <1>4, <2>2, <2>3, <2>4, <2>6, QuietMessage
<1> QED  BY <1>1, <1>7, <1>8

LEMMA CancelCountIs ==
    ASSUME QInv
    PROVE  CancelRequestedCount \in Nat
<1>1. Queue \subseteq 1..(nextJob - 1) /\ nextJob - 1 \in Int
  BY DEF QInv, QueueInv, Typed, Queue
<1>2. IsFiniteSet(1..(nextJob - 1))
  BY <1>1, FS_Interval
<1>3. IsFiniteSet({j \in Queue : jobs[j].cancelReq})
  BY <1>1, <1>2, FS_Subset
<1> QED  BY <1>3, FS_CardinalityType DEF CancelRequestedCount

LEMMA RetryMessageKeeps ==
    ASSUME Inv, CancelRetryMessage
    PROVE  Stack(stack') /\ Rules'
<1>1. /\ Idle /\ msgs > 0 /\ msgs' = msgs - 1
      /\ UNCHANGED <<jobs, settling, guard, phase, pending, claims, outcome,
                     cancelPending, timer, disarmed>>
  BY DEF CancelRetryMessage, queueVars, opVars
<1>2. /\ On(stack) = {}
      /\ \A o \in Ops : ~InHands(o, stack) /\ ~AboutToCancel(o) /\ (~timer => ~Staging(o))
  BY <1>1, IdleIs
<1>3. AutoInv'
  BY <1>1, SameAuto DEF Inv
<1>4. PICK f : f = RetryDone(CancelRequestedCount)
  OBVIOUS
<1>5. f \in Frames /\ f.fn = "RetryDone" /\ Advance \in Frames /\ Advance.fn = "Advance"
  BY <1>4, CancelCountIs DEF RetryDone, Frames, Inv, Facts, Advance
<1>6. CASE /\ cancelPending /\ UNCHANGED retry
           /\ stack' = <<Advance, f>> \/ stack' = <<f>>
  <2>1. Stack(stack') /\ f \in On(stack') /\ On(stack') \subseteq {Advance, f}
    <3>1. Stack(<<f>>) /\ On(<<f>>) = {f} /\ Calm(<<f>>)
      BY <1>5, OneCall DEF Running
    <3>2. Fits(Advance, <<f>>)
      BY <1>5, <3>1 DEF Fits
    <3>3. <<Advance, f>> = <<Advance>> \o <<f>>
      OBVIOUS
    <3>4. Stack(<<Advance>> \o <<f>>) /\ On(<<Advance>> \o <<f>>) = {Advance} \cup On(<<f>>)
      BY <3>1, <3>2, PushStack
    <3> QED  BY <1>6, <3>1, <3>3, <3>4
  <2>2. JobInv' /\ OpInv' /\ CallInv' /\ SleepInv' /\ NoneAsked
    <3>1. \A o \in Ops : phase'[o] = "live" =>
              \/ pending'[o] # {} \/ JobsOf(o) # {}
              \/ o \in AutoOps /\ \E w \in claims'[o] : guard'[w] = Picker
      BY <1>1, <1>2 DEF Inv, OpInv
    <3>2. \A g \in On(stack') : Relies(g)' /\ g.fn \in {"RetryDone", "Advance"}
      BY <1>5, <2>1 DEF Relies
    <3>3. \A o \in AutoOps : ~AboutToCancel(o)
      BY <1>2 DEF Ops
    <3> QED  BY <1>1, <1>2, <1>5, <2>1, <3>1, <3>2, <3>3, QuietStep
  <2>3. RetryInv'
    BY <1>1, <1>5, <1>6, <2>1 DEF RetryInv, Inv, Retrying, Queue
  <2> QED  BY <1>3, <2>1, <2>2, <2>3 DEF Rules
<1>7. CASE ~cancelPending /\ retry' = ClearRetry /\ UNCHANGED stack
  <2>1. Stack(stack') /\ On(stack') = {}
    BY <1>2, <1>7 DEF Inv, Facts
  <2>2. JobInv' /\ OpInv' /\ CallInv' /\ SleepInv' /\ NoneAsked
    <3>1. \A o \in Ops : phase'[o] = "live" =>
              \/ pending'[o] # {} \/ JobsOf(o) # {}
              \/ o \in AutoOps /\ \E w \in claims'[o] : guard'[w] = Picker
      BY <1>1, <1>2 DEF Inv, OpInv
    <3>2. \A o \in AutoOps : ~AboutToCancel(o)
      BY <1>2 DEF Ops
    <3> QED  BY <1>1, <1>2, <2>1, <3>1, <3>2, QuietStep
  <2>3. RetryInv'
    BY <1>1, <1>7 DEF RetryInv, Inv, ClearRetry, Queue
  <2> QED  BY <1>3, <2>1, <2>2, <2>3 DEF Rules
<1> QED  BY <1>4, <1>6, <1>7 DEF CancelRetryMessage

\* A tick that throws asks the front job to go, and schedules a retry.
LEMMA TimerThrowKeeps ==
    ASSUME Inv, MoveTimerThrows
    PROVE  Stack(stack') /\ Rules'
<1>1. /\ Idle /\ timer /\ RefreshAndScheduleRetry /\ stack' = stack
      /\ UNCHANGED <<guard, settling, phase, pending, claims, outcome, disarmed>>
  BY DEF MoveTimerThrows, opVars
<1>2. On(stack) = {} /\ \A o \in Ops : ~InHands(o, stack) /\ ~AboutToCancel(o)
  BY <1>1, IdleIs
<1>3. Keeps({}) /\ NoneNew
  <2>1. CASE UNCHANGED jobs
    BY <2>1, JobCarries DEF Keeps, NoneNew, Queue, Inv, Facts
  <2>2. ASSUME NEW j \in Queue,
               \/ jobs' = Retiring(jobs, j)
               \/ jobs' = [jobs EXCEPT ![j].cancelReq = TRUE]
        PROVE  Keeps({}) /\ NoneNew
    <3>1. jobs[j] \in Job /\ jobs \in [Queue -> Job] /\ Carries(jobs[j], jobs[j])
      BY JobIsTyped, JobCarries DEF Inv, Facts, QInv, QueueInv, Typed, Queue
    <3>2. CASE jobs' = Retiring(jobs, j)
      <4>1. jobs' = Update(j, [jobs[j] EXCEPT !.retire = TRUE])
        BY <3>1, <3>2 DEF Retiring, Update
      <4>2. Carries(jobs[j], [jobs[j] EXCEPT !.retire = TRUE])
        BY <3>1 DEF Carries, Job
      <4> QED  BY <4>1, <4>2, UpdateCarries DEF Inv, Facts, NoneNew
    <3>3. CASE jobs' = [jobs EXCEPT ![j].cancelReq = TRUE]
      <4>1. jobs' = Update(j, [jobs[j] EXCEPT !.cancelReq = TRUE])
        BY <3>1, <3>3 DEF Update
      <4>2. Carries(jobs[j], [jobs[j] EXCEPT !.cancelReq = TRUE])
        BY <3>1 DEF Carries, Job
      <4> QED  BY <4>1, <4>2, UpdateCarries DEF Inv, Facts, NoneNew
    <3> QED  BY <2>2, <3>2, <3>3
  <2> QED  BY <2>1, <2>2 DEF MoveTimerThrows
<1>4. timer'
  BY <1>1 DEF RefreshAndScheduleRetry
<1>5. JobInv' /\ AutoInv'
  BY <1>1, <1>3, JobStep, SameAuto DEF Inv, Facts
<1>6. OpInv'
  <2>1. claims \in [AutoOps -> SUBSET Windows]
    BY DEF Inv, Facts, Types, OpTypes
  <2> QED  BY <1>1, <1>2, <1>3, <2>1, OpStep DEF Inv, Facts, Ops
<1>7. CallInv'
  BY <1>1, <1>2 DEF CallInv, Inv
<1>8. SleepInv'
  BY <1>4 DEF SleepInv
<1>9. RetryInv'
  BY <1>1, <1>2, RetrySchedule DEF Inv, Facts
<1> QED  BY <1>1, <1>5, <1>6, <1>7, <1>8, <1>9 DEF Rules, Inv, Facts

\* A call about operation o has been made; others may have been put in its
\* place.
LEMMA QuietCall ==
    ASSUME Inv, stack # <<>>, NEW o \in Ops, Head(stack).op = o,
           Head(stack).fn \in {"Finish", "Rearm", "AutoLoop", "ManualLoop", "StartManual"},
           UNCHANGED <<jobs, settling, guard, disarmed>>, UNCHANGED wakeVars,
           Stack(stack'), On(Rest) \subseteq On(stack'), AutoInv',
           \A p \in Ops : p # o => phase'[p] = phase[p] /\ pending'[p] = pending[p],
           \A p \in AutoOps : p # o => claims'[p] = claims[p],
           phase'[o] # phase[o] =>
              /\ JobsOf(o) = {}
              /\ \/ phase[o] = "live" /\ phase'[o] = "gone"
                 \/ phase[o] = "new" /\ phase'[o] = "live" /\ o \in ManualOps,
           pending'[o] = pending[o] \/ (o \in ManualOps /\ JobsOf(o) = {}),
           o \in AutoOps \/ \A g \in On(Rest) : g.fn # "ManualLoop",
           phase'[o] = "live" =>
              \/ pending'[o] # {} \/ JobsOf(o) # {}
              \/ o \in AutoOps /\ \E w \in claims'[o] : guard'[w] = Picker
              \/ InHands(o, stack'),
           ~timer /\ JobsOf(o) # {} /\ Staging(o) => Staging(o)',
           \A f \in On(stack') : f \notin On(Rest) =>
              /\ Relies(f)' /\ f.fn # "Advance"
              /\ f.fn \in {"Finish", "Rearm", "Arm"} =>
                    timer \/ \A g \in On(stack') : g.fn # "ManualLoop"
              /\ f.fn = "ManualLoop" => \A g \in On(stack') : g = f
    PROVE  Stack(stack') /\ Rules'
<1> DEFINE h == Head(stack)
<1>1. /\ Calm(Rest) /\ On(stack) = {h} \cup On(Rest)
      /\ \A g \in On(Rest) : g \in Frames /\ ~Running(g) /\ Relies(g)
  <2>1. \A g \in On(Rest) : g \in Frames
    BY PopStack DEF Inv, Facts, Rest, Calm, Stack, On
  <2> QED  BY <2>1, PopStack DEF Inv, Facts, Rest, Calm, CallInv
<1>2. \A p \in Ops : ~AboutToCancel(p)
  BY DEF AboutToCancel, Cancel
<1>3. \A p \in Ops : p # o /\ InHands(p, stack) => InHands(p, stack')
  BY <1>1 DEF InHands, Cancel, Finish
<1>4. \A p \in Ops : p # o /\ Staging(p) => Staging(p)'
  BY <1>1, <1>2 DEF Staging
<1>5. \A p \in Ops : JobsOf(p)' = JobsOf(p)
  BY DEF JobsOf, Queue
<1>6. UNCHANGED <<timer, cancelPending, retry, msgs>>
  BY DEF wakeVars
<1>7. \A f \in On(stack') : Relies(f)'
  <2> SUFFICES ASSUME NEW f \in On(Rest)
               PROVE  Relies(f)'
    OBVIOUS
  <2>1. \A p \in AutoOps : pending[p] = {} /\ phase[p] # "new" =>
                                pending'[p] = {} /\ phase'[p] # "new"
    BY EngineAssumption DEF Ops
  <2>2. f \in Frames /\ ~Running(f) /\ Relies(f)
    BY <1>1
  <2>3. f.fn = "ManualLoop" => f.op \in Ops /\ f.op # o
    BY <1>1, <2>2, EngineAssumption DEF Frames, Ops
  <2> QED  BY <1>5, <1>6, <2>1, <2>2, <2>3, RestRelies
<1>8. \A f, g \in On(stack') :
          f.fn = "ManualLoop" /\ g.fn \in {"Finish", "Rearm", "Arm"} => timer
  <2> SUFFICES ASSUME NEW f \in On(stack'), NEW g \in On(stack'),
                      f.fn = "ManualLoop", g.fn \in {"Finish", "Rearm", "Arm"}
               PROVE  timer
    OBVIOUS
  <2>1. CASE f \in On(Rest) /\ g \in On(Rest)
    BY <1>1, <2>1 DEF Inv, CallInv
  <2> QED  BY <2>1
<1>9. \A p \in Ops : phase'[p] = "live" =>
          \/ pending'[p] # {} \/ JobsOf(p) # {}
          \/ p \in AutoOps /\ \E w \in claims'[p] : guard'[w] = Picker
          \/ InHands(p, stack')
  <2> SUFFICES ASSUME NEW p \in Ops, p # o, phase'[p] = "live"
               PROVE  \/ pending'[p] # {} \/ JobsOf(p) # {}
                      \/ p \in AutoOps /\ \E w \in claims'[p] : guard'[w] = Picker
                      \/ InHands(p, stack')
    OBVIOUS
  <2> QED  BY <1>3 DEF Inv, OpInv
<1>10. JobInv' /\ OpInv' /\ CallInv' /\ SleepInv' /\ NoneAsked
  <2>1. \A p \in Ops : phase'[p] # phase[p] =>
              /\ JobsOf(p) = {} /\ phase'[p] # "cancelling"
              /\ phase'[p] = "live" => phase[p] = "new"
    OBVIOUS
  <2>2. \A p \in Ops : pending'[p] \subseteq pending[p] \/ JobsOf(p) = {}
    OBVIOUS
  <2>3. \A f \in On(stack) : f.fn = "Release" => f \in On(stack')
    BY <1>1
  <2>4. \A p \in AutoOps : ~AboutToCancel(p)
    BY <1>2 DEF Ops
  <2>5. \A p \in Ops : ~timer /\ JobsOf(p) # {} /\ Staging(p) => Staging(p)'
    BY <1>4
  <2>6. \A f \in On(stack') : f.fn # "Advance"
    BY <1>1 DEF Running
  <2> QED  BY <1>6, <1>7, <1>8, <1>9, <2>1, <2>2, <2>3, <2>4, <2>5, <2>6, QuietStep
<1>11. RetryInv'
  <2>1. \A f \in On(stack) : f.fn \in {"ArmTail", "RetryDone"} => f \in On(stack')
    BY <1>1
  <2> QED  BY <1>10, <2>1, RetrySame DEF Inv
<1> QED  BY <1>10, <1>11 DEF Rules

LEMMA FinishManualKeeps ==
    ASSUME Inv, NEW o \in ManualOps, FinishManualMove(o)
    PROVE  Stack(stack') /\ Rules'
<1> DEFINE done == phase[o] = "live" /\ pending[o] = {} /\ JobsOf(o) = {}
<1>1. /\ stack # <<>> /\ Head(stack) = Finish(o) /\ stack' = Rest
      /\ phase' = IF done THEN [phase EXCEPT ![o] = "gone"] ELSE phase
      /\ UNCHANGED <<jobs, settling, guard, pending, claims, outcome, wakeVars, disarmed>>
      /\ o \in Ops /\ o \notin AutoOps
  BY EngineAssumption DEF FinishManualMove, Calling, queueVars, Ops
<1>2. Finish(o).op = o /\ Finish(o).fn = "Finish" /\ ~Nested(Finish(o))
  BY <1>1 DEF Finish, Nested
<1>3. Calm(Rest) /\ \A g \in On(Rest) : g.fn # "ManualLoop"
  BY <1>1, <1>2, PopStack DEF Inv, Facts, Rest
<1>4. /\ \A p \in Ops : p # o => phase'[p] = phase[p]
      /\ done => phase'[o] = "gone"
      /\ ~done => phase'[o] = phase[o]
  BY <1>1 DEF Inv, Facts, Types, OpTypes
<1>5. AutoInv'
  <2>1. \A p \in AutoOps : phase'[p] = phase[p]
    BY <1>1, <1>4 DEF Ops
  <2> QED  BY <1>1, <2>1, SameAuto DEF Inv
<1>6. ~timer => ~Staging(o) \/ Staging(o)'
  <2>1. On(stack) = {Finish(o)} \cup On(Rest)
    BY <1>1, PopStack DEF Inv, Facts, Rest
  <2> QED  BY <1>1, <1>2, <2>1 DEF Staging, AboutToCancel, Cancel
<1> QED  BY <1>1, <1>2, <1>3, <1>4, <1>5, <1>6, QuietCall DEF Calm

LEMMA FinishAutoKeeps ==
    ASSUME Inv, NEW o \in AutoOps, FinishAutoOperation(o)
    PROVE  Stack(stack') /\ Rules'
<1> DEFINE ready == /\ phase[o] = "live" /\ JobsOf(o) = {}
                    /\ \A w \in claims[o] : guard[w] # Picker
<1>1. /\ stack # <<>> /\ Head(stack) = Finish(o) /\ o \in Ops
      /\ stack' = (IF ready THEN <<Rearm(o, claims[o], FALSE)>> ELSE <<>>) \o Rest
      /\ UNCHANGED <<queueVars, opVars, wakeVars, disarmed>>
  BY DEF FinishAutoOperation, Calling, Ops
<1>2. UNCHANGED <<jobs, settling, guard, phase, pending, claims, outcome, disarmed>>
  BY <1>1 DEF queueVars, opVars
<1>3. Finish(o).op = o /\ Finish(o).fn = "Finish" /\ Nested(Finish(o))
  BY DEF Finish, Nested
<1>4. Calm(Rest) /\ On(stack) = {Finish(o)} \cup On(Rest) /\ Rest \in Seq(Frames)
  BY <1>1, PopStack DEF Inv, Facts, Rest, Calm, Stack
<1>5. AutoInv'
  BY <1>2, SameAuto DEF Inv
<1>6. CASE ~ready
  <2>1. <<>> \o Rest = Rest
    BY <1>4
  <2>2. stack' = Rest
    BY <1>1, <1>6, <2>1
  <2>3. \A f \in On(stack') : f \in On(Rest)
    BY <2>2
  <2>4. phase'[o] = "live" =>
              \/ pending'[o] # {} \/ JobsOf(o) # {}
              \/ o \in AutoOps /\ \E w \in claims'[o] : guard'[w] = Picker
    BY <1>2, <1>6
  <2>5. Staging(o) => Staging(o)'
    <3>1. On(stack') = On(Rest) /\ Finish(o).fn \notin {"AutoLoop", "Rearm", "ManualLoop", "Arm"}
      BY <1>3, <2>2
    <3>2. ~AboutToCancel(o)
      BY <1>1, <1>3 DEF AboutToCancel, Cancel
    <3> HIDE DEF ready
    <3> QED  BY <1>4, <3>1, <3>2 DEF Staging
  <2>6. Stack(stack') /\ On(Rest) \subseteq On(stack')
    BY <1>4, <2>2 DEF Calm
  <2> HIDE DEF ready
  <2> QED  BY <1>1, <1>2, <1>3, <1>5, <2>3, <2>4, <2>5, <2>6, QuietCall
<1>7. CASE ready
  <2>1. PICK f : f = Rearm(o, claims[o], FALSE)
    OBVIOUS
  <2>2. f.fn = "Rearm" /\ f.op = o /\ f.todo = claims[o] /\ f.queued = FALSE /\ f \in Frames
    <3>1. claims[o] \in SUBSET Windows
      BY DEF Inv, Facts, Types, OpTypes
    <3> QED  BY <2>1, <3>1 DEF Rearm, Frames
  <2>3. Relies(Finish(o))
    BY <1>4 DEF Inv, CallInv
  <2>4. pending[o] = {} /\ phase[o] = "live" /\ JobsOf(o) = {}
    BY <1>3, <1>7, <2>3 DEF Relies
  <2>5. o \notin disarmed
    BY <1>1, <1>3, <2>4 DEF Inv, OpInv, AboutToCancel, Cancel
  <2>6. Relies(f)'
    <3>1. JobsOf(o)' = {} /\ f.todo = claims[o]
      BY <1>2, <2>2, <2>4 DEF JobsOf, Queue
    <3>2. \A w \in f.todo : AppOf[w] = AppOf[o]
      BY <2>2 DEF Inv, AutoInv
    <3> QED  BY <1>2, <2>2, <2>4, <2>5, <3>1, <3>2 DEF Relies
  <2>7. stack' = <<f>> \o Rest
    BY <1>1, <1>7, <2>1
  <2>8. Stack(stack') /\ On(stack') = {f} \cup On(Rest)
    <3>1. Fits(f, Rest)
      BY <2>2 DEF Fits, Nested
    <3> QED  BY <1>4, <2>7, <3>1, PushStack
  <2>9. InHands(o, stack')
    BY <2>2, <2>8 DEF InHands
  <2>10. timer \/ \A g \in On(stack') : g.fn # "ManualLoop"
    BY <1>3, <1>4, <2>2, <2>8 DEF Inv, CallInv
  <2> HIDE DEF ready
  <2> QED  BY <1>1, <1>2, <1>3, <1>5, <2>2, <2>4, <2>6, <2>8, <2>9, <2>10, QuietCall
<1> QED  BY <1>6, <1>7

LEMMA StartManualKeeps ==
    ASSUME Inv, NEW o \in ManualOps, NEW old \in SUBSET ManualOps, StartManualRestore(o, old)
    PROVE  Stack(stack') /\ Rules'
<1> DEFINE h == StartManual(o, old)
<1>1. /\ stack # <<>> /\ Head(stack) = h /\ o \in Ops /\ o \notin AutoOps
      /\ h.fn = "StartManual" /\ h.op = o /\ h.old = old
  BY EngineAssumption DEF StartManualRestore, Calling, Ops, StartManual
<1> HIDE DEF h
<1>2. /\ Calm(Rest) /\ On(stack) = {h} \cup On(Rest)
      /\ \A g \in On(Rest) : g.fn # "ManualLoop"
  <2>1. ~Nested(h)
    BY <1>1 DEF Nested
  <2> QED  BY <1>1, <2>1, PopStack DEF Inv, Facts, Rest
<1>3. phase[o] = "new" /\ o \notin old
  BY <1>1, <1>2 DEF Inv, CallInv, Relies
<1>4. JobsOf(o) = {}
  BY <1>3 DEF JobsOf, Inv, JobInv, Orphaned
<1>5. Staging(o) => Staging(o)' \/ h.op # o \/ On(stack') # On(Rest)
  BY <1>1, <1>2 DEF Staging, AboutToCancel, Cancel
<1>6. ASSUME NEW p \in old, CancelOperation(p, <<StartManual(o, old \ {p})>> \o Rest)
      PROVE  Stack(stack') /\ Rules'
  <2>1. PICK f : f = StartManual(o, old \ {p})
    OBVIOUS
  <2>2. /\ f \in Frames /\ f.fn = "StartManual" /\ f.op = o /\ o \notin f.old
        /\ p \in Ops /\ p # o
    BY <1>3, <2>1 DEF StartManual, Frames, Ops
  <2>3. Fits(f, Rest)
    BY <1>2, <2>2 DEF Fits
  <2>4. Stack(<<f>> \o Rest) /\ On(<<f>> \o Rest) = {f} \cup On(Rest)
    BY <1>2, <2>3, PushStack
  <2> QED  BY <1>1, <1>2, <1>3, <1>6, <2>1, <2>2, <2>4, CancelKeeps
<1>7. CASE /\ UNCHANGED <<queueVars, claims, outcome, wakeVars, disarmed>>
           /\ stack' = Rest /\ UNCHANGED <<phase, pending>>
  <2>1. UNCHANGED <<jobs, settling, guard>>
    BY <1>7 DEF queueVars
  <2>2. AutoInv'
    BY <1>7, SameAuto DEF Inv
  <2> QED  BY <1>1, <1>2, <1>3, <1>4, <1>7, <2>1, <2>2, QuietCall DEF Calm
<1>8. ASSUME NEW asked \in SUBSET Apps, NEW f \in {Finish(o), Cancel(o)},
             UNCHANGED <<queueVars, claims, outcome, wakeVars, disarmed>>,
             phase' = [phase EXCEPT ![o] = "live"],
             pending' = [pending EXCEPT ![o] = asked], stack' = <<f>> \o Rest
      PROVE  Stack(stack') /\ Rules'
  <2>1. UNCHANGED <<jobs, settling, guard>>
    BY <1>8 DEF queueVars
  <2>2. /\ \A p \in Ops : p # o => phase'[p] = phase[p] /\ pending'[p] = pending[p]
        /\ phase'[o] = "live"
    BY <1>1, <1>8 DEF Inv, Facts, Types, OpTypes
  <2>3. AutoInv'
    <3>1. \A p \in AutoOps : phase'[p] = phase[p] /\ pending'[p] = pending[p]
      BY <1>1, <2>2 DEF Ops
    <3> QED  BY <1>8, <3>1 DEF Inv, AutoInv
  <2>4. f \in Frames /\ f.op = o /\ f.fn \in {"Finish", "Cancel"}
    BY <1>1 DEF Frames, Finish, Cancel
  <2>5. Fits(f, Rest)
    BY <1>2, <2>4 DEF Fits
  <2>6. Stack(stack') /\ On(stack') = {f} \cup On(Rest)
    BY <1>2, <1>8, <2>5, PushStack
  <2>7. InHands(o, stack') /\ Relies(f)'
    BY <1>1, <2>4, <2>6 DEF InHands, Relies
  <2> QED  BY <1>1, <1>2, <1>3, <1>4, <1>8, <2>1, <2>2, <2>3, <2>4, <2>6, <2>7, QuietCall
<1> QED  BY <1>6, <1>7, <1>8 DEF StartManualRestore

\* A new job changes no other.
LEMMA QueuedIs ==
    ASSUME QInv, JobInv, NEW o \in Ops, NEW w \in Windows, jobs' = Enqueue(o, w)
    PROVE  /\ Keeps({}) /\ OneNew(o, w) /\ NoneAsked
           /\ \A k \in Queue : jobs'[k] = jobs[k]
           /\ \A p \in Ops : p # o => JobsOf(p)' = JobsOf(p)
           /\ JobsOf(o)' = JobsOf(o) \cup {nextJob} /\ nextJob \notin JobsOf(o)
<1>1. nextJob \notin Queue
  BY DEF QInv, QueueInv, Typed, Queue
<1>2. /\ DOMAIN jobs' = Queue \cup {nextJob} /\ jobs'[nextJob] = NewJob(o, w)
      /\ \A k \in Queue : jobs'[k] = jobs[k]
  BY <1>1 DEF Enqueue
<1>3. Keeps({}) /\ OneNew(o, w)
  BY <1>1, <1>2, JobCarries DEF Keeps, OneNew
<1>4. NoneAsked
  BY <1>2, NewJobIs DEF NoneAsked
<1>5. NewJob(o, w).op = o
  BY NewJobIs
<1> QED  BY <1>1, <1>2, <1>3, <1>4, <1>5 DEF JobsOf, Queue

\* Queueing a move of an automatic restore.
LEMMA QueueAutoKeeps ==
    ASSUME Inv, stack # <<>>, NEW o \in AutoOps, NEW w \in Windows, QueueAutoMove(o, w),
           Head(stack).fn \in {"AutoLoop", "Rearm"}, Head(stack).op = o,
           w \in Head(stack).todo,
           NEW f \in Frames, f.fn = Head(stack).fn, f.op = o,
           f.todo \subseteq Head(stack).todo, f.fn = "Rearm" => f.queued = TRUE,
           stack' = <<f>> \o Rest, claims'[o] \subseteq claims[o],
           \A p \in AutoOps : p # o => claims'[p] = claims[p],
           UNCHANGED <<phase, pending, outcome, disarmed>>, UNCHANGED wakeVars
    PROVE  Stack(stack') /\ Rules'
<1> DEFINE h == Head(stack)
<1>1. /\ Calm(Rest) /\ On(stack) = {h} \cup On(Rest) /\ Relies(h)
      /\ Nested(h) \/ \A g \in On(Rest) : g.fn # "ManualLoop"
      /\ \A g \in On(Rest) : g \in Frames /\ ~Running(g) /\ Relies(g)
  <2>1. \A g \in On(Rest) : g \in Frames
    BY PopStack DEF Inv, Facts, Rest, Calm, Stack, On
  <2> QED  BY <2>1, PopStack DEF Inv, Facts, Rest, Calm, CallInv
<1>2. Stack(stack') /\ On(stack') = {f} \cup On(Rest)
  <2>1. Nested(h) <=> Nested(f)
    BY DEF Nested
  <2>2. Fits(f, Rest)
    BY <1>1, <2>1 DEF Fits
  <2> QED  BY <1>1, <2>2, PushStack
<1>3. /\ o \in Ops /\ guard[w] = NoGuard /\ jobs' = Enqueue(o, w)
      /\ guard' = [guard EXCEPT ![w] = nextJob] /\ UNCHANGED settling
      /\ UNCHANGED <<timer, cancelPending, retry, msgs>>
  BY DEF QueueAutoMove, Ops, wakeVars
<1>4. /\ Keeps({}) /\ OneNew(o, w) /\ NoneAsked
      /\ \A k \in Queue : jobs'[k] = jobs[k]
      /\ \A p \in Ops : p # o => JobsOf(p)' = JobsOf(p)
      /\ JobsOf(o)' = JobsOf(o) \cup {nextJob}
  BY <1>3, QueuedIs DEF Inv, Facts
<1>5. /\ phase[o] = "live" /\ pending[o] = {} /\ AppOf[w] = AppOf[o]
      /\ \A v \in f.todo : AppOf[v] = AppOf[o]
  BY <1>1 DEF Relies
<1>6. JobInv'
  BY <1>3, <1>4, <1>5, JobStepNew DEF Inv, Facts
<1>7. AutoInv'
  BY DEF Inv, AutoInv
<1>8. \A p \in Ops : ~AboutToCancel(p)
  BY DEF AboutToCancel, Cancel
<1>9. \A p \in Ops : p # o /\ InHands(p, stack) => InHands(p, stack')
  BY <1>1, <1>2 DEF InHands, Cancel, Finish
<1>10. \A v \in Windows : guard[v] = Picker => guard'[v] = Picker
  <2>1. NoGuard # Picker /\ guard \in [Windows -> {NoGuard, Picker} \cup JobIds]
    BY EngineAssumption DEF Inv, Facts, QInv, QueueInv, Typed
  <2> QED  BY <1>3, <2>1
<1>11. OpInv'
  <2>1. \A p \in Ops : phase'[p] = "cancelling" => JobsOf(p)' # {}
    BY <1>4 DEF Inv, OpInv
  <2>2. \A p \in Ops : phase'[p] = "live" =>
            \/ pending'[p] # {} \/ JobsOf(p)' # {}
            \/ p \in AutoOps /\ \E v \in claims'[p] : guard'[v] = Picker
            \/ InHands(p, stack')
    <3> SUFFICES ASSUME NEW p \in Ops, p # o, phase'[p] = "live"
                 PROVE  \/ pending'[p] # {} \/ JobsOf(p)' # {}
                        \/ p \in AutoOps /\ \E v \in claims'[p] : guard'[v] = Picker
                        \/ InHands(p, stack')
      BY <1>4
    <3>1. p \in AutoOps => claims[p] \subseteq Windows
      BY DEF Inv, Facts, Types, OpTypes
    <3> QED  BY <1>4, <1>9, <1>10, <3>1 DEF Inv, OpInv
  <2>3. \A p \in AutoOps \cap disarmed' : phase'[p] = "live" =>
            \E j \in JobsOf(p)' : jobs'[j].armFail
    <3> SUFFICES ASSUME NEW p \in AutoOps, p \in disarmed, phase[p] = "live"
                 PROVE  \E j \in JobsOf(p)' : jobs'[j].armFail
      OBVIOUS
    <3>1. p \in Ops /\ JobsOf(p) \subseteq JobsOf(p)' /\ JobsOf(p) \subseteq Queue
      BY <1>4 DEF Ops, JobsOf
    <3>2. \E j \in JobsOf(p) : jobs[j].armFail
      BY <1>8, <3>1 DEF Inv, OpInv
    <3> QED  BY <1>4, <3>1, <3>2
  <2> QED  BY <2>1, <2>2, <2>3 DEF OpInv, InHands
<1>12. Relies(f)'
  <2>1. ASSUME f.fn = "Rearm"
        PROVE  /\ f.queued <=> (JobsOf(o)' # {})
               /\ \A j \in JobsOf(o)' : ~jobs'[j].awaiting
               /\ o \notin disarmed'
    <3>1. (\A j \in JobsOf(o) : ~jobs[j].awaiting) /\ o \notin disarmed
      BY <1>1, <2>1 DEF Relies
    <3>2. JobsOf(o) \subseteq Queue /\ ~jobs'[nextJob].awaiting
      BY <1>3, <1>4, NewJobIs DEF JobsOf, OneNew
    <3> QED  BY <1>4, <2>1, <3>1, <3>2
  <2> QED  BY <1>5, <2>1 DEF Relies
<1>13. CallInv'
  <2>1. ASSUME NEW g \in On(Rest)
        PROVE  Relies(g)'
    <3>1. g \in Frames /\ ~Running(g) /\ Relies(g)
      BY <1>1
    <3>2. g.fn = "ManualLoop" => g.op \in Ops /\ g.op # o
      BY <3>1, EngineAssumption DEF Frames, Ops
    <3>3. g.fn = "ManualLoop" =>
              /\ JobsOf(g.op)' \subseteq JobsOf(g.op)
              /\ \A j \in JobsOf(g.op)' : jobs'[j].win = jobs[j].win
      BY <1>4, <3>2 DEF JobsOf
    <3> QED  BY <1>3, <3>1, <3>3, RestRelies
  <2>2. \A k \in settling' : \E g \in On(stack') : g.fn = "Release" /\ g.job = k
    BY <1>1, <1>2, <1>3 DEF Inv, CallInv
  <2>3. \A g1, g2 \in On(stack') :
            g1.fn = "ManualLoop" /\ g2.fn \in {"Finish", "Rearm", "Arm"} => timer'
    BY <1>1, <1>2, <1>3 DEF Inv, CallInv
  <2>4. \A g \in On(stack') : g.fn # "Advance"
    BY <1>1, <1>2 DEF Running
  <2> QED  BY <1>2, <1>12, <2>1, <2>2, <2>3, <2>4 DEF CallInv
<1>14. SleepInv'
  <2>1. \A p \in Ops : Staging(p) => Staging(p)'
    BY <1>1, <1>2, <1>8 DEF Staging
  <2>2. \A k \in DOMAIN jobs' \ Queue : jobs'[k].op = o /\ ~jobs'[k].awaiting /\ Staging(o)'
    BY <1>2, <1>3, <1>4, NewJobIs DEF OneNew, Staging
  <2> QED  BY <1>3, <1>4, <2>1, <2>2, SleepStep DEF Inv, Facts
<1>15. RetryInv'
  <2>1. \A g \in On(stack) : g.fn \in {"ArmTail", "RetryDone"} => g \in On(stack')
    BY <1>1, <1>2
  <2> QED  BY <1>4, <2>1, RetrySame DEF Inv
<1> QED  BY <1>2, <1>6, <1>7, <1>11, <1>13, <1>14, <1>15 DEF Rules

\* A call about an automatic restore that puts another in its place and leaves
\* the restore as it is, but for claims that it has dealt with.
LEMMA SwapAuto ==
    ASSUME Inv, stack # <<>>, NEW o \in AutoOps, Head(stack).op = o,
           Head(stack).fn \in {"Rearm", "AutoLoop"},
           NEW f \in Frames, ~(f.fn = "Advance") /\ f.fn # "ManualLoop", Relies(f)',
           stack' = <<f>> \o Rest, UNCHANGED <<queueVars, phase, pending, outcome, disarmed>>,
           UNCHANGED wakeVars, claims'[o] \subseteq claims[o],
           \A p \in AutoOps : p # o => claims'[p] = claims[p],
           JobsOf(o) # {} \/ InHands(o, <<f>>),
           JobsOf(o) # {} => \/ f.fn = "Arm"
                             \/ f.fn \in {"Rearm", "AutoLoop"} /\ f.op = o
                             \/ f = Cancel(o),
           Nested(Head(stack)) => Nested(f),
           f.fn \in {"Finish", "Rearm", "Arm"} =>
              Head(stack).fn = "Rearm" \/ ~Nested(Head(stack))
    PROVE  Stack(stack') /\ Rules'
<1> DEFINE h == Head(stack)
<1>1. /\ Calm(Rest) /\ On(stack) = {h} \cup On(Rest) /\ Relies(h) /\ o \in Ops
      /\ Nested(h) \/ \A g \in On(Rest) : g.fn # "ManualLoop"
  BY PopStack DEF Inv, Facts, Rest, CallInv, Ops
<1>2. /\ Stack(stack') /\ On(stack') = {f} \cup On(Rest)
      /\ stack' # <<>> /\ Head(stack') = f
  <2>1. Fits(f, Rest)
    BY <1>1 DEF Fits
  <2> QED  BY <1>1, <2>1, PushStack
<1>3. UNCHANGED <<jobs, settling, guard>>
  BY DEF queueVars
<1>4. AutoInv'
  BY <1>3 DEF Inv, AutoInv
<1>5. JobsOf(o) # {} \/ InHands(o, stack')
  <2>1. On(<<f>>) = {f}
    BY OneCall
  <2> QED  BY <1>2, <2>1 DEF InHands
<1>6. phase[o] = "live"
  BY <1>1 DEF Relies
<1>7. JobsOf(o) # {} => Staging(o)'
  BY <1>2, <1>6 DEF Staging, AboutToCancel
<1>8. f.fn \in {"Finish", "Rearm", "Arm"} =>
          timer \/ \A g \in On(stack') : g.fn # "ManualLoop"
  BY <1>1, <1>2 DEF Inv, CallInv
<1> QED  BY <1>1, <1>2, <1>3, <1>4, <1>5, <1>7, <1>8, QuietCall

LEMMA AutoLoopKeeps ==
    ASSUME Inv, NEW o \in AutoOps, NEW todo \in SUBSET Windows, AutoPlanLoop(o, todo)
    PROVE  Stack(stack') /\ Rules'
<1>1. /\ stack # <<>> /\ Head(stack) = AutoLoop(o, todo) /\ o \in Ops
      /\ UNCHANGED <<phase, pending, claims, outcome, wakeVars, disarmed>>
  BY DEF AutoPlanLoop, Calling, Ops
<1>2. /\ Head(stack).fn = "AutoLoop" /\ Head(stack).op = o /\ Head(stack).todo = todo
      /\ ~Nested(Head(stack))
  BY <1>1 DEF AutoLoop, Nested
<1>3. /\ phase[o] = "live" /\ pending[o] = {}
      /\ \A w \in todo : AppOf[w] = AppOf[o]
  <2>1. Relies(Head(stack))
    BY <1>1, PopStack DEF Inv, Facts, CallInv
  <2> QED  BY <1>2, <2>1 DEF Relies
<1>4. CASE /\ stack' = <<IF JobsOf(o) = {} THEN Finish(o) ELSE Arm(NoOp)>> \o Rest
           /\ UNCHANGED queueVars
  <2>1. CASE JobsOf(o) = {}
    <3>1. PICK f : f = Finish(o)
      OBVIOUS
    <3>2. f \in Frames /\ f.fn = "Finish" /\ f.op = o
      BY <1>1, <3>1 DEF Finish, Frames
    <3>3. Relies(f)' /\ InHands(o, <<f>>)
      BY <1>1, <1>3, <3>1, <3>2, OneCall DEF Relies, InHands
    <3> QED  BY <1>1, <1>2, <1>4, <2>1, <3>1, <3>2, <3>3, SwapAuto
  <2>2. CASE JobsOf(o) # {}
    <3>1. PICK f : f = Arm(NoOp)
      OBVIOUS
    <3>2. f \in Frames /\ f.fn = "Arm"
      BY <3>1 DEF Arm, Frames
    <3>3. Relies(f)'
      BY <3>2 DEF Relies
    <3> QED  BY <1>1, <1>2, <1>4, <2>2, <3>1, <3>2, <3>3, SwapAuto
  <2> QED  BY <2>1, <2>2
<1>5. ASSUME NEW w \in todo, stack' = <<AutoLoop(o, todo \ {w})>> \o Rest,
             UNCHANGED queueVars \/ QueueAutoMove(o, w)
      PROVE  Stack(stack') /\ Rules'
  <2>1. PICK f : f = AutoLoop(o, todo \ {w})
    OBVIOUS
  <2>2. f \in Frames /\ f.fn = "AutoLoop" /\ f.op = o /\ f.todo \subseteq todo
    BY <2>1 DEF AutoLoop, Frames
  <2>3. CASE UNCHANGED queueVars
    <3>1. Relies(f)' /\ InHands(o, <<f>>)
      BY <1>1, <1>3, <2>2, OneCall DEF Relies, InHands
    <3> QED  BY <1>1, <1>2, <1>5, <2>1, <2>2, <2>3, <3>1, SwapAuto
  <2>4. CASE QueueAutoMove(o, w)
    BY <1>1, <1>2, <1>5, <2>1, <2>2, <2>4, QueueAutoKeeps
  <2> QED  BY <1>5, <2>3, <2>4
<1> QED  BY <1>4, <1>5 DEF AutoPlanLoop

LEMMA RearmKeeps ==
    ASSUME Inv, NEW o \in AutoOps, NEW todo \in SUBSET Windows, NEW queued \in BOOLEAN,
           RearmPickerClaims(o, todo, queued)
    PROVE  Stack(stack') /\ Rules'
<1>1. /\ stack # <<>> /\ Head(stack) = Rearm(o, todo, queued) /\ o \in Ops
      /\ UNCHANGED <<pending, wakeVars, disarmed>>
  BY DEF RearmPickerClaims, Calling, Ops
<1>2. /\ Head(stack).fn = "Rearm" /\ Head(stack).op = o /\ Head(stack).todo = todo
      /\ Head(stack).queued = queued /\ Nested(Head(stack))
  BY <1>1 DEF Rearm, Nested
<1>3. /\ phase[o] = "live" /\ pending[o] = {}
      /\ \A w \in todo : AppOf[w] = AppOf[o]
      /\ queued <=> (JobsOf(o) # {})
      /\ \A j \in JobsOf(o) : ~jobs[j].awaiting
      /\ o \notin disarmed
  <2>1. Relies(Head(stack))
    BY <1>1, PopStack DEF Inv, Facts, CallInv
  <2> QED  BY <1>2, <2>1 DEF Relies
<1>4. CASE /\ todo = {} /\ queued /\ stack' = <<Arm(o)>> \o Rest
           /\ UNCHANGED <<queueVars, phase, claims, outcome>>
  <2>1. PICK f : f = Arm(o)
    OBVIOUS
  <2>2. f \in Frames /\ f.fn = "Arm" /\ Nested(f)
    BY <2>1 DEF Arm, Frames, Nested
  <2>3. Relies(f)'
    BY <2>2 DEF Relies
  <2> QED  BY <1>1, <1>2, <1>3, <1>4, <2>1, <2>2, <2>3, SwapAuto
<1>5. CASE /\ todo # {} /\ stack' = <<Cancel(o)>> \o Rest
           /\ UNCHANGED <<queueVars, phase, claims, outcome>>
  <2>1. PICK f : f = Cancel(o)
    OBVIOUS
  <2>2. f \in Frames /\ f.fn = "Cancel" /\ Nested(f)
    BY <1>1, <2>1 DEF Cancel, Frames, Nested
  <2>3. Relies(f)' /\ InHands(o, <<f>>)
    BY <2>1, <2>2, OneCall DEF Relies, InHands
  <2> QED  BY <1>1, <1>2, <1>3, <1>5, <2>1, <2>2, <2>3, SwapAuto
<1>6. CASE /\ todo = {} /\ ~queued /\ CompleteAutoOperation(o)
           /\ stack' = Rest /\ UNCHANGED queueVars
  <2>1. /\ \A p \in Ops : p # o => phase'[p] = phase[p]
        /\ phase'[o] = "gone" /\ claims'[o] = {} /\ outcome'[o] # "none"
        /\ \A p \in AutoOps : p # o => claims'[p] = claims[p] /\ outcome'[p] = outcome[p]
    BY <1>1, <1>6 DEF CompleteAutoOperation, Inv, Facts, Types, OpTypes
  <2>2. UNCHANGED <<jobs, settling, guard>> /\ JobsOf(o) = {}
    BY <1>3, <1>6 DEF queueVars
  <2>3. AutoInv'
    <3>1. \A p \in AutoOps : p \in Ops
      BY DEF Ops
    <3> QED  BY <1>1, <1>3, <2>1, <3>1 DEF Inv, AutoInv
  <2>4. Calm(Rest)
    BY <1>1, PopStack DEF Inv, Facts, Rest
  <2> QED  BY <1>1, <1>2, <1>3, <1>6, <2>1, <2>2, <2>3, <2>4, QuietCall DEF Calm
<1>7. ASSUME NEW w \in todo, NEW more \in BOOLEAN,
             stack' = <<Rearm(o, todo \ {w}, more)>> \o Rest,
             UNCHANGED <<phase, outcome>>,
             claims' = claims \/ claims' = [claims EXCEPT ![o] = @ \ {w}],
             \/ UNCHANGED queueVars /\ more = queued
             \/ QueueAutoMove(o, w) /\ more = TRUE
      PROVE  Stack(stack') /\ Rules'
  <2>1. PICK f : f = Rearm(o, todo \ {w}, more)
    OBVIOUS
  <2>2. /\ f \in Frames /\ f.fn = "Rearm" /\ f.op = o /\ f.todo \subseteq todo
        /\ f.queued = more /\ Nested(f)
    BY <2>1 DEF Rearm, Frames, Nested
  <2>3. claims'[o] \subseteq claims[o] /\ \A p \in AutoOps : p # o => claims'[p] = claims[p]
    BY <1>7 DEF Inv, Facts, Types, OpTypes
  <2>4. CASE UNCHANGED queueVars /\ more = queued
    <3>1. JobsOf(o)' = JobsOf(o) /\ jobs' = jobs
      BY <2>4 DEF JobsOf, Queue, queueVars
    <3>2. Relies(f)'
      BY <1>1, <1>3, <1>7, <2>2, <2>4, <3>1 DEF Relies
    <3>3. InHands(o, <<f>>)
      BY <2>2, OneCall DEF InHands
    <3> QED  BY <1>1, <1>2, <1>7, <2>1, <2>2, <2>3, <2>4, <3>2, <3>3, SwapAuto
  <2>5. CASE QueueAutoMove(o, w) /\ more = TRUE
    BY <1>1, <1>2, <1>7, <2>1, <2>2, <2>3, <2>5, QueueAutoKeeps
  <2> QED  BY <1>7, <2>4, <2>5
<1> QED  BY <1>4, <1>5, <1>6, <1>7 DEF RearmPickerClaims

\* The loop over a manual plan, but for the moves it queues.
LEMMA ManualLoopKeeps ==
    ASSUME Inv, NEW o \in ManualOps, NEW todo \in SUBSET Windows,
           Calling(ManualLoop(o, todo)),
           UNCHANGED <<queueVars, phase, pending, claims, outcome, disarmed>>, UNCHANGED wakeVars,
           \/ /\ todo = {}
              /\ \E arms \in IF phase[o] = "gone" THEN BOOLEAN ELSE {JobsOf(o) # {}} :
                    stack' = (IF arms THEN <<Arm(NoOp)>> ELSE <<>>) \o <<Finish(o)>> \o Rest
           \/ \E w \in todo : stack' = <<ManualLoop(o, todo \ {w})>> \o Rest
    PROVE  Stack(stack') /\ Rules'
<1> DEFINE h == Head(stack)
<1>1. /\ stack # <<>> /\ h = ManualLoop(o, todo) /\ o \in Ops /\ o \notin AutoOps
      /\ h.fn = "ManualLoop" /\ h.op = o /\ h.todo = todo
  BY EngineAssumption DEF Calling, Ops, ManualLoop
<1>2. Rest = <<>> /\ On(Rest) = {} /\ Relies(h)
  BY <1>1, PopStack, EmptyStack DEF Inv, Facts, Rest, CallInv
<1>3. /\ phase[o] = "live" \/ (Orphaned(o) /\ timer)
      /\ \A w \in todo : AppOf[w] \notin pending[o]
      /\ \A j \in JobsOf(o) : jobs[j].win \notin todo
  BY <1>1, <1>2 DEF Relies
<1>4. UNCHANGED <<jobs, settling, guard>>
  BY DEF queueVars
<1>5. AutoInv' /\ JobsOf(o)' = JobsOf(o)
  BY <1>4, SameAuto DEF Inv, JobsOf, Queue
<1>6. ASSUME NEW w \in todo, stack' = <<ManualLoop(o, todo \ {w})>> \o Rest
      PROVE  Stack(stack') /\ Rules'
  <2>1. PICK f : f = ManualLoop(o, todo \ {w})
    OBVIOUS
  <2>2. f \in Frames /\ f.fn = "ManualLoop" /\ f.op = o /\ f.todo = todo \ {w}
    BY <2>1 DEF ManualLoop, Frames
  <2>3. Relies(f)'
    BY <1>3, <1>4, <1>5, <2>2 DEF Relies, Orphaned, wakeVars
  <2>4. stack' = <<f>>
    BY <1>2, <1>6, <2>1, <2>2
  <2>5. Stack(stack') /\ On(stack') = {f}
    BY <2>2, <2>4, OneCall
  <2>6. InHands(o, stack') /\ Staging(o)'
    BY <2>2, <2>5 DEF InHands, Staging
  <2> QED  BY <1>1, <1>2, <1>4, <1>5, <2>2, <2>3, <2>5, <2>6, QuietCall
<1>7. ASSUME NEW arms \in BOOLEAN, phase[o] # "gone" => arms = (JobsOf(o) # {}),
             stack' = (IF arms THEN <<Arm(NoOp)>> ELSE <<>>) \o <<Finish(o)>> \o Rest
      PROVE  Stack(stack') /\ Rules'
  <2>1. Finish(o) \in Frames /\ Finish(o).fn = "Finish" /\ Finish(o).op = o
    BY <1>1 DEF Finish, Frames
  <2>2. Arm(NoOp) \in Frames /\ Arm(NoOp).fn = "Arm"
    BY DEF Arm, Frames
  <2>3. /\ Stack(stack') /\ Finish(o) \in On(stack')
        /\ On(stack') \subseteq {Finish(o), Arm(NoOp)}
        /\ arms => Arm(NoOp) \in On(stack')
    <3>1. Stack(<<Finish(o)>>) /\ Calm(<<Finish(o)>>) /\ On(<<Finish(o)>>) = {Finish(o)}
      BY <2>1, OneCall DEF Running
    <3>2. CASE ~arms
      <4>1. stack' = <<Finish(o)>>
        BY <1>2, <1>7, <3>2
      <4> QED  BY <3>1, <3>2, <4>1
    <3>3. CASE arms
      <4>1. stack' = <<Arm(NoOp)>> \o <<Finish(o)>>
        BY <1>2, <1>7, <3>3
      <4>2. Fits(Arm(NoOp), <<Finish(o)>>)
        BY <2>1, <2>2, <3>1 DEF Fits
      <4> QED  BY <3>1, <4>1, <4>2, PushStack
    <3> QED  BY <3>2, <3>3
  <2>4. InHands(o, stack')
    BY <2>3 DEF InHands
  <2>5. ~timer /\ JobsOf(o) # {} => Staging(o)'
    BY <1>3, <1>7, <2>2, <2>3 DEF Staging, Orphaned
  <2>6. \A f \in On(stack') : Relies(f)' /\ f.fn \in {"Finish", "Arm"}
    <3>1. PICK f, g : f = Finish(o) /\ g = Arm(NoOp)
      OBVIOUS
    <3>2. Relies(f)' /\ Relies(g)'
      BY <1>1, <2>1, <2>2, <3>1 DEF Relies
    <3> QED  BY <2>1, <2>2, <2>3, <3>1, <3>2
  <2>7. \A g \in On(stack') : g.fn # "ManualLoop"
    BY <2>6
  <2> QED  BY <1>1, <1>2, <1>4, <1>5, <2>3, <2>4, <2>5, <2>6, <2>7, QuietCall
<1> QED  BY <1>6, <1>7

-----------------------------------------------------------------------------
(* Cancelling a job on behalf of somebody else. *)

LEMMA CancelNowIs ==
    ASSUME NEW base, NEW held, NEW j, NEW rest, CancelNowOrDefer(base, held, j, rest)
    PROVE  \/ /\ jobs' = [k \in DOMAIN base \ {j} |-> base[k]]
              /\ DispatchMoveOwnerResult(held, j, "Cancelled", base[j].armFail, rest)
              /\ RefreshMoveCancellationPending /\ UNCHANGED <<timer, msgs>>
           \/ /\ jobs' = [base EXCEPT ![j].cancelReq = TRUE]
              /\ stack' = rest /\ guard' = held
              /\ UNCHANGED <<settling, heartbeatDeferred, phase, failed>>
              /\ RefreshAndScheduleRetry
BY DEF CancelNowOrDefer

\* The reservations a settled job leaves keep what the picker holds.
LEMMA SettlingGuards ==
    ASSUME QInv, NEW j \in Queue, NEW held, NEW terminal, NEW armFail, NEW rest,
           DispatchMoveOwnerResult(held, j, terminal, armFail, rest), NEW v \in Windows,
           held \in [Windows -> {NoGuard, Picker} \cup JobIds],
           held[v] = Picker
    PROVE  guard'[v] = Picker
<1>1. j # Picker
  BY EngineAssumption DEF QInv, QueueInv, Typed, Queue
<1> QED  BY <1>1, OwnerReleases DEF ReleasesOrSettles, Released

\* What a settled job means to the operations of the others.
LEMMA SettlesOthers ==
    ASSUME Inv, NEW j \in Queue, NEW restarts, NEW rest, Settles(j, restarts, rest)
    PROVE  /\ \A k \in Queue \ {j} : phase'[jobs[k].op] = phase[jobs[k].op]
           /\ \A p \in AutoOps : \/ phase'[p] = phase[p]
                                 \/ phase[p] = "cancelling" /\ phase'[p] = "gone"
           /\ jobs[j].op \in AutoOps => pending[jobs[j].op] = {} /\ phase'[jobs[j].op] # "new"
<1> DEFINE o == jobs[j].op
<1>1. SettlesPhase(j, o)
  BY DEF Settles
<1>2. \A k \in Queue \ {j} : phase'[jobs[k].op] = phase[jobs[k].op]
  <2> SUFFICES ASSUME NEW k \in Queue \ {j}
               PROVE  phase'[jobs[k].op] = phase[jobs[k].op]
    OBVIOUS
  <2>1. jobs[k].op \in Ops /\ k \in JobsOf(jobs[k].op)
    BY JobIsTyped DEF Job, JobsOf, Inv, Facts
  <2> QED  BY <1>1, <2>1 DEF SettlesPhase
<1>3. \A p \in AutoOps : \/ phase'[p] = phase[p]
                         \/ phase[p] = "cancelling" /\ phase'[p] = "gone"
  <2> SUFFICES ASSUME NEW p \in AutoOps, phase'[p] # phase[p]
               PROVE  phase[p] = "cancelling" /\ phase'[p] = "gone"
    OBVIOUS
  <2>1. p = o /\ phase'[o] = "gone" /\ ~Called(o)
    BY <1>1 DEF SettlesPhase, Ops
  <2>2. phase[o] \in {"live", "cancelling"}
    BY <2>1, OwnerWaits DEF Inv, Facts
  <2> QED  BY <2>1, <2>2 DEF Called
<1>4. o \in AutoOps => pending[o] = {} /\ phase'[o] # "new"
  <2> SUFFICES ASSUME o \in AutoOps
               PROVE  pending[o] = {} /\ phase'[o] # "new"
    OBVIOUS
  <2>1. pending[o] = {} /\ phase[o] # "new"
    BY OwnerWaits DEF Inv, Facts
  <2> QED  BY <1>3, <2>1
<1> QED  BY <1>2, <1>3, <1>4

\* The calls below a settled job, and the call its operation needs.
LEMMA SettlesRelies ==
    ASSUME Inv, NEW j \in Queue, NEW restarts, NEW rest, Settles(j, restarts, rest),
           \A f \in On(rest) : Relies(f)', pending' = pending,
           \A f, g \in On(rest) :
              f.fn = "ManualLoop" /\ g.fn \in {"Finish", "Rearm", "Arm"} => timer',
           \A f \in On(rest) : f.fn # "Advance",
           \A k \in settling : \E f \in On(rest) : f.fn = "Release" /\ f.job = k,
           restarts \/ timer' \/ ~Called(jobs[j].op) \/ \A f \in On(rest) : f.fn # "ManualLoop"
    PROVE  CallInv'
<1> DEFINE o == jobs[j].op
           call == OwnerCall(o, restarts)
<1>1. SettlesPhase(j, o) /\ SettlesCalls(call, o, rest)
  BY DEF Settles
<1>2. \A f \in On(stack') : \/ f \in On(rest) \/ f.fn = "Release"
                            \/ Called(o) /\ f = call
  BY <1>1 DEF SettlesCalls
<1>3. /\ call.op = o /\ call.fn \in {"Cancel", "Finish"}
      /\ call.fn = "Finish" => ~restarts
  BY DEF OwnerCall, Cancel, Finish
<1>4. Called(o) => pending'[o] = {} /\ phase'[o] # "new"
  BY SettlesOthers DEF Called
<1>5. ASSUME NEW f \in On(stack')
      PROVE  Relies(f)'
  <2>1. CASE f.fn = "Release"
    BY <2>1 DEF Relies
  <2>2. CASE Called(o) /\ f = call
    BY <1>3, <1>4, <2>2 DEF Relies
  <2> QED  BY <1>2, <2>1, <2>2
<1>6. \A k \in settling' : \E f \in On(stack') : f.fn = "Release" /\ f.job = k
  BY <1>1 DEF SettlesCalls
<1>7. \A f, g \in On(stack') :
          f.fn = "ManualLoop" /\ g.fn \in {"Finish", "Rearm", "Arm"} => timer'
  BY <1>2, <1>3
<1>8. \A f \in On(stack') : f.fn # "Advance"
  BY <1>2, <1>3
<1> QED  BY <1>5, <1>6, <1>7, <1>8 DEF CallInv

-----------------------------------------------------------------------------
(* Arming the timer. *)

\* The jobs as they are marked when the timer could not be set.
Untimed(r) == [r EXCEPT !.cancelReq = TRUE, !.armFail = TRUE]

LEMMA UntimedIs ==
    ASSUME NEW r \in Job
    PROVE  /\ Carries(r, Untimed(r)) /\ Untimed(r).cancelReq /\ Untimed(r).armFail
           /\ Carries(r, [Untimed(r) EXCEPT !.retire = TRUE])
           /\ [Untimed(r) EXCEPT !.retire = TRUE].cancelReq
           /\ [Untimed(r) EXCEPT !.retire = TRUE].armFail
BY DEF Carries, Untimed, Job

LEMMA ArmFailureKeeps ==
    ASSUME Inv, NEW o \in AutoOps \cup {NoOp}, Calling(Arm(o)), ArmFailure(o),
           UNCHANGED <<pending, claims, outcome>>
    PROVE  Stack(stack') /\ Rules'
<1> DEFINE marked == [j \in Queue |-> [jobs[j] EXCEPT !.cancelReq = TRUE, !.armFail = TRUE]]
           after == <<ArmTail>> \o (IF o = NoOp THEN <<>> ELSE <<Cancel(o)>>) \o Rest
<1>1. /\ stack # <<>> /\ Head(stack) = Arm(o) /\ Arm(o).fn = "Arm"
      /\ disarmed' = disarmed \cup {jobs[j].op : j \in Queue}
  BY DEF ArmFailure, Calling, Arm
<1>2. PICK j \in Queue :
          \/ /\ jobs' = Retiring(marked, j)
             /\ stack' = after
             /\ RefreshMoveCancellationPending
             /\ UNCHANGED <<guard, settling, heartbeatDeferred, phase, failed, timer, msgs>>
          \/ CancelNowOrDefer(marked, guard, j, after)
  BY DEF ArmFailure
<1>3. /\ Calm(Rest) /\ On(stack) = {Arm(o)} \cup On(Rest) /\ Rest \in Seq(Frames)
      /\ \A g \in On(Rest) : g \in Frames /\ ~Running(g) /\ Relies(g)
  <2>1. \A g \in On(Rest) : g \in Frames
    BY <1>1, PopStack DEF Inv, Facts, Rest, Calm, Stack, On
  <2> QED  BY <1>1, <2>1, PopStack DEF Inv, Facts, Rest, Calm, Stack, CallInv
<1>4. Calm(after) /\ On(Rest) \subseteq On(after) /\ ArmTail \in On(after)
      /\ On(after) \subseteq On(Rest) \cup {ArmTail, Cancel(o)}
  <2>1. ArmTail \in Frames /\ ArmTail.fn = "ArmTail" /\ Nested(ArmTail) /\ ~Running(ArmTail)
    BY DEF ArmTail, Frames, Nested, Running
  <2>2. CASE o = NoOp
    <3>1. after = <<ArmTail>> \o Rest
      BY <1>3, <2>2
    <3>2. Fits(ArmTail, Rest)
      BY <2>1 DEF Fits
    <3> HIDE DEF after
    <3> QED  BY <1>3, <2>1, <3>1, <3>2, PushStack
  <2>3. CASE o # NoOp
    <3>1. /\ Cancel(o) \in Frames /\ Cancel(o).fn = "Cancel" /\ Nested(Cancel(o))
          /\ ~Running(Cancel(o))
      BY <2>3 DEF Cancel, Frames, Ops, Nested, Running
    <3>2. Fits(Cancel(o), Rest)
      BY <3>1 DEF Fits
    <3> DEFINE t == <<Cancel(o)>> \o Rest
    <3>3. Calm(t) /\ On(t) = {Cancel(o)} \cup On(Rest)
      BY <1>3, <3>1, <3>2, PushStack
    <3>4. after = <<ArmTail>> \o t
      <4>1. <<ArmTail>> \in Seq(Frames) /\ <<Cancel(o)>> \in Seq(Frames)
        BY <2>1, <3>1
      <4> QED  BY <1>3, <2>3, <4>1, ConcatAssociative
    <3> HIDE DEF t, after
    <3>5. Fits(ArmTail, t)
      BY <2>1 DEF Fits
    <3> QED  BY <2>1, <3>3, <3>4, <3>5, PushStack
  <2> QED  BY <2>2, <2>3
<1> HIDE DEF after
<1>5. \A k \in Queue : marked[k] = Untimed(jobs[k]) /\ jobs[k] \in Job
  BY JobIsTyped DEF Untimed, Inv, Facts
<1>6. \A k \in Queue : jobs[k].op \in Ops /\ jobs[k].op \in disarmed'
                       /\ k \in JobsOf(jobs[k].op)
  BY <1>1, <1>5 DEF Job, JobsOf
<1>7. \A p \in disarmed' : p \in disarmed \/ \E k \in JobsOf(p) : TRUE
  BY <1>1, <1>6
<1>8. disarmed \subseteq disarmed'
  BY <1>1
<1>9. /\ \A p \in Ops : ~AboutToCancel(p)
      /\ \A p \in Ops : InHands(p, stack) => InHands(p, after)
  BY <1>1, <1>3, <1>4 DEF AboutToCancel, InHands, Cancel, Finish, Arm
<1>10. claims \in [AutoOps -> SUBSET Windows] /\ guard \in [Windows -> {NoGuard, Picker} \cup JobIds]
  BY DEF Inv, Facts, Types, OpTypes, QInv, QueueInv, Typed
<1>11. ASSUME NEW p \in AutoOps, p \in disarmed'
       PROVE  phase[p] # "new" /\ outcome[p] # "Success"
  <2>1. CASE p \in disarmed
    BY <1>11, <2>1 DEF Inv, AutoInv
  <2>2. ASSUME NEW k \in JobsOf(p)
        PROVE  phase[p] # "new" /\ outcome[p] # "Success"
    <3>1. k \in Queue /\ jobs[k].op = p
      BY DEF JobsOf
    <3>2. phase[p] \in {"live", "cancelling"}
      BY <3>1, OwnerWaits DEF Inv, Facts
    <3> QED  BY <3>2 DEF Inv, AutoInv
  <2> QED  BY <1>7, <1>11, <2>1, <2>2
<1>12. ASSUME \A p \in AutoOps : \/ phase'[p] = phase[p]
                                 \/ phase[p] = "cancelling" /\ phase'[p] = "gone"
       PROVE  AutoInv'
  <2>1. \A p \in AutoOps : outcome'[p] = "Success" => phase'[p] = "gone"
    BY <1>12 DEF Inv, AutoInv
  <2>2. \A p \in AutoOps : p \in disarmed' => phase'[p] # "new" /\ outcome'[p] # "Success"
    BY <1>11, <1>12
  <2> QED  BY <1>12, <2>1, <2>2 DEF Inv, AutoInv
<1>13. ASSUME NEW f \in On(Rest), timer => timer',
              \A p \in AutoOps : \/ phase'[p] = phase[p]
                                 \/ phase[p] = "cancelling" /\ phase'[p] = "gone",
              \A p \in ManualOps : JobsOf(p)' \subseteq JobsOf(p),
              \A p \in ManualOps : \A k \in JobsOf(p)' : jobs'[k].win = jobs[k].win,
              \A p \in ManualOps : \/ phase'[p] = phase[p]
                                   \/ phase'[p] = "gone" /\ p \in disarmed'
       PROVE  Relies(f)'
  <2>1. f \in Frames /\ ~Running(f) /\ Relies(f)
    BY <1>3
  <2>2. f.fn = "ManualLoop" => f.op \in ManualOps /\ timer'
    BY <1>1, <1>3, <1>13, <2>1 DEF Frames, Inv, CallInv
  <2>3. \A p \in AutoOps : pending[p] = {} /\ phase[p] # "new" =>
                                pending'[p] = {} /\ phase'[p] # "new"
    BY <1>13
  <2> QED  BY <1>8, <1>13, <2>1, <2>2, <2>3, RestRelies
<1>14. ASSUME \A k \in DOMAIN jobs' : jobs'[k].cancelReq /\ jobs'[k].armFail
       PROVE  SleepInv'
  BY <1>14 DEF SleepInv, Asleep, Queue
<1>15. ASSUME On(after) \subseteq On(stack')
       PROVE  /\ Retrying(stack')
              /\ \A f \in On(stack) : f.fn \in {"ArmTail", "RetryDone"} => f \in On(stack')
  BY <1>1, <1>3, <1>4, <1>15 DEF Retrying, ArmTail
<1>16. ASSUME UNCHANGED <<phase, guard, settling>>, stack' = after, timer => timer',
              RefreshAndScheduleRetry
              \/ (RefreshMoveCancellationPending /\ UNCHANGED <<timer, msgs>>),
              DOMAIN jobs' = Queue,
              \A k \in Queue : /\ Carries(jobs[k], jobs'[k])
                               /\ jobs'[k].cancelReq /\ jobs'[k].armFail
       PROVE  Stack(stack') /\ Rules'
  <2>1. Keeps({}) /\ NoneNew
    BY <1>16 DEF Keeps, NoneNew
  <2>2. JobInv'
    BY <1>8, <1>16, <2>1, JobStep DEF Inv, Facts
  <2>3. AutoInv'
    BY <1>12, <1>16
  <2>4. OpInv'
    <3>1. \A p \in AutoOps \cap disarmed' :
                p \in disarmed \/ \E k \in JobsOf(p) : jobs'[k].armFail
      BY <1>7, <1>16 DEF JobsOf
    <3>2. \A p \in AutoOps : ~AboutToCancel(p)
      BY <1>9 DEF Ops
    <3> QED  BY <1>9, <1>10, <1>16, <2>1, <3>1, <3>2, OpStep DEF Inv, Facts
  <2>5. CallInv'
    <3>1. \A p \in Ops : JobsOf(p)' = JobsOf(p)
      BY <1>16 DEF JobsOf, Queue, Carries
    <3>2. \A k \in Queue : jobs'[k].win = jobs[k].win
      BY <1>16 DEF Carries
    <3>3. ASSUME NEW f \in On(stack')
          PROVE  Relies(f)'
      <4>1. CASE f \in On(Rest)
        BY <1>13, <1>16, <3>1, <3>2, <4>1 DEF Ops, JobsOf
      <4>2. CASE f.fn \in {"ArmTail", "Cancel"}
        BY <4>2 DEF Relies
      <4> QED  BY <1>4, <1>16, <4>1, <4>2 DEF ArmTail, Cancel
    <3>4. \A k \in settling' : \E f \in On(stack') : f.fn = "Release" /\ f.job = k
      BY <1>1, <1>3, <1>4, <1>16 DEF Inv, CallInv
    <3>5. \A f, g \in On(stack') :
              f.fn = "ManualLoop" /\ g.fn \in {"Finish", "Rearm", "Arm"} => timer'
      BY <1>3, <1>4, <1>16 DEF Inv, CallInv, ArmTail, Cancel
    <3>6. \A f \in On(stack') : f.fn # "Advance"
      BY <1>3, <1>4, <1>16 DEF Running, ArmTail, Cancel
    <3> QED  BY <3>3, <3>4, <3>5, <3>6 DEF CallInv
  <2>6. SleepInv'
    BY <1>14, <1>16
  <2>7. RetryInv'
    BY <1>15, <1>16, RetrySchedule, RetryRefresh DEF Inv, Facts
  <2> QED  BY <1>4, <1>16, <2>2, <2>3, <2>4, <2>5, <2>6, <2>7 DEF Rules, Calm
<1>17. CASE /\ jobs' = Retiring(marked, j)
            /\ stack' = after
            /\ RefreshMoveCancellationPending
            /\ UNCHANGED <<guard, settling, heartbeatDeferred, phase, failed, timer, msgs>>
  <2>1. /\ DOMAIN jobs' = Queue
        /\ \A k \in Queue : jobs'[k] = IF k = j THEN [Untimed(jobs[j]) EXCEPT !.retire = TRUE]
                                                ELSE Untimed(jobs[k])
    BY <1>5, <1>17 DEF Retiring
  <2> HIDE DEF marked
  <2>2. \A k \in Queue : /\ Carries(jobs[k], jobs'[k])
                         /\ jobs'[k].cancelReq /\ jobs'[k].armFail
    <3> SUFFICES ASSUME NEW k \in Queue
                 PROVE  /\ Carries(jobs[k], jobs'[k])
                        /\ jobs'[k].cancelReq /\ jobs'[k].armFail
      OBVIOUS
    <3> QED  BY <1>5, <2>1, UntimedIs
  <2> QED  BY <1>16, <1>17, <2>1, <2>2
<1>18. CASE /\ jobs' = [marked EXCEPT ![j].cancelReq = TRUE]
            /\ stack' = after /\ guard' = guard
            /\ UNCHANGED <<settling, heartbeatDeferred, phase, failed>>
            /\ RefreshAndScheduleRetry
  <2>1. /\ DOMAIN jobs' = Queue
        /\ \A k \in Queue : jobs'[k] = IF k = j THEN [Untimed(jobs[j]) EXCEPT !.cancelReq = TRUE]
                                                ELSE Untimed(jobs[k])
    BY <1>5, <1>18
  <2>2. /\ Carries(jobs[j], [Untimed(jobs[j]) EXCEPT !.cancelReq = TRUE])
        /\ [Untimed(jobs[j]) EXCEPT !.cancelReq = TRUE].cancelReq
        /\ [Untimed(jobs[j]) EXCEPT !.cancelReq = TRUE].armFail
    BY <1>5 DEF Carries, Untimed, Job
  <2> HIDE DEF marked
  <2>3. \A k \in Queue : /\ Carries(jobs[k], jobs'[k])
                         /\ jobs'[k].cancelReq /\ jobs'[k].armFail
    <3> SUFFICES ASSUME NEW k \in Queue
                 PROVE  /\ Carries(jobs[k], jobs'[k])
                        /\ jobs'[k].cancelReq /\ jobs'[k].armFail
      OBVIOUS
    <3> QED  BY <1>5, <2>1, <2>2, UntimedIs
  <2>4. timer => timer'
    BY <1>18 DEF RefreshAndScheduleRetry
  <2> QED  BY <1>16, <1>18, <2>1, <2>3, <2>4
<1>19. CASE /\ jobs' = [k \in DOMAIN marked \ {j} |-> marked[k]]
            /\ DispatchMoveOwnerResult(guard, j, "Cancelled", marked[j].armFail, after)
            /\ RefreshMoveCancellationPending /\ UNCHANGED <<timer, msgs>>
  <2>1. /\ DOMAIN jobs' = Queue \ {j}
        /\ \A k \in Queue \ {j} : /\ Carries(jobs[k], jobs'[k])
                                  /\ jobs'[k].cancelReq /\ jobs'[k].armFail
    BY <1>5, <1>19, UntimedIs
  <2>2. Keeps({j}) /\ NoneNew
    BY <2>1 DEF Keeps, NoneNew
  <2>3. marked[j].armFail = TRUE
    BY <1>5, UntimedIs
  <2> HIDE DEF marked
  <2>4. Settles(j, TRUE, after)
    BY <1>4, <1>19, <2>3, SettlesJob DEF Restarts, Inv, Facts
  <2>5. /\ Stack(stack') /\ On(after) \subseteq On(stack') /\ SettlesPhase(j, jobs[j].op)
    BY <2>4 DEF Settles, SettlesCalls
  <2>6. /\ \A k \in Queue \ {j} : phase'[jobs[k].op] = phase[jobs[k].op]
        /\ \A p \in AutoOps : \/ phase'[p] = phase[p]
                              \/ phase[p] = "cancelling" /\ phase'[p] = "gone"
    BY <2>4, SettlesOthers
  <2>7. JobInv'
    BY <1>8, <2>2, <2>6, JobStep DEF Inv, Facts
  <2>8. AutoInv'
    BY <1>12, <2>6
  <2>9. OpInv'
    <3>1. \A p \in AutoOps \cap disarmed' :
                p \in disarmed \/ \E k \in JobsOf(p) : k = j \/ jobs'[k].armFail
      BY <1>7, <2>1 DEF JobsOf
    <3>2. \A p \in AutoOps : ~AboutToCancel(p)
      BY <1>9 DEF Ops
    <3>3. \A w \in Windows : guard[w] = Picker => guard'[w] = Picker
      BY <1>10, <1>19, SettlingGuards DEF Inv, Facts
    <3> QED  BY <1>9, <1>10, <2>2, <2>4, <3>1, <3>2, <3>3, OpEnd DEF Inv, Facts
  <2>10. CallInv'
    <3>1. /\ \A p \in Ops : JobsOf(p)' \subseteq JobsOf(p)
          /\ \A k \in DOMAIN jobs' : jobs'[k].win = jobs[k].win
      BY <2>1 DEF JobsOf, Queue, Carries
    <3>2. \A p \in ManualOps : phase'[p] = phase[p] \/ (phase'[p] = "gone" /\ p \in disarmed')
      BY <1>6, <2>5 DEF SettlesPhase, Ops
    <3>3. ASSUME NEW f \in On(after)
          PROVE  Relies(f)'
      <4>1. CASE f \in On(Rest)
        BY <1>13, <1>19, <2>6, <3>1, <3>2, <4>1 DEF Ops, JobsOf, Queue
      <4>2. CASE f.fn \in {"ArmTail", "Cancel"}
        BY <4>2 DEF Relies
      <4> QED  BY <1>4, <4>1, <4>2 DEF ArmTail, Cancel
    <3>4. \A k \in settling : \E f \in On(after) : f.fn = "Release" /\ f.job = k
      BY <1>1, <1>3, <1>4 DEF Inv, CallInv
    <3>5. \A f, g \in On(after) :
              f.fn = "ManualLoop" /\ g.fn \in {"Finish", "Rearm", "Arm"} => timer'
      BY <1>3, <1>4, <1>19 DEF Inv, CallInv, ArmTail, Cancel
    <3>6. \A f \in On(after) : f.fn # "Advance"
      BY <1>3, <1>4 DEF Running, ArmTail, Cancel
    <3> QED  BY <2>4, <3>3, <3>4, <3>5, <3>6, SettlesRelies
  <2>11. SleepInv'
    BY <1>14, <2>1
  <2>12. RetryInv'
    BY <1>15, <1>19, <2>5, RetryRefresh DEF Inv, Facts
  <2> QED  BY <2>5, <2>7, <2>8, <2>9, <2>10, <2>11, <2>12 DEF Rules
<1> QED  BY <1>2, <1>17, <1>18, <1>19, CancelNowIs

LEMMA ArmKeeps ==
    ASSUME Inv, NEW o \in AutoOps \cup {NoOp}, ArmMoveTimer(o)
    PROVE  Stack(stack') /\ Rules'
<1>1. CASE /\ Queue = {} \/ timer' = TRUE
           /\ stack' = Rest
           /\ Queue = {} => UNCHANGED timer
           /\ UNCHANGED <<jobs, guard, settling, phase, failed, heartbeatDeferred,
                          cancelPending, retry, msgs, disarmed>>
  <2>1. stack # <<>> /\ Head(stack) = Arm(o) /\ UNCHANGED <<pending, claims, outcome>>
    BY DEF ArmMoveTimer, Calling
  <2>2. Arm(o).fn = "Arm" /\ \A p \in Ops : Arm(o) # Finish(p)
    BY DEF Arm, Finish
  <2>3. timer => timer'
    BY <1>1
  <2>4. /\ Stack(stack') /\ JobInv' /\ AutoInv' /\ OpInv' /\ CallInv' /\ SleepInv'
        /\ NoneAsked
    BY <1>1, <2>1, <2>2, <2>3, PopKeeps
  <2>5. RetryInv'
    <3>1. On(stack) = {Arm(o)} \cup On(Rest)
      BY <2>1, PopStack DEF Inv, Facts, Rest
    <3> QED  BY <1>1, <2>2, <3>1 DEF RetryInv, Inv, Queue
  <2> QED  BY <2>4, <2>5 DEF Rules
<1> QED  BY <1>1, ArmFailureKeeps DEF ArmMoveTimer

-----------------------------------------------------------------------------
(* The picker takes a window. *)

LEMMA PickerTakesKeeps ==
    ASSUME Inv, NEW w \in Windows, BeginPickerAction(w)
    PROVE  Stack(stack') /\ Rules'
<1> DEFINE accepted == {o \in AutoOps : /\ AppOf[o] = AppOf[w]
                                        /\ phase[o] = "live" /\ pending[o] = {}}
           Grown(owners) == [o \in AutoOps |->
                IF o \in owners THEN claims[o] \cup {w} ELSE claims[o]]
           prior == guard[w]
           held == Installed(w, Picker)
<1>1. Idle /\ UNCHANGED <<nextJob, pending, outcome, lost, disarmed>>
  BY DEF BeginPickerAction
<1>2. /\ On(stack) = {} /\ settling = {}
      /\ \A o \in Ops : ~InHands(o, stack) /\ ~AboutToCancel(o) /\ (~timer => ~Staging(o))
  BY <1>1, IdleIs
<1>3. /\ held \in [Windows -> {NoGuard, Picker} \cup JobIds]
      /\ \A v \in Windows : held[v] = IF v = w THEN Picker ELSE guard[v]
  BY DEF Installed, Inv, Facts, QInv, QueueInv, Typed
<1>4. claims \in [AutoOps -> SUBSET Windows]
  BY DEF Inv, Facts, Types, OpTypes
<1>5. ASSUME NEW owners \in SUBSET AutoOps, claims' = Grown(owners)
      PROVE  \A o \in AutoOps : claims[o] \subseteq claims'[o] /\ claims'[o] \subseteq claims[o] \cup {w}
  BY <1>5
<1>6. CASE /\ prior = NoGuard
           /\ \E owners \in {{}, accepted} : claims' = Grown(owners)
           /\ guard' = held
           /\ UNCHANGED <<jobs, settling, phase, failed, heartbeatDeferred, wakeVars, stack>>
  <2>1. PICK owners \in {{}, accepted} : claims' = Grown(owners)
    BY <1>6
  <2>2. AutoInv'
    <3>1. \A o \in owners : AppOf[o] = AppOf[w] /\ phase[o] = "live" /\ pending[o] = {}
      OBVIOUS
    <3> QED  BY <1>1, <1>6, <2>1, <3>1 DEF Inv, AutoInv
  <2>3. \A o \in AutoOps : claims[o] \subseteq claims'[o]
    BY <1>5, <2>1
  <2>4. \A o \in Ops : phase'[o] = "live" =>
              \/ pending'[o] # {} \/ JobsOf(o) # {}
              \/ o \in AutoOps /\ \E v \in claims'[o] : guard'[v] = Picker
    BY <1>1, <1>2, <1>3, <1>4, <1>6, <2>3 DEF Inv, OpInv
  <2>5. Stack(stack') /\ On(stack') = {}
    BY <1>2, <1>6 DEF Inv, Facts
  <2> HIDE DEF accepted, Grown, held, prior
  <2> QED  BY <1>1, <1>6, <2>2, <2>4, <2>5, QuietMessage
<1>7. CASE /\ prior \in Queue /\ PickerMaySupersede(prior)
           /\ claims' = Grown({jobs[prior].op})
           /\ CancelNowOrDefer(jobs, held, prior, <<>>)
  <2>1. PICK j \in Queue : j = prior
    BY <1>7
  <2> DEFINE o == jobs[j].op
  <2>2. /\ o \in AutoOps /\ o \in Ops /\ ~jobs[j].cancelReq /\ ~jobs[j].retire
        /\ ~jobs[j].armFail /\ jobs[j].armFail \in BOOLEAN
        /\ jobs[j].win = w /\ j \in JobIds
    <3>1. jobs[j] \in Job
      BY JobIsTyped DEF Inv, Facts
    <3>2. j \in JobIds
      <4>1. j \in 1..(nextJob - 1) /\ nextJob \in 1..(MaxJobs + 1)
        BY DEF Inv, Facts, QInv, QueueInv, Typed, Queue
      <4> QED  BY <4>1, EngineAssumption DEF JobIds
    <3>3. jobs[j].win = w
      BY <2>1, <3>2 DEF Inv, Facts, QInv, QueueInv, Leaks, Typed, Queue
    <3> QED  BY <1>7, <2>1, <3>1, <3>2, <3>3 DEF PickerMaySupersede, Job, Inv, JobInv, Ops
  <2>3. /\ phase[o] = "live" /\ pending[o] = {} /\ AppOf[w] = AppOf[o]
    <3>1. Wants(jobs[j])
      BY <2>2 DEF Wants
    <3>2. pending[o] = {} /\ phase[o] \in {"live", "cancelling"}
      BY <2>2, OwnerWaits DEF Inv, Facts
    <3>3. JobInv
      BY DEF Inv
    <3>4. AppOf[w] = AppOf[o]
      BY <2>2, <3>3 DEF JobInv
    <3>5. phase[o] = "live"
      BY <3>1, <3>2, <3>3 DEF JobInv, Orphaned
    <3> QED  BY <3>2, <3>4, <3>5
  <2>4. timer
    BY <1>2, <2>1, <2>2, <2>3 DEF Inv, SleepInv, Asleep
  <2>5. \A p \in AutoOps : /\ claims[p] \subseteq claims'[p]
                           /\ claims'[p] # claims[p] => p = o
                           /\ claims'[p] \subseteq claims[p] \cup {w}
    BY <1>7, <2>1
  <2>6. ASSUME \A p \in AutoOps : \/ phase'[p] = phase[p]
                                  \/ phase[p] = "cancelling" /\ phase'[p] = "gone"
        PROVE  AutoInv'
    <3>1. \A p \in AutoOps : \A v \in claims'[p] : AppOf[v] = AppOf[p]
      BY <2>3, <2>5 DEF Inv, AutoInv
    <3>2. \A p \in AutoOps : claims'[p] # {} => phase'[p] # "new" /\ pending'[p] = {}
      BY <1>1, <2>3, <2>5, <2>6 DEF Inv, AutoInv
    <3> HIDE DEF Grown, held, prior, o
    <3> QED  BY <1>1, <2>6, <3>1, <3>2 DEF Inv, AutoInv
  <2>7. \A v \in Windows : guard[v] = Picker => held[v] = Picker
    BY <1>3
  <2>8. CASE /\ jobs' = [jobs EXCEPT ![j].cancelReq = TRUE]
             /\ stack' = <<>> /\ guard' = held
             /\ UNCHANGED <<settling, heartbeatDeferred, phase, failed>>
             /\ RefreshAndScheduleRetry
    <3> HIDE DEF Grown, held, prior, o
    <3>1. jobs[j] \in Job /\ jobs \in [Queue -> Job] /\ Carries(jobs[j], jobs[j])
      BY JobIsTyped, JobCarries DEF Inv, Facts, QInv, QueueInv, Typed, Queue
    <3>2. Keeps({}) /\ NoneNew
      <4>1. jobs' = Update(j, [jobs[j] EXCEPT !.cancelReq = TRUE])
        BY <2>8, <3>1 DEF Update
      <4>2. Carries(jobs[j], [jobs[j] EXCEPT !.cancelReq = TRUE])
        BY <3>1 DEF Carries, Job
      <4> QED  BY <4>1, <4>2, UpdateCarries DEF Inv, Facts, NoneNew
    <3>3. stack' = stack /\ timer'
      BY <1>1, <2>4, <2>8 DEF Idle, RefreshAndScheduleRetry
    <3>4. JobInv' /\ AutoInv'
      BY <1>1, <2>6, <2>8, <3>2, JobStep DEF Inv, Facts
    <3>5. OpInv'
      BY <1>1, <1>2, <1>4, <2>5, <2>7, <2>8, <3>2, <3>3, OpStep DEF Inv, Facts, Ops
    <3>6. CallInv'
      BY <1>2, <2>8, <3>3 DEF CallInv, Inv
    <3>7. SleepInv' /\ RetryInv'
      BY <1>2, <2>8, <3>3, RetrySchedule DEF SleepInv, Inv, Facts
    <3> QED  BY <3>3, <3>4, <3>5, <3>6, <3>7 DEF Rules, Inv, Facts
  <2>9. CASE /\ jobs' = [k \in DOMAIN jobs \ {j} |-> jobs[k]]
             /\ DispatchMoveOwnerResult(held, j, "Cancelled", jobs[j].armFail, <<>>)
             /\ RefreshMoveCancellationPending /\ UNCHANGED <<timer, msgs>>
    <3>1. \A v \in Windows : guard[v] = Picker => guard'[v] = Picker
      BY <1>3, <2>7, <2>9, SettlingGuards DEF Inv, Facts
    <3> HIDE DEF Grown, held, prior, o
    <3>2. Keeps({j}) /\ NoneNew /\ NoneAsked
      BY <2>9, JobCarries DEF Keeps, NoneNew, NoneAsked, Queue, Inv, Facts
    <3>3. Calm(<<>>) /\ On(<<>>) = {}
      BY EmptyStack
    <3>4. Settles(j, Restarts("Cancelled", jobs[j].armFail), <<>>)
      BY <2>2, <2>9, <3>3, SettlesJob DEF Inv, Facts
    <3>5. Stack(stack')
      BY <3>4 DEF Settles, SettlesCalls
    <3>6. /\ \A k \in Queue \ {j} : phase'[jobs[k].op] = phase[jobs[k].op]
          /\ \A p \in AutoOps : \/ phase'[p] = phase[p]
                                \/ phase[p] = "cancelling" /\ phase'[p] = "gone"
      BY <3>4, SettlesOthers
    <3>7. JobInv' /\ AutoInv'
      BY <1>1, <2>6, <3>2, <3>6, JobStep DEF Inv, Facts
    <3>8. OpInv'
      BY <1>1, <1>2, <1>4, <2>2, <2>5, <3>1, <3>2, <3>4, OpEnd DEF Inv, Facts, Ops
    <3>9. CallInv'
      BY <1>1, <1>2, <3>3, <3>4, SettlesRelies
    <3>10. SleepInv'
      BY <2>4, <2>9 DEF SleepInv
    <3>11. RetryInv'
      BY <1>2, <2>4, <2>9, <3>2, RetryRefresh DEF Inv, Facts
    <3> QED  BY <3>5, <3>7, <3>8, <3>9, <3>10, <3>11 DEF Rules
  <2> QED  BY <1>7, <2>1, <2>8, <2>9, CancelNowIs
<1> QED  BY <1>6, <1>7 DEF BeginPickerAction

-----------------------------------------------------------------------------
(* Queueing a move of a manual restore, over somebody else's reservation. *)

LEMMA QueueManualKeeps ==
    ASSUME Inv, NEW o \in ManualOps, NEW todo \in SUBSET Windows, NEW w \in todo,
           Calling(ManualLoop(o, todo)),
           QueueManualMove(o, w, <<ManualLoop(o, todo \ {w})>> \o Rest),
           UNCHANGED <<pending, claims, outcome, lost, disarmed>>
    PROVE  Stack(stack') /\ Rules'
<1> DEFINE base == Enqueue(o, w)
           held == Installed(w, nextJob)
           prior == guard[w]
           f == ManualLoop(o, todo \ {w})
           rest == <<f>> \o Rest
<1>1. /\ stack # <<>> /\ Head(stack) = ManualLoop(o, todo) /\ o \in Ops /\ o \notin AutoOps
      /\ ManualLoop(o, todo).fn = "ManualLoop" /\ ManualLoop(o, todo).op = o
      /\ ManualLoop(o, todo).todo = todo
  BY EngineAssumption DEF Calling, Ops, ManualLoop
<1>2. /\ Rest = <<>> /\ On(stack) = {ManualLoop(o, todo)} /\ Relies(ManualLoop(o, todo))
  BY <1>1, PopStack, EmptyStack DEF Inv, Facts, Rest, CallInv
<1>3. /\ phase[o] = "live" \/ (Orphaned(o) /\ timer)
      /\ \A v \in todo : AppOf[v] \notin pending[o]
      /\ \A k \in JobsOf(o) : jobs[k].win \notin todo
  BY <1>1, <1>2 DEF Relies
<1>4. /\ f \in Frames /\ f.fn = "ManualLoop" /\ f.op = o /\ f.todo = todo \ {w}
      /\ ~Running(f) /\ rest = <<f>>
  BY <1>2 DEF Frames, ManualLoop, Running
<1> HIDE DEF f
<1>5. Calm(rest) /\ On(rest) = {f}
  BY <1>4, OneCall
<1> HIDE DEF rest
<1>6. /\ settling = {}
      /\ \A p \in Ops : ~AboutToCancel(p)
      /\ \A p \in Ops : InHands(p, stack) => InHands(p, rest) /\ p = o
      /\ \A p \in Ops : p # o => ~Staging(p)
  BY <1>1, <1>2, <1>4, <1>5
     DEF AboutToCancel, InHands, Staging, Cancel, Finish, Inv, CallInv
<1>7. /\ w \in Windows /\ prior # Picker /\ nextJob' = nextJob + 1
      /\ guard \in [Windows -> {NoGuard, Picker} \cup JobIds]
      /\ claims \in [AutoOps -> SUBSET Windows]
  BY DEF QueueManualMove, Inv, Facts, Types, OpTypes, QInv, QueueInv, Typed
<1>8. nextJob \in JobIds
  BY EngineAssumption DEF QueueManualMove, MayQueue, JobIds, Inv, Facts, QInv, QueueInv, Typed
<1>9. /\ held \in [Windows -> {NoGuard, Picker} \cup JobIds]
      /\ \A v \in Windows : guard[v] = Picker => held[v] = Picker
  BY <1>7, <1>8 DEF Installed
<1> HIDE DEF held
<1>10. /\ DOMAIN base = Queue \cup {nextJob} /\ nextJob \notin Queue
       /\ base[nextJob] = NewJob(o, w) /\ \A k \in Queue : base[k] = jobs[k]
  BY DEF Enqueue, Inv, Facts, QInv, QueueInv, Typed, Queue
<1> HIDE DEF base
<1>11. \A k \in Queue : jobs[k] \in Job /\ Carries(jobs[k], jobs[k])
  BY JobIsTyped, JobCarries DEF Inv, Facts
<1>12. /\ NewJob(o, w).op = o /\ NewJob(o, w).win = w /\ ~NewJob(o, w).cancelReq
       /\ ~NewJob(o, w).armFail /\ ~NewJob(o, w).awaiting
  BY <1>1, <1>7, NewJobIs

\* The new job is there, the others are kept.
<1>13. ASSUME NEW E \in SUBSET Queue, Keeps(E), OneNew(o, w)
       PROVE  /\ f \in On(stack') /\ pending' = pending /\ phase'[o] = phase[o]
                 /\ (timer => timer') => Relies(f)'
              /\ \A p \in AutoOps : JobsOf(p)' \subseteq JobsOf(p)
  <2>1. \A k \in DOMAIN jobs' : \/ k = nextJob /\ jobs'[k] = NewJob(o, w)
                                \/ k \in Queue \ E /\ jobs'[k].op = jobs[k].op
                                   /\ jobs'[k].win = jobs[k].win
    BY <1>13 DEF Keeps, OneNew, Carries, Queue
  <2>2. \A k \in JobsOf(o)' : jobs'[k].win \notin todo \ {w}
    BY <1>3, <1>12, <2>1 DEF JobsOf, Queue
  <2>3. f \in On(stack') /\ pending' = pending /\ phase'[o] = phase[o]
                 /\ (timer => timer') => Relies(f)'
    BY <1>3, <1>4, <2>2 DEF Relies, Orphaned
  <2>4. \A p \in AutoOps : JobsOf(p)' \subseteq JobsOf(p)
    BY <1>1, <1>12, <2>1 DEF JobsOf, Queue
  <2> QED  BY <2>3, <2>4
<1>14. ASSUME NEW E \in SUBSET Queue, Keeps(E), OneNew(o, w), f \in On(stack'),
              timer => timer',
              \A k \in Queue \ E : phase'[jobs[k].op] = phase[jobs[k].op],
              \A k \in Queue \ E : jobs'[k].awaiting => jobs[k].awaiting
       PROVE  SleepInv'
  <2>1. Staging(o)'
    BY <1>4, <1>14 DEF Staging
  <2>2. \A k \in Queue \ E : \A p \in Ops :
              jobs[k].op = p /\ ~timer' /\ Staging(p) /\ ~jobs[k].awaiting =>
                  \/ ~jobs'[k].awaiting /\ Staging(p)'
                  \/ jobs'[k].cancelReq /\ (jobs'[k].armFail \/ phase'[p] # "live")
    <3> SUFFICES ASSUME NEW k \in Queue \ E, jobs[k].op = o, ~jobs[k].awaiting
                 PROVE  ~jobs'[k].awaiting
      BY <1>6, <2>1
    <3> QED  BY <1>14
  <2>3. \A k \in DOMAIN jobs' \ Queue :
              jobs'[k].op = o /\ ~jobs'[k].awaiting /\ Staging(o)'
    BY <1>12, <1>14, <2>1 DEF OneNew
  <2> QED  BY <1>1, <1>14, <2>2, <2>3, SleepStep DEF Inv, Facts
\* No job ends.
<1>15. ASSUME Keeps({}), OneNew(o, w), stack' = rest, guard' = held,
              UNCHANGED <<settling, phase>>,
              \A k \in Queue : jobs'[k].awaiting => jobs[k].awaiting,
              (UNCHANGED wakeVars /\ NoneAsked) \/ RefreshAndScheduleRetry
       PROVE  Stack(stack') /\ Rules'
  <2>1. (timer => timer') /\ On(stack') = {f} /\ {} \in SUBSET Queue
    BY <1>5, <1>15 DEF wakeVars, RefreshAndScheduleRetry
  <2>2. pending' = pending /\ Relies(f)'
    BY <1>13, <1>15, <2>1
  <2>3. phase'[o] = phase[o] /\ \A k \in Queue : phase'[jobs[k].op] = phase[jobs[k].op]
    BY <1>15
  <2>4. JobInv'
    BY <1>1, <1>3, <1>7, <1>15, <2>2, <2>3, JobStepNew DEF Inv, Facts
  <2>5. AutoInv'
    BY <1>15, <2>2, SameAuto DEF Inv
  <2>6. OpInv'
    BY <1>6, <1>7, <1>9, <1>15, <2>2, OpStep DEF Inv, Facts, Ops
  <2>7. CallInv'
    BY <1>4, <1>6, <1>15, <2>1, <2>2 DEF CallInv
  <2>8. SleepInv'
    BY <1>14, <1>15, <2>1, <2>3
  <2>9. RetryInv'
    <3>1. \A g \in On(stack) : g.fn \notin {"ArmTail", "RetryDone"}
      BY <1>1, <1>2
    <3> QED  BY <1>15, <3>1, RetrySame, RetrySchedule DEF Inv, Facts
  <2> QED  BY <1>5, <1>15, <2>4, <2>5, <2>6, <2>7, <2>8, <2>9 DEF Rules, Calm
<1>16. CASE /\ prior \notin Queue
            /\ jobs' = base /\ guard' = held /\ stack' = rest
            /\ UNCHANGED <<settling, heartbeatDeferred, phase, failed, wakeVars>>
  <2>1. Keeps({}) /\ OneNew(o, w) /\ NoneAsked
    BY <1>10, <1>11, <1>12, <1>16 DEF Keeps, OneNew, NoneAsked
  <2> QED  BY <1>10, <1>15, <1>16, <2>1
<1>17. ASSUME NEW j \in Queue, jobs' = Retiring(base, j), guard' = held, stack' = rest,
              UNCHANGED <<settling, heartbeatDeferred, phase, failed, wakeVars>>
       PROVE  Stack(stack') /\ Rules'
  <2>1. /\ DOMAIN jobs' = Queue \cup {nextJob} /\ jobs'[nextJob] = NewJob(o, w)
        /\ \A k \in Queue : jobs'[k] = IF k = j THEN [jobs[j] EXCEPT !.retire = TRUE]
                                                ELSE jobs[k]
    BY <1>10, <1>17 DEF Retiring
  <2>2. LET r == [jobs[j] EXCEPT !.retire = TRUE]
        IN Carries(jobs[j], r) /\ r.cancelReq = jobs[j].cancelReq
           /\ r.awaiting = jobs[j].awaiting
    BY <1>11 DEF Carries, Job
  <2>3. Keeps({}) /\ OneNew(o, w) /\ NoneAsked
        /\ \A k \in Queue : jobs'[k].awaiting => jobs[k].awaiting
    BY <1>10, <1>11, <1>12, <2>1, <2>2 DEF Keeps, OneNew, NoneAsked
  <2> QED  BY <1>15, <1>17, <2>3
<1>18. ASSUME NEW j \in Queue, jobs' = [base EXCEPT ![j].cancelReq = TRUE],
              guard' = held, stack' = rest, UNCHANGED <<settling, phase>>,
              RefreshAndScheduleRetry
       PROVE  Stack(stack') /\ Rules'
  <2>1. /\ DOMAIN jobs' = Queue \cup {nextJob} /\ jobs'[nextJob] = NewJob(o, w)
        /\ \A k \in Queue : jobs'[k] = IF k = j THEN [jobs[j] EXCEPT !.cancelReq = TRUE]
                                                ELSE jobs[k]
    BY <1>10, <1>18
  <2>2. LET r == [jobs[j] EXCEPT !.cancelReq = TRUE]
        IN Carries(jobs[j], r) /\ r.awaiting = jobs[j].awaiting
    BY <1>11 DEF Carries, Job
  <2>3. Keeps({}) /\ OneNew(o, w)
        /\ \A k \in Queue : jobs'[k].awaiting => jobs[k].awaiting
    BY <1>10, <1>11, <1>12, <2>1, <2>2 DEF Keeps, OneNew
  <2> QED  BY <1>15, <1>18, <2>3
\* The displaced job ends.  Without the timer it was asleep, so its operation
\* is not completed here but cancelled.
<1>19. ASSUME NEW j \in Queue, jobs[j].win = w,
              jobs' = [k \in DOMAIN base \ {j} |-> base[k]],
              DispatchMoveOwnerResult(held, j, "Cancelled", base[j].armFail, rest),
              RefreshMoveCancellationPending, UNCHANGED <<timer, msgs>>
       PROVE  Stack(stack') /\ Rules'
  <2> DEFINE p == jobs[j].op
             restarts == Restarts("Cancelled", jobs[j].armFail)
  <2>1. p \in Ops /\ p # o /\ jobs[j].armFail \in BOOLEAN /\ base[j] = jobs[j]
    BY <1>3, <1>10, <1>11, <1>19 DEF Job, JobsOf
  <2>2. /\ Keeps({j}) /\ OneNew(o, w) /\ NoneAsked
        /\ \A k \in Queue \ {j} : jobs'[k].awaiting => jobs[k].awaiting
    BY <1>10, <1>11, <1>12, <1>19 DEF Keeps, OneNew, NoneAsked
  <2>3. Settles(j, restarts, rest)
    BY <1>5, <1>19, <2>1, SettlesJob DEF Inv, Facts
  <2>4. Stack(stack') /\ On(rest) \subseteq On(stack') /\ SettlesPhase(j, p)
    BY <2>3 DEF Settles, SettlesCalls
  <2>5. /\ \A k \in Queue \ {j} : phase'[jobs[k].op] = phase[jobs[k].op]
        /\ \A q \in AutoOps : \/ phase'[q] = phase[q]
                              \/ phase[q] = "cancelling" /\ phase'[q] = "gone"
    BY <2>3, SettlesOthers
  <2>6. f \in On(stack') /\ phase'[o] = phase[o] /\ pending' = pending
    BY <1>1, <1>5, <2>1, <2>4 DEF SettlesPhase
  <2>7. Relies(f)'
    BY <1>13, <1>19, <2>2, <2>6
  <2>8. JobInv'
    BY <1>1, <1>3, <1>7, <2>2, <2>5, <2>6, JobStepNew DEF Inv, Facts
  <2>9. AutoInv'
    BY <2>5, <2>6, SameAuto DEF Inv
  <2>10. OpInv'
    <3>1. \A v \in Windows : guard[v] = Picker => guard'[v] = Picker
      BY <1>9, <1>19, SettlingGuards DEF Inv, Facts
    <3>2. jobs[j].armFail => restarts
      BY DEF Restarts
    <3>3. \A q \in AutoOps : ~AboutToCancel(q)
      BY <1>6 DEF Ops
    <3> QED  BY <1>6, <1>7, <2>2, <2>3, <2>6, <3>1, <3>2, <3>3, OpEnd DEF Inv, Facts
  <2>11. CallInv'
    <3>1. restarts \/ timer' \/ ~Called(p)
      <4> SUFFICES ASSUME ~timer, Called(p)
                   PROVE  restarts
        BY <1>19
      <4>1. ~Staging(p) /\ phase[p] = "live"
        BY <1>6, <2>1 DEF Called
      <4>2. jobs[j].armFail
        BY <4>1 DEF Inv, SleepInv, Asleep
      <4> QED  BY <4>2 DEF Restarts
    <3>2. \A g \in On(rest) : Relies(g)' /\ g.fn = "ManualLoop"
      BY <1>4, <1>5, <2>7
    <3> QED  BY <1>6, <2>3, <2>6, <3>1, <3>2, SettlesRelies
  <2>12. SleepInv'
    BY <1>14, <1>19, <2>2, <2>5, <2>6
  <2>13. RetryInv'
    <3>1. \A g \in On(stack) : g.fn \notin {"ArmTail", "RetryDone"}
      BY <1>1, <1>2
    <3> QED  BY <1>19, <2>2, <3>1, RetryRefresh DEF Inv, Facts
  <2> QED  BY <2>4, <2>8, <2>9, <2>10, <2>11, <2>12, <2>13 DEF Rules
<1>20. prior \in Queue => jobs[prior].win = w
  <2> SUFFICES ASSUME prior \in Queue
               PROVE  jobs[prior].win = w
    OBVIOUS
  <2>1. prior \in 1..(nextJob - 1) /\ nextJob \in 1..(MaxJobs + 1)
    BY DEF Inv, Facts, QInv, QueueInv, Typed, Queue
  <2>2. prior \in JobIds
    BY <2>1, EngineAssumption DEF JobIds
  <2> QED  BY <1>6, <1>7, <2>2 DEF Inv, Facts, QInv, QueueInv, Leaks, Queue
<1>21. CASE prior \in Queue /\ CancelNowOrDefer(base, held, prior, rest)
  BY <1>18, <1>19, <1>20, <1>21, CancelNowIs
<1> QED  BY <1>16, <1>17, <1>21 DEF QueueManualMove, base, held, f, rest

-----------------------------------------------------------------------------
(* The invariant. *)

LEMMA StutterKeeps ==
    ASSUME Inv, UNCHANGED vars
    PROVE  Stack(stack') /\ Rules'
<1>1. /\ UNCHANGED <<jobs, settling, guard, phase, pending, claims, outcome, stack>>
      /\ UNCHANGED <<cancelPending, timer, retry, msgs, disarmed>>
  BY DEF vars, queueVars, opVars, wakeVars
<1>2. Queue' = Queue /\ Stack(stack')
  BY <1>1 DEF Queue, Inv, Facts
<1>3. \A o : (JobsOf(o)' = JobsOf(o)) /\ (Orphaned(o)' <=> Orphaned(o))
             /\ (InHands(o, stack)' <=> InHands(o, stack))
             /\ (AboutToCancel(o)' <=> AboutToCancel(o)) /\ (Staging(o)' <=> Staging(o))
  BY <1>1, <1>2 DEF JobsOf, Orphaned, InHands, AboutToCancel, Staging
<1>4. JobInv' /\ AutoInv'
  BY <1>1, <1>2, <1>3 DEF Inv, JobInv, AutoInv
<1>5. OpInv'
  BY <1>1, <1>2, <1>3 DEF Inv, OpInv
<1>6. \A f \in On(stack) : Relies(f)'
  BY <1>1, <1>3 DEF Inv, CallInv, Relies
<1>7. CallInv'
  BY <1>1, <1>6 DEF Inv, CallInv
<1>8. SleepInv'
  BY <1>1, <1>2, <1>3 DEF Inv, SleepInv, Asleep
<1>9. RetryInv'
  BY <1>1, <1>2 DEF Inv, RetryInv, Retrying
<1> QED  BY <1>2, <1>4, <1>5, <1>7, <1>8, <1>9 DEF Rules

LEMMA StepRules ==
    ASSUME Inv, [Next]_vars
    PROVE  Stack(stack') /\ Rules'
<1>1. CASE AdvanceMoveQueue \/ DrainQueue \/ ArmRecovery
  BY <1>1, AdvanceKeeps, DrainKeeps, ArmRecoveryKeeps
<1>2. ASSUME NEW n \in 0..MaxJobs, CompletePostedAttempt(n)
      PROVE  Stack(stack') /\ Rules'
  BY <1>2, CompletePostedKeeps
<1>3. ASSUME NEW j \in settling, NEW ok \in BOOLEAN, ReleaseReservation(j, ok)
      PROVE  Stack(stack') /\ Rules'
  BY <1>3, ReleaseRuns
<1>4. ASSUME NEW o \in Ops, CancelCall(o)
      PROVE  Stack(stack') /\ Rules'
  BY <1>4, CancelCallRuns
<1>5. ASSUME NEW o \in AutoOps \cup {NoOp}, ArmMoveTimer(o)
      PROVE  Stack(stack') /\ Rules'
  BY <1>5, ArmKeeps
<1>6. ASSUME NEW o \in ManualOps, FinishManualMove(o)
      PROVE  Stack(stack') /\ Rules'
  BY <1>6, FinishManualKeeps
<1>7. ASSUME NEW o \in ManualOps, NEW old \in SUBSET ManualOps, StartManualRestore(o, old)
      PROVE  Stack(stack') /\ Rules'
  BY <1>7, StartManualKeeps
<1>8. ASSUME NEW o \in ManualOps, NEW todo \in SUBSET Windows, ManualPlanLoop(o, todo)
      PROVE  Stack(stack') /\ Rules'
  <2>1. Calling(ManualLoop(o, todo)) /\ UNCHANGED <<pending, claims, outcome, lost, disarmed>>
    BY <1>8 DEF ManualPlanLoop
  <2>2. ASSUME NEW w \in todo,
               QueueManualMove(o, w, <<ManualLoop(o, todo \ {w})>> \o Rest)
        PROVE  Stack(stack') /\ Rules'
    BY <2>1, <2>2, QueueManualKeeps
  <2>3. CASE /\ todo = {}
             /\ \E arms \in IF phase[o] = "gone" THEN BOOLEAN ELSE {JobsOf(o) # {}} :
                    stack' = (IF arms THEN <<Arm(NoOp)>> ELSE <<>>) \o <<Finish(o)>> \o Rest
             /\ UNCHANGED <<queueVars, phase, failed, heartbeatDeferred, wakeVars>>
    <3>1. UNCHANGED <<queueVars, phase, pending, claims, outcome, disarmed>> /\ UNCHANGED wakeVars
      BY <2>1, <2>3
    <3> QED  BY <2>1, <2>3, <3>1, ManualLoopKeeps
  <2>4. ASSUME NEW w \in todo, stack' = <<ManualLoop(o, todo \ {w})>> \o Rest,
               UNCHANGED <<queueVars, phase, failed, heartbeatDeferred, wakeVars>>
        PROVE  Stack(stack') /\ Rules'
    <3>1. UNCHANGED <<queueVars, phase, pending, claims, outcome, disarmed>> /\ UNCHANGED wakeVars
      BY <2>1, <2>4
    <3> QED  BY <2>1, <2>4, <3>1, ManualLoopKeeps
  <2> QED  BY <1>8, <2>2, <2>3, <2>4 DEF ManualPlanLoop
<1>9. ASSUME NEW o \in AutoOps, FinishAutoOperation(o)
      PROVE  Stack(stack') /\ Rules'
  BY <1>9, FinishAutoKeeps
<1>10. ASSUME NEW o \in AutoOps, NEW todo \in SUBSET Windows,
              AutoPlanLoop(o, todo)
       PROVE  Stack(stack') /\ Rules'
  BY <1>10, AutoLoopKeeps
<1>11. ASSUME NEW o \in AutoOps, NEW todo \in SUBSET Windows, NEW queued \in BOOLEAN,
              RearmPickerClaims(o, todo, queued)
       PROVE  Stack(stack') /\ Rules'
  BY <1>11, RearmKeeps
<1>12. CASE Calls
  BY <1>1, <1>2, <1>3, <1>4, <1>5, <1>6, <1>7, <1>8, <1>9, <1>10, <1>11, <1>12 DEF Calls
<1>13. CASE MoveTimer \/ MoveTimerThrows \/ CancelRetryMessage \/ Heartbeat
  BY <1>13, MoveTimerKeeps, TimerThrowKeeps, RetryMessageKeeps, QuietMessagesKeep
<1>14. ASSUME NEW o \in AutoOps, BeginAutoRestore(o) \/ AutoPlanResult(o) \/ AutoPlanDeferred(o)
       PROVE  Stack(stack') /\ Rules'
  BY <1>14, BeginKeeps, PlanResultKeeps, PlanDeferredKeeps
<1>15. ASSUME NEW o \in Ops, RetireOperation(o) \/ ResetAutoRuntime(o)
       PROVE  Stack(stack') /\ Rules'
  <2>1. Idle /\ stack' = <<Cancel(o)>>
        /\ UNCHANGED <<queueVars, opVars, heartbeatDeferred, wakeVars, lost, disarmed>>
    BY <1>15 DEF RetireOperation, ResetAutoRuntime
  <2>2. UNCHANGED <<queueVars, opVars, wakeVars, disarmed>>
    BY <2>1
  <2> QED  BY <2>1, <2>2, CancelMessagesKeep
<1>16. ASSUME NEW o \in ManualOps, ManualRestoreClick(o)
       PROVE  Stack(stack') /\ Rules'
  BY <1>16, RestoreClickKeeps
<1>17. ASSUME NEW o \in ManualOps, NEW a \in Apps, ManualPlanResult(o, a)
       PROVE  Stack(stack') /\ Rules'
  BY <1>17, ManualResultKeeps
<1>18. ASSUME NEW w \in Windows,
              BeginPickerAction(w) \/ PickerTransitionEnds(w) \/ WindowCloses(w)
       PROVE  Stack(stack') /\ Rules'
  BY <1>18, PickerTakesKeeps, TransitionEndKeeps, QuietMessagesKeep
<1>19. CASE UNCHANGED vars
  BY <1>19, StutterKeeps
<1>20. AutoOps \subseteq Ops
  BY DEF Ops
<1>21. CASE Next
  BY <1>12, <1>13, <1>14, <1>15, <1>16, <1>17, <1>18, <1>20, <1>21 DEF Next
<1> QED  BY <1>19, <1>21

LEMMA StepInv == Inv /\ [Next]_vars => Inv'
<1> SUFFICES ASSUME Inv, [Next]_vars
             PROVE  Inv'
  OBVIOUS
<1>1. QInv' /\ Types'
  BY StepQ, StepTypes DEF Inv, Facts
<1>2. Stack(stack') /\ Rules'
  BY StepRules
<1> QED  BY <1>1, <1>2 DEF Inv, Facts, Rules

LEMMA InitInv == Init => Inv
<1> SUFFICES ASSUME Init
             PROVE  Inv
  OBVIOUS
<1>1. QInv /\ Types
  BY InitQ, InitTypes
<1>2. stack = <<>> /\ Stack(stack) /\ On(stack) = {}
  BY EmptyStack DEF Init, Calm
<1>3. /\ Queue = {} /\ settling = {} /\ disarmed = {} /\ ~retry.posted
      /\ \A o \in Ops : phase[o] = "new" /\ pending[o] = {} /\ JobsOf(o) = {}
      /\ \A o \in AutoOps : claims[o] = {} /\ outcome[o] = "none"
      /\ AutoOps \subseteq Ops
  BY DEF Init, Queue, JobsOf, ClearRetry, Ops
<1>4. JobInv /\ AutoInv /\ OpInv /\ SleepInv
  BY <1>3 DEF JobInv, AutoInv, OpInv, SleepInv
<1>5. CallInv /\ RetryInv
  BY <1>2, <1>3 DEF CallInv, RetryInv
<1> QED  BY <1>1, <1>2, <1>4, <1>5 DEF Inv, Facts

\* The invariant holds of every behaviour.
THEOREM OperationInvariant == Spec => []Inv
BY InitInv, StepInv, PTL DEF Spec

-----------------------------------------------------------------------------
(* The safety properties. *)

\* The operations and their jobs fit together: no queued move reports to
\* nobody, no operation waits for nothing, and the lifecycle is told of each
\* end and of no other.
THEOREM OperationsFollowJobsAlways == Spec => []OperationsFollowJobs
<1>1. ASSUME Inv
      PROVE  OperationsFollowJobs
  <2>1. QueuedJobHasOwner
    BY <1>1 DEF Inv, JobInv, QueuedJobHasOwner
  <2>2. NoStuckOperation
    BY <1>1, IdleIs DEF Inv, OpInv, NoStuckOperation
  <2>3. LifecycleIsTold
    BY <1>1 DEF Inv, AutoInv, LifecycleIsTold
  <2> QED  BY <2>1, <2>2, <2>3 DEF OperationsFollowJobs
<1> QED  BY <1>1, OperationInvariant, PTL

\* Failing calls strand nothing.
THEOREM NothingIsStrandedAlways == Spec => []NothingIsStranded
<1>1. ASSUME Inv
      PROVE  NothingIsStranded
  <2>1. UntimedQueueIsCancelled
    <3> SUFFICES ASSUME Idle, ~timer, NEW j \in Queue
                 PROVE  jobs[j].cancelReq
      BY DEF UntimedQueueIsCancelled
    <3>1. jobs[j].op \in Ops
      BY <1>1 DEF Inv, Facts, QInv, QueueInv, Typed, Queue, Job
    <3> QED  BY <1>1, <3>1, IdleIs DEF Inv, SleepInv, Asleep
  <2>2. CancellationIsRetried
    <3>1. ~Retrying(stack) \/ ~Idle
      BY <1>1, IdleIs DEF Retrying
    <3>2. ASSUME Idle, cancelPending, Queue # {}, ~timer
          PROVE  msgs > 0 \/ retry.noProgress >= MaxNoProgress \/ "post" \in Faults \/ MaxPosts = 0
      <4>1. \E j \in Queue : jobs[j].cancelReq
        BY <2>1, <3>2 DEF UntimedQueueIsCancelled
      <4> QED  BY <1>1, <3>1, <3>2, <4>1 DEF Inv, RetryInv
    <3> QED  BY <1>1, <3>2 DEF Inv, RetryInv, CancellationIsRetried
  <2>3. ArmFailureIsNoSuccess
    BY <1>1 DEF Inv, AutoInv, ArmFailureIsNoSuccess
  <2> QED  BY <2>1, <2>2, <2>3 DEF NothingIsStranded
<1> QED  BY <1>1, OperationInvariant, PTL

\* A step that makes a queued job wait issues its move: for the holder of the
\* window's reservation, which wants the move, on behalf of a live operation or
\* an orphaned one, and while no other move is unread.
THEOREM IssueIsAuthorisedAlways == Spec => IssueIsAuthorised
<1> DEFINE Authorised ==
      \A j \in Queue \cap DOMAIN jobs' :
        ~jobs[j].waiting /\ jobs'[j].waiting =>
            /\ guard[jobs[j].win] = j
            /\ MayIssue(j)
            /\ phase[jobs[j].op] = "live" \/ Orphaned(jobs[j].op)
            /\ \A k \in Queue : ~jobs[k].waiting
<1>1. ASSUME Inv, [Next]_vars
      PROVE  Authorised
  <2>1. Keeping
    BY <1>1, StepGives DEF Inv, Facts
  <2>2. CASE NotIssued
    BY <2>2 DEF NotIssued
  <2>3. ASSUME NEW i \in Queue, Issues(i)
        PROVE  Authorised
    <3>1. phase[jobs[i].op] = "live" \/ Orphaned(jobs[i].op)
      BY <1>1, <2>3 DEF Inv, JobInv, Issues, MayIssue, Wants
    <3>2. \A k \in Queue : ~jobs[k].waiting
      BY <2>3 DEF Issues, Unread
    <3> QED  BY <2>3, <3>1, <3>2 DEF Issues
  <2> QED  BY <2>1, <2>2, <2>3 DEF Keeping
<1>2. Inv /\ [Next]_vars => [Authorised]_vars
  BY <1>1
<1> QED  BY <1>2, OperationInvariant, PTL DEF Spec, IssueIsAuthorised

=============================================================================
