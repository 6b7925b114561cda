----------------------------- MODULE MoveEngine -----------------------------
(***************************************************************************)
(* The window-move engine of win-vde: the move queue (move_queue.hpp), the *)
(* runtime state kept per queued job, the reservations that guard a window *)
(* while somebody moves it, the automatic and manual restore operations    *)
(* that own the jobs, the picker's direct takeover of a reservation, the   *)
(* verification timer with its posted-message fallback, and the heartbeat  *)
(* checkpoint that reservations defer (vde.cpp, lifecycle.hpp).            *)
(*                                                                         *)
(* Everything runs on the UI thread, one window message at a time.  A      *)
(* handler that calls a function whose effect depends on the state the     *)
(* call chain has reached leaves that call on `stack'; while `stack' is    *)
(* not empty only its head runs, so a handler still runs to completion     *)
(* and every function of the code is one action here.                      *)
(*                                                                         *)
(* A queued job has exactly one entry in g_moveQueue, in g_moveRuntime and *)
(* in the liveJobIds of its operation: the code inserts and removes the    *)
(* three in one handler (QueueAutoMove, QueueManualMove,                   *)
(* DispatchMoveResult), so the model keeps one record per job.  Job ids    *)
(* are handed out in increasing order and a job is pushed to the back of   *)
(* the queue in the call that takes its id, so the front of the deque is   *)
(* the smallest queued id.                                                 *)
(*                                                                         *)
(* An operator that no action uses is a seeded fault: the form in which a  *)
(* neighbouring definition would be wrong, kept to see that a property     *)
(* notices (KeepsWish for Retiring, AlwaysKillsTimer for StillTimed, ...). *)
(***************************************************************************)
EXTENDS Naturals, Sequences, FiniteSets

CONSTANTS
    Windows,           \* window identities (hwnd, pid, process start)
    AutoOps,           \* automatic restores of one application
    ManualOps,         \* tray "Restore" operations
    Apps,              \* the applications whose windows are restored
    AppOf,             \* the application of a window or automatic restore
    MaxJobs,           \* bound of the model: job ids handed out
    MaxPosts,          \* how many posted retry messages the system queues
    MaxAttempts,       \* MoveQueue::kMaxAttempts (4)
    MaxIndeterminate,  \* IdentityRecaptureRetryBudget (4)
    MaxUnresolved,     \* IssuedMoveRetirementTracker (4)
    MaxNoProgress,     \* MoveCancellationRetryState (8)
    Faults,            \* which calls may fail in this instance
    NoGuard, Picker, NoOp

Ops == AutoOps \cup ManualOps
JobIds == 1..MaxJobs
FaultKinds == {"alloc", "settimer", "post", "throw"}

ASSUME EngineAssumption ==
    /\ AppOf \in [Windows \cup AutoOps -> Apps]
    /\ MaxJobs \in Nat /\ MaxPosts \in Nat
    /\ MaxAttempts \in Nat \ {0}
    /\ MaxIndeterminate \in Nat \ {0}
    /\ MaxUnresolved \in Nat \ {0}
    /\ MaxNoProgress \in Nat
    /\ Faults \subseteq FaultKinds
    /\ AutoOps \cap ManualOps = {}
    /\ NoOp \notin Ops
    /\ NoGuard \notin Nat /\ Picker \notin Nat /\ NoGuard # Picker

VARIABLES
    jobs,              \* g_moveQueue + g_moveRuntime: queued id -> record
    nextJob,           \* g_nextMoveJobId
    guard,             \* g_reservedAutoIdentities: who holds the window
    settling,          \* ended jobs whose reservation is still to be released
    phase,             \* g_pendingAutoOperations, g_manualMoveOperations
    pending,           \* applications whose results an operation waits for
    claims,            \* pickerClaimedRecordByRuntime of an automatic restore
    failed,            \* hadFailure or hadExhausted of an automatic restore
    outcome,           \* what the lifecycle was told of an automatic restore
    heartbeatDeferred, \* CheckpointController::heartbeatDeferred
    cancelPending,     \* g_moveCancellationPending
    timer,             \* TIMER_MOVE_VERIFY is set
    retry,             \* MoveCancellationRetryState
    msgs,              \* WM_MOVE_CANCEL_RETRY messages in the thread's queue
    lost,              \* windows that no longer exist (environment)
    disarmed,          \* history: restores that owned a job when arming failed
    stack              \* calls the running handler still has to make

queueVars == <<jobs, nextJob, guard, settling>>
opVars == <<phase, pending, claims, failed, outcome>>
wakeVars == <<cancelPending, timer, retry, msgs>>
vars == <<queueVars, opVars, heartbeatDeferred, wakeVars, lost, disarmed, stack>>

Queue == DOMAIN jobs
Job == [op : Ops, win : Windows, attempts : 0..MaxAttempts,
        waiting : BOOLEAN,      \* MoveJob::waitingForVerify
        awaiting : BOOLEAN,     \* issueAwaitingVerify
        retire : BOOLEAN,       \* retireAfterVerify
        cancelReq : BOOLEAN,    \* cancelRequested
        armFail : BOOLEAN,      \* timerArmFailureCancellation
        indet : 0..MaxIndeterminate, unresolved : 0..MaxUnresolved]
NewJob(o, w) ==
    [op |-> o, win |-> w, attempts |-> 0, waiting |-> FALSE,
     awaiting |-> FALSE, retire |-> FALSE, cancelReq |-> FALSE,
     armFail |-> FALSE, indet |-> 0, unresolved |-> 0]

JobsOf(o) == {j \in Queue : jobs[j].op = o}
IsFront(j) == j \in Queue /\ \A k \in Queue : j <= k
Idle == stack = <<>>
ClearRetry == [posted |-> FALSE, noProgress |-> 0]
Guarded == {w \in Windows : guard[w] # NoGuard}

Init ==
    /\ jobs = [j \in {} |-> NewJob(NoOp, NoGuard)]
    /\ nextJob = 1
    /\ guard = [w \in Windows |-> NoGuard] /\ settling = {}
    /\ phase = [o \in Ops |-> "new"]
    /\ pending = [o \in Ops |-> {}]
    /\ claims = [o \in AutoOps |-> {}]
    /\ failed = [o \in AutoOps |-> FALSE]
    /\ outcome = [o \in AutoOps |-> "none"]
    /\ heartbeatDeferred = FALSE /\ cancelPending = FALSE
    /\ timer = FALSE /\ retry = ClearRetry /\ msgs = 0
    /\ lost = {} /\ disarmed = {} /\ stack = <<>>

-----------------------------------------------------------------------------
(* Calls a handler may leave on the stack. *)

Advance == [fn |-> "Advance"]
Drain == [fn |-> "Drain"]
Release(j, succeeded) == [fn |-> "Release", job |-> j, succeeded |-> succeeded]
RetryDone(n) == [fn |-> "RetryDone", before |-> n]
Arm(o) == [fn |-> "Arm", op |-> o]
ArmTail == [fn |-> "ArmTail"]
Cancel(o) == [fn |-> "Cancel", op |-> o]
Finish(o) == [fn |-> "Finish", op |-> o]
Rearm(o, todo, queued) ==
    [fn |-> "Rearm", op |-> o, todo |-> todo, queued |-> queued]
AutoLoop(o, todo) == [fn |-> "AutoLoop", op |-> o, todo |-> todo]
ManualLoop(o, todo) == [fn |-> "ManualLoop", op |-> o, todo |-> todo]
StartManual(o, old) == [fn |-> "StartManual", op |-> o, old |-> old]

Calling(call) == stack # <<>> /\ Head(stack) = call
Rest == Tail(stack)

-----------------------------------------------------------------------------
(* Who wakes the queue up again. *)

ForgetsArmFailures ==
    \E j \in DOMAIN jobs' : jobs'[j].cancelReq /\ ~jobs'[j].armFail
AnyCancelRequested == \E j \in DOMAIN jobs' : jobs'[j].cancelReq

RefreshMoveCancellationPending ==
    /\ cancelPending' = AnyCancelRequested
    /\ retry' = IF cancelPending' THEN retry ELSE ClearRetry

\* The fallback when the timer cannot be set: one posted message at a time,
\* none after too many attempts without progress.
PostRetry(state) ==
    LET mayPost == ~state.posted /\ state.noProgress < MaxNoProgress
    IN \/ /\ ~mayPost \/ msgs >= MaxPosts \/ "post" \in Faults
          /\ retry' = state /\ UNCHANGED msgs
       \/ /\ mayPost /\ msgs < MaxPosts
          /\ retry' = [state EXCEPT !.posted = TRUE]
          /\ msgs' = msgs + 1

RefreshAndScheduleRetry ==
    /\ cancelPending' = AnyCancelRequested
    /\ \/ ~cancelPending' /\ retry' = ClearRetry /\ UNCHANGED <<timer, msgs>>
       \/ cancelPending' /\ timer' = TRUE /\ retry' = ClearRetry /\ UNCHANGED msgs
       \/ cancelPending' /\ "settimer" \in Faults /\ UNCHANGED timer /\ PostRetry(retry)

-----------------------------------------------------------------------------
(* Terminal dispatch: settle the owner, then the reservation. *)

\* A reservation goes only if it still carries the token of an ended job.
KeepsLostWindows(held, ended) == {w \in Windows \ lost : held[w] \in ended}
ReleasedBy(held, ended) == {w \in Windows : held[w] \in ended}

\* Unless the move succeeded, a deferred heartbeat checkpoint runs first, while
\* the reservation is still visible; a successful move lets it run once no
\* reservation is left.
ForgetsLastSuccess(released, succeeded) ==
    heartbeatDeferred /\ (released # {} => succeeded)
StaysDeferred(released, succeeded) ==
    heartbeatDeferred /\ (released # {} =>
        succeeded /\ \E w \in Windows : guard'[w] # NoGuard)

\* `held' are the reservations the handler has installed so far.
FinalizeMoveReservation(held, ended, succeeded) ==
    LET released == ReleasedBy(held, ended)
    IN /\ guard' = [w \in Windows |-> IF w \in released THEN NoGuard ELSE held[w]]
       /\ heartbeatDeferred' = StaysDeferred(released, succeeded)

\* The operation has no other job.
NeverLast(o, j) == FALSE
LastJob(o, j) == JobsOf(o) = {j}

\* A job cancelled because the timer could not be set restarts its restore.
Rearms(terminal, armFail) == terminal = "Cancelled" /\ armFail

\* What settling a job does to its operation.  Where that calls for more, the
\* reservation is released after the call.
DispatchMoveOwnerResult(held, j, terminal, armFail, rest) ==
    LET o == jobs[j].op
        last == LastJob(o, j)
        rearms == Rearms(terminal, armFail)
        succeeded == terminal = "Succeeded"
        CallFirst(call) ==
            /\ stack' = <<call, Release(j, succeeded)>> \o rest
            /\ settling' = settling \cup {j}
            /\ guard' = held
            /\ UNCHANGED <<phase, heartbeatDeferred>>
        ReleaseNow ==
            /\ stack' = rest
            /\ FinalizeMoveReservation(held, {j}, succeeded)
            /\ UNCHANGED <<settling, failed>>
    IN \/ /\ phase[o] = "cancelling"
          /\ phase' = IF last THEN [phase EXCEPT ![o] = "gone"] ELSE phase
          /\ ReleaseNow
       \/ /\ phase[o] # "cancelling" /\ o \in AutoOps /\ rearms
          /\ CallFirst(Cancel(o)) /\ UNCHANGED failed
       \/ /\ phase[o] # "cancelling" /\ o \in AutoOps /\ ~rearms
          /\ failed' = [failed EXCEPT ![o] =
                            @ \/ terminal \in {"Exhausted", "PermanentFailure"}]
          /\ CallFirst(Finish(o))
       \/ /\ phase[o] # "cancelling" /\ o \in ManualOps
          /\ phase' = IF last /\ pending[o] = {}
                      THEN [phase EXCEPT ![o] = "gone"] ELSE phase
          /\ ReleaseNow

\* The end of DispatchMoveResult after such a call.
ReleaseReservation(j, succeeded) ==
    /\ Calling(Release(j, succeeded))
    /\ stack' = Rest
    /\ settling' = settling \ {j}
    /\ FinalizeMoveReservation(guard, {j}, succeeded)
    /\ UNCHANGED <<jobs, nextJob, opVars, wakeVars, lost, disarmed>>

\* `base' is the job table with what the handler has marked so far.
DispatchMoveResult(base, j, terminal, rest) ==
    /\ jobs' = [k \in Queue \ {j} |-> base[k]]
    /\ DispatchMoveOwnerResult(guard, j, terminal, base[j].armFail, rest)
    /\ UNCHANGED <<nextJob, pending, claims, outcome, lost>>

\* Nothing is dispatched: the handler only marked jobs.
MarkOnly(base, rest) ==
    /\ jobs' = base
    /\ stack' = rest
    /\ UNCHANGED <<nextJob, guard, settling, heartbeatDeferred, opVars, lost>>

\* cancelJob allocates the survivors' queue, so it may fail and change nothing.
TryCancel(base, j, after, otherwise) ==
    \/ DispatchMoveResult(base, j, "Cancelled", after)
    \/ "alloc" \in Faults /\ MarkOnly(base, otherwise)

-----------------------------------------------------------------------------
(* One look at the front of the queue: AdvanceMoveQueue. *)

\* What a readback can report.  A failed enumeration or a deleted desktop is
\* reported without looking at the window.
Readbacks(w) ==
    {[identity |-> "Match", outcome |-> "Transient"],
     [identity |-> "Match", outcome |-> "Permanent"],
     [identity |-> "Indeterminate", outcome |-> "Transient"],
     IF w \in lost THEN [identity |-> "Lost", outcome |-> "Transient"]
                   ELSE [identity |-> "Match", outcome |-> "OnDestination"]}
\* What the guarded move call can report of the window's identity.
IssueIdentities(w) == {"Indeterminate", IF w \in lost THEN "Lost" ELSE "Match"}

Update(j, rec) == [jobs EXCEPT ![j] = rec]

\* ShouldCancelMoveBeforeIssuedReadback
CancelsUnreadOnly(j) == jobs[j].cancelReq /\ jobs[j].waiting /\ ~jobs[j].retire
MustCancel(j) ==
    jobs[j].cancelReq /\ ~(jobs[j].retire /\ jobs[j].waiting)

CancelFront(j) ==
    /\ MustCancel(j)
    /\ TryCancel(jobs, j, <<Drain>> \o Rest, <<Drain>> \o Rest)
    /\ RefreshMoveCancellationPending
    /\ UNCHANGED <<timer, msgs>>

HandleIndeterminateMoveIdentity(j) ==
    LET count == IF jobs[j].indet < MaxIndeterminate
                 THEN jobs[j].indet + 1 ELSE jobs[j].indet
        counted == [jobs[j] EXCEPT !.indet = count]
    IN \/ /\ count < MaxIndeterminate
          /\ MarkOnly(Update(j, counted), Rest)
          /\ UNCHANGED wakeVars
       \/ /\ count >= MaxIndeterminate
          /\ TryCancel(Update(j, [counted EXCEPT !.cancelReq = TRUE]), j, Rest, Rest)
          /\ RefreshMoveCancellationPending
          /\ UNCHANGED <<timer, msgs>>

IssueMove(j) ==
    LET w == jobs[j].win
        issued == [jobs[j] EXCEPT !.attempts = @ + 1, !.waiting = TRUE,
                                  !.awaiting = TRUE, !.indet = 0]
    IN \E identity \in IssueIdentities(w) :
        \/ identity = "Indeterminate" /\ HandleIndeterminateMoveIdentity(j)
        \/ /\ identity = "Lost"
           /\ TryCancel(jobs, j, <<Drain>> \o Rest, <<Drain>> \o Rest)
           /\ UNCHANGED wakeVars
        \/ /\ identity = "Match"    \* accepted, or refused for the moment
           /\ MarkOnly(Update(j, issued), <<Drain>> \o Rest)
           /\ UNCHANGED wakeVars
        \/ /\ identity = "Match"    \* refused for good
           /\ DispatchMoveResult(jobs, j, "PermanentFailure", <<Drain>> \o Rest)
           /\ UNCHANGED wakeVars

IssueFront(j) ==
    /\ ~MustCancel(j) /\ ~jobs[j].waiting
    /\ \E read \in Readbacks(jobs[j].win) :
        \/ read.identity = "Indeterminate" /\ HandleIndeterminateMoveIdentity(j)
        \/ /\ read.identity = "Lost"
           /\ TryCancel(jobs, j, <<Drain>> \o Rest, <<Drain>> \o Rest)
           /\ UNCHANGED wakeVars
        \/ /\ read.outcome = "OnDestination"
           /\ DispatchMoveResult(jobs, j, "Succeeded", <<Drain>> \o Rest)
           /\ UNCHANGED wakeVars
        \/ /\ read.outcome = "Permanent"
           /\ DispatchMoveResult(jobs, j, "PermanentFailure", <<Drain>> \o Rest)
           /\ UNCHANGED wakeVars
        \/ /\ read.identity = "Match" /\ read.outcome = "Transient"
           /\ IssueMove(j)

\* The readback of a move whose owner has gone: IssuedMoveRetirementTracker.
RetireIssued(j, read) ==
    LET seen == IF read.identity = "Match"
                THEN [jobs[j] EXCEPT !.indet = 0] ELSE jobs[j]
        safe == read.identity = "Lost" \/ read.outcome = "OnDestination"
        count == IF jobs[j].unresolved < MaxUnresolved
                 THEN jobs[j].unresolved + 1 ELSE jobs[j].unresolved
        counted == [seen EXCEPT !.unresolved = count]
    IN \/ /\ safe
          /\ TryCancel(Update(j, [seen EXCEPT !.awaiting = FALSE]), j,
                       <<Drain>> \o Rest, Rest)
       \/ /\ read.outcome = "Permanent"
          /\ TryCancel(Update(j, seen), j, <<Drain>> \o Rest, Rest)
       \/ /\ ~safe /\ read.outcome = "Transient" /\ count >= MaxUnresolved
          /\ TryCancel(Update(j, counted), j, <<Drain>> \o Rest, Rest)
       \/ /\ ~safe /\ read.outcome = "Transient" /\ count < MaxUnresolved
          /\ MarkOnly(Update(j, counted), Rest)

\* MoveQueue::onVerified gives up after MaxAttempts issues.
OneAttemptTooMany(j) == jobs[j].attempts > MaxAttempts
AttemptsUsedUp(j) == jobs[j].attempts >= MaxAttempts

\* The readback of a move whose owner still wants it.
VerifyIssued(j, read) ==
    LET seen == [jobs[j] EXCEPT !.awaiting = FALSE,
                                !.indet = IF read.identity = "Match" THEN 0 ELSE @]
        again == [seen EXCEPT !.waiting = FALSE]
        base == Update(j, seen)
        after == <<Drain>> \o Rest
    IN \/ read.identity = "Lost" /\ TryCancel(base, j, after, after)
       \/ /\ read.outcome = "OnDestination"
          /\ DispatchMoveResult(base, j, "Succeeded", after)
       \/ /\ read.outcome = "Permanent"
          /\ DispatchMoveResult(base, j, "PermanentFailure", after)
       \/ /\ read.identity = "Match" /\ read.outcome = "Transient"
          /\ IF AttemptsUsedUp(j)
             THEN DispatchMoveResult(base, j, "Exhausted", after)
             ELSE MarkOnly(Update(j, again), after)

VerifyFront(j) ==
    /\ ~MustCancel(j) /\ jobs[j].waiting
    /\ \E read \in Readbacks(jobs[j].win) :
        \/ read.identity = "Indeterminate" /\ HandleIndeterminateMoveIdentity(j)
        \/ /\ read.identity # "Indeterminate"
           /\ IF jobs[j].retire THEN RetireIssued(j, read)
                                ELSE VerifyIssued(j, read)
           /\ UNCHANGED wakeVars

AdvanceMoveQueue ==
    /\ Calling(Advance)
    /\ UNCHANGED disarmed
    /\ \/ /\ Queue = {}
          /\ timer' = FALSE /\ stack' = Rest
          /\ UNCHANGED <<queueVars, opVars, heartbeatDeferred,
                         cancelPending, retry, msgs, lost>>
       \/ \E j \in Queue :
            /\ IsFront(j)
            /\ CancelFront(j) \/ IssueFront(j) \/ VerifyFront(j)

\* The end of AdvanceMoveQueue: an empty queue needs no timer.
AlwaysKillsTimer == FALSE
StillTimed == timer /\ Queue # {}

DrainQueue ==
    /\ Calling(Drain)
    /\ timer' = StillTimed
    /\ stack' = Rest
    /\ UNCHANGED <<queueVars, opVars, heartbeatDeferred, cancelPending, retry,
                   msgs, lost, disarmed>>

-----------------------------------------------------------------------------
(* Cancellation. *)

\* A cancelled job whose issued move has not been read back yet is kept until
\* it has, unless its window is known to be gone.  One identity reading per
\* job and handler.
AwaitsUnissued(j) == TRUE
MayAwaitTerminal(j) == jobs[j].awaiting
MayCancelNow(j) == jobs[j].awaiting => jobs[j].win \in lost

\* LcCancelRestore: the lifecycle hears of a cancelled automatic restore.
ToldCancelled(o) ==
    IF o \in AutoOps THEN [outcome EXCEPT ![o] = "Cancelled"] ELSE outcome

\* CancelAutoOperation and CancelManualMoveOperation.
CancelLiveOperation(o) ==
    \E keep \in SUBSET {j \in JobsOf(o) : MayAwaitTerminal(j)} :
    \E stuck \in SUBSET (JobsOf(o) \ keep) :
        LET ended == JobsOf(o) \ (keep \cup stuck)
        IN /\ \A j \in JobsOf(o) \ keep : MayCancelNow(j)
           /\ stuck = {} \/ "alloc" \in Faults
           /\ jobs' = [j \in Queue \ ended |->
                        IF j \in keep THEN [jobs[j] EXCEPT !.retire = TRUE]
                        ELSE IF j \in stuck
                             THEN [jobs[j] EXCEPT !.cancelReq = TRUE]
                             ELSE jobs[j]]
           /\ FinalizeMoveReservation(guard, ended, FALSE)
           /\ phase' = [phase EXCEPT ![o] =
                            IF keep \cup stuck = {} THEN "gone" ELSE "cancelling"]
           /\ pending' = [pending EXCEPT ![o] = {}]
           /\ outcome' = ToldCancelled(o)
           /\ IF stuck = {}
              THEN RefreshMoveCancellationPending /\ UNCHANGED <<timer, msgs>>
              ELSE RefreshAndScheduleRetry
           /\ UNCHANGED <<nextJob, settling, claims, failed>>

CancelOperation(o, rest) ==
    /\ stack' = rest
    /\ UNCHANGED <<lost, disarmed>>
    /\ \/ /\ phase[o] \in {"new", "gone"}
          /\ UNCHANGED <<queueVars, opVars, heartbeatDeferred, wakeVars>>
       \/ /\ phase[o] = "cancelling"
          /\ UNCHANGED <<queueVars, opVars, heartbeatDeferred>>
          /\ RefreshAndScheduleRetry
       \/ phase[o] = "live" /\ CancelLiveOperation(o)

CancelCall(o) == Calling(Cancel(o)) /\ CancelOperation(o, Rest)

\* CancelMoveJobOrDefer where the job's issued move need not be awaited, on
\* behalf of somebody else.  `base' and `held' are the jobs and reservations
\* with what the handler has changed so far; a failure is retried later.
CancelNowOrDefer(base, held, j, rest) ==
    /\ MayCancelNow(j)
    /\ \/ /\ jobs' = [k \in DOMAIN base \ {j} |-> base[k]]
          /\ DispatchMoveOwnerResult(held, j, "Cancelled", base[j].armFail, rest)
          /\ RefreshMoveCancellationPending /\ UNCHANGED <<timer, msgs>>
       \/ /\ "alloc" \in Faults
          /\ jobs' = [base EXCEPT ![j].cancelReq = TRUE]
          /\ stack' = rest
          /\ guard' = held
          /\ UNCHANGED <<settling, heartbeatDeferred, phase, failed>>
          /\ RefreshAndScheduleRetry

KeepsWish(base, j) == base
Retiring(base, j) == [base EXCEPT ![j].retire = TRUE]

-----------------------------------------------------------------------------
(* Arming the verification timer. *)

\* No timer means no queued job may issue: every job is marked first, the
\* front one is cancelled at once and the others by the retries.
ArmFailure(o) ==
    LET marked == [j \in Queue |-> [jobs[j] EXCEPT !.cancelReq = TRUE,
                                                  !.armFail = TRUE]]
        after == <<ArmTail>> \o (IF o = NoOp THEN <<>> ELSE <<Cancel(o)>>) \o Rest
    IN /\ "settimer" \in Faults
       /\ disarmed' = disarmed \cup {jobs[j].op : j \in Queue}
       /\ \E j \in Queue :
            /\ IsFront(j)
            /\ \/ /\ MayAwaitTerminal(j)
                  /\ jobs' = Retiring(marked, j)
                  /\ stack' = after
                  /\ RefreshMoveCancellationPending
                  /\ UNCHANGED <<guard, settling, heartbeatDeferred, phase,
                                 failed, timer, msgs>>
               \/ CancelNowOrDefer(marked, guard, j, after)

ArmMoveTimer(o) ==
    /\ Calling(Arm(o))
    /\ UNCHANGED <<nextJob, pending, claims, outcome, lost>>
    /\ \/ /\ Queue = {} \/ timer' = TRUE
          /\ stack' = Rest
          /\ Queue = {} => UNCHANGED timer
          /\ UNCHANGED <<jobs, guard, settling, phase, failed, heartbeatDeferred,
                         cancelPending, retry, msgs, disarmed>>
       \/ Queue # {} /\ ArmFailure(o)

\* The end of a failed arming: what is still queued has to be retried.
ArmRecovery ==
    /\ Calling(ArmTail)
    /\ stack' = Rest
    /\ UNCHANGED <<queueVars, opVars, heartbeatDeferred, lost, disarmed>>
    /\ IF Queue = {}
       THEN RefreshMoveCancellationPending /\ UNCHANGED <<timer, msgs>>
       ELSE RefreshAndScheduleRetry

-----------------------------------------------------------------------------
(* Claiming a window and queueing its move. *)

Enqueue(o, w) == [j \in Queue \cup {nextJob} |->
                    IF j = nextJob THEN NewJob(o, w) ELSE jobs[j]]
MayQueue == nextJob <= MaxJobs

OverwritesReservation(o, w) ==
    /\ MayQueue /\ guard[w] # Picker
    /\ jobs' = Enqueue(o, w)
    /\ nextJob' = nextJob + 1
    /\ guard' = [guard EXCEPT ![w] = nextJob]
    /\ UNCHANGED settling

\* QueueAutoMove: never over somebody else's reservation.
QueueAutoMove(o, w) ==
    /\ MayQueue /\ guard[w] = NoGuard
    /\ jobs' = Enqueue(o, w)
    /\ nextJob' = nextJob + 1
    /\ guard' = [guard EXCEPT ![w] = nextJob]
    /\ UNCHANGED settling

\* The plan of an automatic restore, one window at a time.  A window held by
\* the picker or already in place is passed over; one that cannot be queued
\* (reserved, budget exhausted, desktop gone, out of memory) is a failure.
AutoPlanLoop(o, todo) ==
    /\ Calling(AutoLoop(o, todo))
    /\ UNCHANGED <<phase, pending, claims, outcome, heartbeatDeferred,
                   wakeVars, lost, disarmed>>
    /\ \/ /\ todo = {}
          /\ stack' = <<IF JobsOf(o) = {} THEN Finish(o) ELSE Arm(NoOp)>> \o Rest
          /\ UNCHANGED <<queueVars, failed>>
       \/ \E w \in todo :
            /\ stack' = <<AutoLoop(o, todo \ {w})>> \o Rest
            /\ \/ UNCHANGED <<queueVars, failed>>
               \/ /\ guard[w] # Picker
                  /\ failed' = [failed EXCEPT ![o] = TRUE]
                  /\ UNCHANGED queueVars
               \/ QueueAutoMove(o, w) /\ UNCHANGED failed

\* BeginReservationHandoff: the reservations with a successor's in place.
Installed(w, successor) == [guard EXCEPT ![w] = successor]

\* QueueManualMove: the successor is queued and takes the reservation over
\* before the job that held it is cancelled.  The picker is never displaced.
QueueManualMove(o, w, rest) ==
    LET base == Enqueue(o, w)
        held == Installed(w, nextJob)
        prior == guard[w]
    IN /\ MayQueue /\ prior # Picker
       /\ nextJob' = nextJob + 1
       /\ \/ /\ prior \notin Queue
             /\ jobs' = base /\ guard' = held /\ stack' = rest
             /\ UNCHANGED <<settling, heartbeatDeferred, phase, failed, wakeVars>>
          \/ /\ prior \in Queue /\ MayAwaitTerminal(prior)
             /\ jobs' = Retiring(base, prior) /\ guard' = held /\ stack' = rest
             /\ UNCHANGED <<settling, heartbeatDeferred, phase, failed, wakeVars>>
          \/ /\ prior \in Queue
             /\ CancelNowOrDefer(base, held, prior, rest)

\* The loop keeps an iterator of its operation across QueueManualMove.  Where a
\* call in there has ended the operation, the iterator dangles: of the reads
\* that follow, the one that decides on arming the timer may give anything, and
\* the loop goes on as if the operation were there.
ManualPlanLoop(o, todo) ==
    /\ Calling(ManualLoop(o, todo))
    /\ UNCHANGED <<pending, claims, outcome, lost, disarmed>>
    /\ \/ /\ todo = {}
          /\ \E arms \in IF phase[o] = "gone" THEN BOOLEAN ELSE {JobsOf(o) # {}} :
                stack' = (IF arms THEN <<Arm(NoOp)>> ELSE <<>>)
                            \o <<Finish(o)>> \o Rest
          /\ UNCHANGED <<queueVars, phase, failed, heartbeatDeferred, wakeVars>>
       \/ \E w \in todo :
            LET rest == <<ManualLoop(o, todo \ {w})>> \o Rest
            IN \/ /\ stack' = rest
                  /\ UNCHANGED <<queueVars, phase, failed,
                                 heartbeatDeferred, wakeVars>>
               \/ QueueManualMove(o, w, rest)

-----------------------------------------------------------------------------
(* Completing an operation. *)

\* FinishManualMove
FinishManualMove(o) ==
    LET done == phase[o] = "live" /\ pending[o] = {} /\ JobsOf(o) = {}
    IN /\ Calling(Finish(o))
       /\ phase' = IF done THEN [phase EXCEPT ![o] = "gone"] ELSE phase
       /\ stack' = Rest
       /\ UNCHANGED <<queueVars, pending, claims, failed, outcome,
                      heartbeatDeferred, wakeVars, lost, disarmed>>

\* FinishAutoOperation up to the claims: an operation whose moves are not all
\* settled, or one of whose windows the picker still moves, is left alone.
FinishAutoOperation(o) ==
    LET ready == /\ phase[o] = "live" /\ JobsOf(o) = {}
                 /\ \A w \in claims[o] : guard[w] # Picker
    IN /\ Calling(Finish(o))
       /\ stack' = (IF ready THEN <<Rearm(o, claims[o], FALSE)>> ELSE <<>>) \o Rest
       /\ UNCHANGED <<queueVars, opVars, heartbeatDeferred, wakeVars, lost,
                      disarmed>>

\* The rest of FinishAutoOperation: the lifecycle hears of the result.  A
\* completion that throws is reported as exhausted.
CompleteAutoOperation(o) ==
    /\ \/ outcome' = [outcome EXCEPT ![o] =
                            IF failed[o] THEN "Exhausted" ELSE "Success"]
       \/ /\ "alloc" \in Faults
          /\ outcome' = [outcome EXCEPT ![o] = "Exhausted"]
    /\ phase' = [phase EXCEPT ![o] = "gone"]
    /\ claims' = [claims EXCEPT ![o] = {}]

\* RearmUnpublishedPickerClaimRestores, then the completion.  A claim the
\* picker published stays protected or is released to the plan; a restore the
\* picker gave up is queued again; anything else restarts the operation.
RearmPickerClaims(o, todo, queued) ==
    /\ Calling(Rearm(o, todo, queued))
    /\ UNCHANGED <<pending, failed, heartbeatDeferred, wakeVars, lost, disarmed>>
    /\ \/ /\ todo = {} /\ queued
          /\ stack' = <<Arm(o)>> \o Rest
          /\ UNCHANGED <<queueVars, phase, claims, outcome>>
       \/ /\ todo = {} /\ ~queued
          /\ CompleteAutoOperation(o)
          /\ stack' = Rest
          /\ UNCHANGED queueVars
       \/ /\ todo # {}
          /\ stack' = <<Cancel(o)>> \o Rest
          /\ UNCHANGED <<queueVars, phase, claims, outcome>>
       \/ \E w \in todo :
            /\ UNCHANGED <<phase, outcome>>
            /\ \/ /\ UNCHANGED <<queueVars, claims>>
                  /\ stack' = <<Rearm(o, todo \ {w}, queued)>> \o Rest
               \/ /\ claims' = [claims EXCEPT ![o] = @ \ {w}]
                  /\ \/ /\ UNCHANGED queueVars
                        /\ stack' = <<Rearm(o, todo \ {w}, queued)>> \o Rest
                     \/ /\ QueueAutoMove(o, w)
                        /\ stack' = <<Rearm(o, todo \ {w}, TRUE)>> \o Rest

-----------------------------------------------------------------------------
(* Window messages: what starts a handler. *)

MoveTimer ==
    /\ Idle /\ timer
    /\ stack' = <<Advance>>
    /\ UNCHANGED <<queueVars, opVars, heartbeatDeferred, wakeVars, lost, disarmed>>

\* A tick that throws before it changed anything gives the front job up.
MoveTimerThrows ==
    /\ Idle /\ timer /\ "throw" \in Faults
    /\ \/ Queue = {} /\ UNCHANGED jobs
       \/ \E j \in Queue :
            /\ IsFront(j)
            /\ \/ MayAwaitTerminal(j) /\ jobs' = Retiring(jobs, j)
               \/ MayCancelNow(j) /\ jobs' = [jobs EXCEPT ![j].cancelReq = TRUE]
    /\ RefreshAndScheduleRetry
    /\ UNCHANGED <<nextJob, guard, settling, opVars, heartbeatDeferred, lost,
                   disarmed, stack>>

CancelRequestedCount == Cardinality({j \in Queue : jobs[j].cancelReq})

\* WM_MOVE_CANCEL_RETRY
CancelRetryMessage ==
    /\ Idle /\ msgs > 0
    /\ msgs' = msgs - 1
    /\ IF cancelPending
       THEN /\ \/ stack' = <<Advance, RetryDone(CancelRequestedCount)>>
               \/ /\ "throw" \in Faults
                  /\ stack' = <<RetryDone(CancelRequestedCount)>>
            /\ UNCHANGED retry
       ELSE retry' = ClearRetry /\ UNCHANGED stack
    /\ UNCHANGED <<queueVars, opVars, heartbeatDeferred, cancelPending, timer,
                   lost, disarmed>>

\* The end of that handler: completePostedAttempt, then another retry.  The
\* counter stops at MaxNoProgress: the code tells no larger value apart.
CompletePostedAttempt(before) ==
    LET refreshed == IF AnyCancelRequested THEN retry ELSE ClearRetry
        count == IF CancelRequestedCount < before THEN 0
                 ELSE IF refreshed.noProgress < MaxNoProgress
                      THEN refreshed.noProgress + 1 ELSE MaxNoProgress
        completed == [posted |-> FALSE, noProgress |-> count]
    IN /\ Calling(RetryDone(before))
       /\ stack' = Rest
       /\ UNCHANGED <<queueVars, opVars, heartbeatDeferred, lost, disarmed>>
       /\ cancelPending' = AnyCancelRequested
       /\ \/ ~cancelPending' /\ retry' = completed /\ UNCHANGED <<timer, msgs>>
          \/ /\ cancelPending'
             /\ timer' = TRUE /\ retry' = ClearRetry /\ UNCHANGED msgs
          \/ /\ cancelPending' /\ "settimer" \in Faults
             /\ UNCHANGED timer /\ PostRetry(completed)

\* BeginAutoRestore: the lifecycle runs one restore of an application at a time.
BeginAutoRestore(o) ==
    /\ Idle /\ phase[o] = "new"
    /\ \A p \in AutoOps : phase[p] = "live" => AppOf[p] # AppOf[o]
    /\ phase' = [phase EXCEPT ![o] = "live"]
    /\ pending' = [pending EXCEPT ![o] = {AppOf[o]}]
    /\ UNCHANGED <<queueVars, claims, failed, outcome, heartbeatDeferred,
                   wakeVars, lost, disarmed, stack>>

OpenWindows(a) == {w \in Windows \ lost : AppOf[w] = a}

\* TransferLateAcceptedPlanRecordToPicker: the planned windows that the picker
\* holds are handed to it as claims on the operation.
TransferLateAcceptedPlanRecords(o, held) ==
    claims' = [claims EXCEPT ![o] = held]

\* HandleReconcileResult with the accepted plan of an automatic restore.  If
\* a planned window cannot be handed to the picker, the plan is rejected.
AutoPlanResult(o) ==
    /\ Idle /\ phase[o] = "live" /\ pending[o] # {}
    /\ \E plan \in SUBSET OpenWindows(AppOf[o]) :
        LET held == {w \in plan : guard[w] = Picker}
        IN \/ /\ TransferLateAcceptedPlanRecords(o, held)
              /\ pending' = [pending EXCEPT ![o] = {}]
              /\ stack' = <<AutoLoop(o, plan \ held)>>
           \/ /\ held # {}
              /\ stack' = <<Cancel(o)>>
              /\ UNCHANGED <<claims, pending>>
    /\ UNCHANGED <<queueVars, phase, failed, outcome, heartbeatDeferred,
                   wakeVars, lost, disarmed>>

\* The session data was unavailable or the plan too complex.
AutoPlanDeferred(o) ==
    /\ Idle /\ phase[o] = "live" /\ pending[o] # {}
    /\ phase' = [phase EXCEPT ![o] = "gone"]
    /\ pending' = [pending EXCEPT ![o] = {}]
    /\ outcome' = [outcome EXCEPT ![o] = "Deferred"]
    /\ UNCHANGED <<queueVars, claims, failed, heartbeatDeferred, wakeVars,
                   lost, disarmed, stack>>

\* StartManualRestore first cancels every earlier manual restore.
ManualRestoreClick(o) ==
    /\ Idle /\ phase[o] = "new"
    /\ stack' = <<StartManual(o, {p \in ManualOps : phase[p] \in {"live", "cancelling"}})>>
    /\ UNCHANGED <<queueVars, opVars, heartbeatDeferred, wakeVars, lost, disarmed>>

StartManualRestore(o, old) ==
    /\ Calling(StartManual(o, old))
    /\ \/ \E p \in old : CancelOperation(p, <<StartManual(o, old \ {p})>> \o Rest)
       \/ /\ old = {}
          /\ UNCHANGED <<queueVars, claims, failed, outcome,
                         heartbeatDeferred, wakeVars, lost, disarmed>>
          /\ \/ stack' = Rest /\ UNCHANGED <<phase, pending>>
             \/ \E asked \in SUBSET Apps :
                 /\ phase' = [phase EXCEPT ![o] = "live"]
                 /\ pending' = [pending EXCEPT ![o] = asked]
                 /\ \/ stack' = <<Finish(o)>> \o Rest
                    \/ stack' = <<Cancel(o)>> \o Rest

\* One application's result of a manual restore: its plan is carried out, or
\* the application is left out because its session data was unusable.
ManualPlanResult(o, a) ==
    /\ Idle /\ phase[o] = "live" /\ a \in pending[o]
    /\ pending' = [pending EXCEPT ![o] = @ \ {a}]
    /\ \/ stack' = <<Finish(o)>>
       \/ \E plan \in SUBSET OpenWindows(a) : stack' = <<ManualLoop(o, plan)>>
    /\ UNCHANGED <<queueVars, phase, claims, failed, outcome, heartbeatDeferred,
                   wakeVars, lost, disarmed>>

\* A stale, superseded or failed result, an expired deadline.
RetireOperation(o) ==
    /\ Idle /\ phase[o] = "live" /\ pending[o] # {}
    /\ stack' = <<Cancel(o)>>
    /\ UNCHANGED <<queueVars, opVars, heartbeatDeferred, wakeVars, lost, disarmed>>

\* ResetAutoRuntimeState cancels automatic restores whatever they wait for.
ResetAutoRuntime(o) ==
    /\ Idle /\ phase[o] = "live"
    /\ stack' = <<Cancel(o)>>
    /\ UNCHANGED <<queueVars, opVars, heartbeatDeferred, wakeVars, lost, disarmed>>

\* BeginPickerAction.  One transition at a time; the picker takes a window
\* that is free or whose automatic move has not been issued, and never while
\* a cancelled restore of the application still settles.  Displacing the move
\* of an accepted plan leaves a claim on its operation.
PickerMaySupersede(j) ==
    /\ jobs[j].op \in AutoOps
    /\ ~jobs[j].cancelReq /\ ~jobs[j].retire /\ ~jobs[j].awaiting
    /\ ~(IsFront(j) /\ jobs[j].waiting)

BeginPickerAction(w) ==
    LET prior == guard[w]
        held == Installed(w, Picker)
        accepted == {o \in AutoOps : /\ AppOf[o] = AppOf[w]
                                     /\ phase[o] = "live" /\ pending[o] = {}}
        Claim(owners) == claims' = [o \in AutoOps |->
            IF o \in owners THEN claims[o] \cup {w} ELSE claims[o]]
    IN /\ Idle /\ w \notin lost
       /\ \A v \in Windows : guard[v] # Picker
       /\ \A o \in AutoOps : AppOf[o] = AppOf[w] => phase[o] # "cancelling"
       /\ UNCHANGED <<nextJob, pending, outcome, lost, disarmed>>
       /\ \/ /\ prior = NoGuard
             /\ \E owners \in {{}, accepted} : Claim(owners)
             /\ guard' = held
             /\ UNCHANGED <<jobs, settling, phase, failed, heartbeatDeferred,
                            wakeVars, stack>>
          \/ /\ prior \in Queue /\ PickerMaySupersede(prior)
             /\ Claim({jobs[prior].op})
             /\ CancelNowOrDefer(jobs, held, prior, <<>>)

\* FinalizePickerRuntimeTransition: the deferred heartbeat runs under the
\* reservation, which is then released, and the restores that waited for the
\* window are completed.
PickerTransitionEnds(w) ==
    LET waiting == {o \in AutoOps : w \in claims[o] /\ JobsOf(o) = {}
                                    /\ phase[o] \in {"live", "cancelling"}}
    IN /\ Idle /\ guard[w] = Picker
       /\ guard' = [guard EXCEPT ![w] = NoGuard]
       /\ heartbeatDeferred' = FALSE
       /\ \/ waiting = {} /\ UNCHANGED stack
          \/ \E o \in waiting : stack' = <<Finish(o)>>
       /\ UNCHANGED <<jobs, nextJob, settling, opVars, wakeVars, lost, disarmed>>

\* TIMER_HEARTBEAT: CheckpointAutoLayout defers while a window is reserved.
Heartbeat ==
    /\ Idle
    /\ heartbeatDeferred' = (Guarded # {} \/ heartbeatDeferred)
    /\ UNCHANGED <<queueVars, opVars, wakeVars, lost, disarmed, stack>>

WindowCloses(w) ==
    /\ Idle /\ w \notin lost
    /\ lost' = lost \cup {w}
    /\ UNCHANGED <<queueVars, opVars, heartbeatDeferred, wakeVars, disarmed, stack>>

-----------------------------------------------------------------------------
Calls ==
    \/ AdvanceMoveQueue \/ DrainQueue \/ ArmRecovery
    \/ \E n \in 0..MaxJobs : CompletePostedAttempt(n)
    \/ \E j \in settling : \E ok \in BOOLEAN : ReleaseReservation(j, ok)
    \/ \E o \in Ops : CancelCall(o)
    \/ \E o \in AutoOps \cup {NoOp} : ArmMoveTimer(o)
    \/ \E o \in ManualOps : \/ FinishManualMove(o)
                            \/ \E old \in SUBSET ManualOps : StartManualRestore(o, old)
                            \/ \E todo \in SUBSET Windows : ManualPlanLoop(o, todo)
    \/ \E o \in AutoOps : \/ FinishAutoOperation(o)
                          \/ \E todo \in SUBSET Windows :
                                \/ AutoPlanLoop(o, todo)
                                \/ \E queued \in BOOLEAN : RearmPickerClaims(o, todo, queued)

Next ==
    \/ Calls
    \/ MoveTimer \/ MoveTimerThrows \/ CancelRetryMessage \/ Heartbeat
    \/ \E o \in AutoOps : \/ BeginAutoRestore(o) \/ AutoPlanResult(o)
                          \/ AutoPlanDeferred(o) \/ ResetAutoRuntime(o)
    \/ \E o \in ManualOps : \/ ManualRestoreClick(o)
                            \/ \E a \in Apps : ManualPlanResult(o, a)
    \/ \E o \in Ops : RetireOperation(o)
    \/ \E w \in Windows : \/ BeginPickerAction(w) \/ PickerTransitionEnds(w)
                          \/ WindowCloses(w)

Spec == Init /\ [][Next]_vars

\* A handler runs to its end.  The timer ticks again and again while it is set,
\* a posted message is delivered, however many other messages interleave.  An
\* operation that waits for results hears of them or of its deadline
\* (AsyncReconcileDeadlineGate), and a picker transition ends by its own timer.
Fairness ==
    /\ WF_vars(Calls)
    /\ SF_vars(MoveTimer) /\ SF_vars(CancelRetryMessage)
    /\ SF_vars(\E o \in Ops : RetireOperation(o))
    /\ SF_vars(\E w \in Windows : PickerTransitionEnds(w))
FairSpec == Spec /\ Fairness

-----------------------------------------------------------------------------
(* What makes the engine correct. *)

\* Every variable keeps its type: queued ids were handed out, a reservation
\* names nobody, the picker or a job id, a history entry names an operation.
TypeOK ==
    /\ Queue \subseteq 1..(nextJob - 1) /\ nextJob \in 1..(MaxJobs + 1)
    /\ jobs \in [Queue -> Job]
    /\ guard \in [Windows -> {NoGuard, Picker} \cup JobIds]
    /\ settling \subseteq JobIds
    /\ phase \in [Ops -> {"new", "live", "cancelling", "gone"}]
    /\ pending \in [Ops -> SUBSET Apps]
    /\ claims \in [AutoOps -> SUBSET Windows]
    /\ failed \in [AutoOps -> BOOLEAN]
    /\ outcome \in [AutoOps ->
            {"none", "Success", "Exhausted", "Deferred", "Cancelled"}]
    /\ heartbeatDeferred \in BOOLEAN /\ cancelPending \in BOOLEAN
    /\ timer \in BOOLEAN
    /\ retry \in [posted : BOOLEAN, noProgress : 0..MaxNoProgress]
    /\ msgs \in 0..MaxPosts
    /\ lost \subseteq Windows /\ disarmed \subseteq Ops

\* A job that is neither cancelled nor retiring still may issue its move.
MayIssue(j) == ~jobs[j].cancelReq /\ ~jobs[j].retire

\* A job that may still issue a move holds the reservation of its window, so
\* no two owners ever move one window against each other: a successor takes
\* the reservation only together with the displaced job's cancellation
\* (BeginReservationHandoff, CancelDisplacedReservationHandoff).
MoverHoldsGuard == \A j \in Queue : MayIssue(j) => guard[jobs[j].win] = j

\* A reservation of a queued move names a job that is still queued, for that
\* window, or one the running handler is settling.  A reservation left behind
\* would keep the window from every later restore and defer heartbeat
\* checkpoints for ever.
NoLeakedGuard ==
    \A w \in Windows : guard[w] \in JobIds =>
        \/ guard[w] \in Queue /\ jobs[guard[w]].win = w
        \/ guard[w] \in settling

\* Only the front of the queue can be waiting for its readback, an unread
\* move is one that waits, and a job retires only while it waits: at most one
\* move is in flight, and retirement never keeps a job that was not issued.
OneMoveInFlight ==
    \A j \in Queue :
        /\ jobs[j].awaiting => jobs[j].waiting
        /\ jobs[j].retire => jobs[j].waiting
        /\ jobs[j].waiting => IsFront(j) /\ jobs[j].attempts > 0

\* A manual restore that lost all its moves when the timer could not be set and
\* is gone, although the loop over its plan may still be running.
Orphaned(o) == o \in ManualOps \cap disarmed /\ phase[o] = "gone"

\* A queued job belongs to an operation that still exists, so its result is
\* never dropped (DispatchMoveOwnerResult returns at once for an unknown one).
\* Only moves of an orphaned manual restore have nobody to report to.
QueuedJobHasOwner ==
    \A j \in Queue : \/ phase[jobs[j].op] \in {"live", "cancelling"}
                     \/ Orphaned(jobs[j].op)

\* The same without the exception: whoever stages a successor is still there
\* when the displaced move has been cancelled (the comment at
\* lifecycle.hpp:1372).  It does not hold (see README.md, "Known
\* disagreements").
SuccessorsStayOwned ==
    \A j \in Queue : phase[jobs[j].op] \in {"live", "cancelling"}

\* A deferred heartbeat checkpoint always has a reservation whose end runs it.
DeferredHeartbeatHasGuard == heartbeatDeferred => Guarded # {}

\* Between two messages no reservation waits to be released and no operation
\* waits for nothing: a cancelled one has a job left to settle, a live one a
\* result, a job or a picker move to come.
NoStuckOperation ==
    Idle =>
        /\ settling = {}
        /\ \A o \in Ops :
            /\ phase[o] = "cancelling" => JobsOf(o) # {}
            /\ phase[o] = "live" =>
                \/ pending[o] # {}
                \/ JobsOf(o) # {}
                \/ o \in AutoOps /\ \E w \in claims[o] : guard[w] = Picker

\* Between two messages a queue without its timer holds only jobs that were
\* cancelled when the timer could not be set: no wanted move is stranded.
UntimedQueueIsCancelled ==
    Idle /\ ~timer => \A j \in Queue : jobs[j].cancelReq

\* A cancellation that could not be carried out is published, and between two
\* messages something is on its way to retry it unless posting failed or the
\* attempts without progress are used up.
CancellationIsRetried ==
    /\ Idle => \A j \in Queue : jobs[j].cancelReq => cancelPending
    /\ Idle /\ cancelPending /\ Queue # {} =>
        \/ timer \/ msgs > 0
        \/ retry.noProgress >= MaxNoProgress
        \/ "post" \in Faults \/ MaxPosts = 0

\* The lifecycle hears of every automatic restore before it disappears, and
\* not while it is live: otherwise the application would stay "restoring".
LifecycleIsTold ==
    \A o \in AutoOps :
        (phase[o] \in {"cancelling", "gone"}) <=> outcome[o] # "none"

\* An automatic restore that owned a job when the timer could not be set
\* never completes as a success (the comment at vde.cpp:3778).
ArmFailureIsNoSuccess ==
    \A o \in AutoOps : o \in disarmed => outcome[o] # "Success"

\* An issue is a step that makes a job wait.  It is taken only for the holder
\* of the window's reservation, on behalf of a live operation that wants it (or
\* an orphaned one), and never while another move is unread.
IssueIsAuthorised ==
    [][\A j \in Queue \cap DOMAIN jobs' :
        ~jobs[j].waiting /\ jobs'[j].waiting =>
            /\ guard[jobs[j].win] = j
            /\ MayIssue(j)
            /\ phase[jobs[j].op] = "live" \/ Orphaned(jobs[j].op)
            /\ \A k \in Queue : ~jobs[k].waiting]_vars

\* The operations and their jobs fit together whatever was cancelled, displaced
\* or refused: no result is dropped, no operation waits for nothing, and the
\* lifecycle is told of each end once the last job is settled, not before.
OperationsFollowJobs == QueuedJobHasOwner /\ NoStuckOperation /\ LifecycleIsTold

\* Failing calls strand nothing: a job that nobody will look at is cancelled,
\* a cancellation that failed is tried again, and a restore that lost a move
\* this way is no success.
NothingIsStranded ==
    UntimedQueueIsCancelled /\ CancellationIsRetried /\ ArmFailureIsNoSuccess

\* What the comments at lifecycle.hpp:503 and lifecycle.hpp:1373 say: while a
\* move of an existing window is unread, the window is reserved, so that no
\* heartbeat checkpoint records it half-way.  It does not hold (see README.md,
\* "Known disagreements").
UnreadMoveIsReserved ==
    \A j \in Queue : jobs[j].awaiting /\ jobs[j].win \notin lost =>
        guard[jobs[j].win] # NoGuard

\* The queue, the operations, the timer and every failure of them only ever do
\* what MoveContract promises of the windows.
Contract == INSTANCE MoveContract WITH
    Jobs <- JobIds, holder <- guard,
    wanted <- {j \in Queue : MayIssue(j)},
    flight <- {j \in Queue : jobs[j].waiting}
ImplementsContract == Contract!ContractSpec

\* Every queued move is settled: retries, indeterminate readings and the wait
\* for a cancelled move's readback all run out of budget.
EveryJobSettles == \A j \in 1..MaxJobs : j \in Queue ~> j \notin Queue

\* Every restore that was started ends: it is completed, deferred or cancelled.
EveryOperationEnds ==
    \A o \in Ops : phase[o] \in {"live", "cancelling"} ~> phase[o] = "gone"

\* A heartbeat checkpoint that was deferred runs in the end.
DeferredHeartbeatRuns == heartbeatDeferred ~> ~heartbeatDeferred

\* Whatever is displaced, cancelled or retired: every queued move is settled,
\* every restore ends and a deferred heartbeat checkpoint runs.
EverythingSettles ==
    EveryJobSettles /\ EveryOperationEnds /\ DeferredHeartbeatRuns
=============================================================================
