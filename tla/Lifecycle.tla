------------------------------ MODULE Lifecycle ------------------------------
(***************************************************************************)
(* The restore lifecycle of one browser: the LcState record of             *)
(* src/src/lifecycle.hpp and the functions that advance it.  Everything    *)
(* here is a pure operator from one LcState to the next; AutoRestore calls *)
(* them from its actions, the way vde.cpp calls them from its handlers.    *)
(*                                                                         *)
(* Signatures are modelled by what they summarise: the set of open         *)
(* windows, the titles, the function from windows to desktops.  Time is    *)
(* kept as the units elapsed since the restore was last armed, because     *)
(* appearanceSinceMs and retryNotBeforeMs are always set together.  A      *)
(* request for a save is answered inside the same heartbeat, so            *)
(* saveInFlight is never TRUE between two actions.                         *)
(***************************************************************************)
EXTENDS Naturals

CONSTANTS Window,        \* window identities (HWND, PID, process start)
          Desktop,
          Away,          \* where a window that is not open is
          Titles,        \* summaries of the titles of all windows
          Stamp,         \* versions of the browser's session file
          SettleTime,    \* LC_SETTLE_TIMEOUT_MS
          BackoffTime,   \* LC_DEFERRED_BACKOFF_MS
          MaxDeferrals   \* deferrals of one input before it is given up

ASSUME LifecycleAssumption ==
  /\ Away \notin Desktop
  /\ Titles \subseteq Nat /\ 0 \in Titles
  /\ Stamp \subseteq Nat /\ 0 \in Stamp
  /\ SettleTime \in Nat /\ BackoffTime \in Nat
  /\ MaxDeferrals \in Nat \ {0}

\* Ages saturate where no comparison can tell them apart.
OldAge == IF SettleTime > BackoffTime THEN SettleTime ELSE BackoffTime

Layout == [Window -> Desktop \cup {Away}]
Open(layout) == {w \in Window : layout[w] # Away}
NoLayout == [w \in Window |-> Away]

LcState ==
  [initialized : BOOLEAN, present : BOOLEAN, pending : BOOLEAN,
   inFlight : BOOLEAN, rearm : BOOLEAN, givenUp : BOOLEAN,
   stable : 0..2, attempts : 0..MaxDeferrals, age : 0..OldAge,
   backoff : BOOLEAN, titles : Titles, layout : Layout, stamp : Stamp,
   completed : Layout, inFlightSet : SUBSET Window,
   deferredSet : SUBSET Window, deferredStamp : Stamp]

\* An LcState before the first observation.
LcNew ==
  [initialized |-> FALSE, present |-> FALSE, pending |-> FALSE,
   inFlight |-> FALSE, rearm |-> FALSE, givenUp |-> FALSE,
   stable |-> 0, attempts |-> 0, age |-> 0, backoff |-> FALSE,
   titles |-> 0, layout |-> NoLayout, stamp |-> 0,
   completed |-> NoLayout, inFlightSet |-> {},
   deferredSet |-> {}, deferredStamp |-> 0]

\* The age is read only while a restore is pending.
LcElapse(lc) ==
  [lc EXCEPT !.age = IF lc.pending /\ @ < OldAge THEN @ + 1 ELSE @]

LcResetDeferred(lc) ==
  [lc EXCEPT !.attempts = 0, !.givenUp = FALSE, !.backoff = FALSE,
             !.deferredSet = {}, !.deferredStamp = 0]

LcArmPending(lc, snapshots) ==
  [lc EXCEPT !.pending = TRUE, !.stable = snapshots, !.age = 0]

LcRearm(lc, snapshots) == LcArmPending(LcResetDeferred(lc), snapshots)

----------------------------------------------------------------------------
(***************************************************************************)
(* LcObserve: one heartbeat's view of the browser.  A decision is the next *)
(* state with the action the heartbeat has to take.                        *)
(***************************************************************************)
Decide(lc, action) == [lc |-> lc, action |-> action]

Seeing(lc, layout, titles, stamp) ==
  [lc EXCEPT !.present = Open(layout) # {}, !.layout = layout,
             !.titles = titles, !.stamp = stamp]

FirstSight(lc, layout, titles, stamp) ==
  LET seen == [Seeing(lc, layout, titles, stamp) EXCEPT
                 !.initialized = TRUE, !.completed = layout]
  IN IF seen.present THEN Decide(LcArmPending(seen, 1), "None")
                     ELSE Decide(seen, "MarkMissing")

\* The inputs a restore was run for are no longer the ones seen now.
InputsChanged(lc, layout, stamp) ==
  ~lc.present \/ Open(lc.layout) # Open(layout) \/ lc.stamp # stamp

LcGone(lc, seen) ==
  Decide([seen EXCEPT !.pending = FALSE, !.stable = 0,
                      !.rearm = @ \/ (lc.present /\ lc.inFlight)],
         IF lc.present THEN "MarkMissing" ELSE "None")

EqualSnapshots(lc, titles) ==
  IF lc.titles # titles THEN 1
  ELSE IF lc.stable < 2 THEN lc.stable + 1 ELSE 2

LcSettle(lc, seen, titles) ==
  LET stable == EqualSnapshots(lc, titles)
      due == /\ stable = 2 \/ lc.age >= SettleTime
             /\ lc.backoff => lc.age >= BackoffTime
  IN IF due
     THEN Decide([seen EXCEPT !.pending = FALSE, !.rearm = FALSE,
                              !.stable = 0, !.inFlight = TRUE,
                              !.inFlightSet = Open(seen.layout),
                              !.backoff = FALSE],
                 "BeginRestore")
     ELSE Decide([seen EXCEPT !.stable = stable], "None")

LcObserve(lc, layout, titles, stamp) ==
  LET changed == InputsChanged(lc, layout, stamp)
      seen == Seeing(lc, layout, titles, stamp)
  IN CASE ~lc.initialized -> FirstSight(lc, layout, titles, stamp)
       [] lc.initialized /\ ~seen.present -> LcGone(lc, seen)
       [] lc.initialized /\ seen.present /\ lc.inFlight ->
            Decide([seen EXCEPT !.rearm = @ \/ changed], "None")
       [] lc.initialized /\ seen.present /\ ~lc.inFlight /\ changed ->
            Decide(LcRearm(seen, 1), "None")
       [] OTHER ->
            IF lc.givenUp THEN Decide(seen, "None")
            ELSE IF lc.pending THEN LcSettle(lc, seen, titles)
            ELSE Decide(seen, IF layout # lc.completed THEN "SaveLayout"
                                                       ELSE "None")

----------------------------------------------------------------------------
(***************************************************************************)
(* How a restore ends.                                                     *)
(***************************************************************************)
Landed(lc) == [lc EXCEPT !.inFlight = FALSE, !.inFlightSet = {},
                         !.rearm = FALSE]
QueuedRearm(lc) == lc.rearm /\ lc.present

\* Seeded fault: every deferral is taken for the first.
CountsAfresh(lc, stamp) == 1

\* The same windows and the same session file were deferred before.
Deferrals(lc, stamp) ==
  IF lc.deferredSet = lc.inFlightSet /\ lc.deferredStamp = stamp
  THEN IF lc.attempts < MaxDeferrals THEN lc.attempts + 1 ELSE lc.attempts
  ELSE 1

LcDeferred(lc, stamp) ==
  LET counted == [Landed(lc) EXCEPT !.attempts = Deferrals(lc, stamp),
                                    !.deferredSet = lc.inFlightSet,
                                    !.deferredStamp = stamp]
  IN IF QueuedRearm(lc) THEN LcRearm(Landed(lc), 0)
     ELSE IF counted.attempts >= MaxDeferrals
     THEN [counted EXCEPT !.pending = FALSE, !.stable = 0,
                          !.givenUp = TRUE, !.backoff = FALSE]
     ELSE IF lc.present
     THEN LcArmPending([counted EXCEPT !.givenUp = FALSE,
                                       !.backoff = TRUE], 0)
     ELSE counted

LcConcluded(lc, layout) ==
  LET done == LcResetDeferred([Landed(lc) EXCEPT !.completed = layout])
  IN IF QueuedRearm(lc) THEN LcArmPending(done, 0) ELSE done

\* LcRestoreCompleted; "Success" and "Exhausted" are concluded alike.
LcRestoreCompleted(lc, outcome, layout, stamp) ==
  IF ~lc.inFlight THEN lc
  ELSE IF outcome = "Deferred" THEN LcDeferred(lc, stamp)
                               ELSE LcConcluded(lc, layout)

\* LcCancelRestore(..., rearm = true): every caller but a reset rearms.
LcCancelRestore(lc) ==
  LET dropped == [Landed(lc) EXCEPT !.pending = FALSE, !.stable = 0,
                                    !.backoff = FALSE]
  IN IF ~lc.inFlight THEN lc
     ELSE IF lc.present THEN LcRearm(dropped, 0) ELSE dropped

\* The heartbeat's save recorded every window of the layout it asked for.
LcExplicitSaveCompleted(lc, layout) ==
  LcResetDeferred([lc EXCEPT !.completed = layout])

\* ... or some window had no record to save into.
LcExplicitSaveNeedsReconcile(lc, layout) ==
  LET saved == LcExplicitSaveCompleted(lc, layout)
  IN IF lc.present THEN LcRearm(saved, 0) ELSE saved
=============================================================================
