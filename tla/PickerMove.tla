----------------------------- MODULE PickerMove -----------------------------
(***************************************************************************)
(* Moving a window from the picker (src/src/vde.cpp): the reducer of       *)
(* module PickerTransition, the pump that carries out its effects and      *)
(* returns what it observed, and the desktops, windows and layout records  *)
(* the effects act on.                                                     *)
(*                                                                         *)
(* The pump runs on the message thread.  It may be started by a posted     *)
(* message, by a timer, or, when neither could be had, by whatever message *)
(* comes next (the durable kick).  While it is inside a call to Windows,   *)
(* messages are dispatched: the user may cancel, a posted message may be   *)
(* used up in vain, the session may ask to end.  Windows may refuse a      *)
(* call, do nothing, or fail to answer; posting and arming may fail; the   *)
(* user moves windows and switches desktops meanwhile.  Each such step     *)
(* uses up some of a bound in Budgets.                                     *)
(***************************************************************************)
EXTENDS PickerTransition

CONSTANTS Modes,   \* the modes the user asks for
          Budgets, \* bounds on the environment's steps
          PostCap  \* more posted messages than this are like this many

ASSUME PickerMoveAssumption == Modes \subseteq Mode /\ PostCap \in Nat \ {0}

VARIABLES
  t,         \* g_picker.transition
  work,      \* what the pump has to do
  pump,      \* g_pickerPumpActive, and whether it is inside a call
  q,         \* what will start the pump again
  drain,     \* passes left of the shutdown drain plus one; 0 if none
  quit,      \* why the drain runs
  at,        \* where the target, the popup and the view are
  alive,     \* the target window exists
  calm,      \* nobody else moved a piece since the transition began
  shown,     \* the popup is visible
  badge,     \* a visual assignment is published
  saved,     \* this transition published the target's place in the layout
  left       \* how many such steps there may still be

world == <<at, alive, calm, shown, badge, saved>>
vars == <<t, work, pump, q, drain, quit, world, left>>

Nothing == [kind |-> None, to |-> NoDesktop, fresh |-> FALSE]
NoObservation == [kind |-> None, fresh |-> FALSE]

Rest == [sched |-> Nothing, due |-> FALSE, call |-> Nothing,
         kick |-> NoObservation, terminal |-> FALSE]

Idling == t.phase = "Idle"
Stopped == quit = "ended"
Follows(m) == m \in {"MoveAndFollow", "VisualAndFollow"}
Pending(w) == w.sched.kind # None \/ w.kick.kind # None \/ w.terminal

Observation(e) ==
  [kind |-> e.kind, fresh |-> e.fresh, match |-> FALSE, invoked |-> FALSE,
   seen |-> NoDesktop, ok |-> FALSE, save |-> "Failed"]

Init ==
  /\ t = Idle /\ work = Rest /\ pump = "off"
  /\ \E armed \in BOOLEAN : q = [posted |-> 0, timer |-> armed, durable |-> FALSE]
  /\ drain = 0 /\ quit = "no"
  /\ at \in [Piece -> Desktops]
  /\ alive = TRUE /\ calm = TRUE /\ shown = TRUE /\ badge = FALSE
  /\ saved = FALSE /\ left \in Budgets

-----------------------------------------------------------------------------
(* Getting the pump started again.  A route is what the queue becomes, what *)
(* it costs the environment, and whether the work is out of our hands.      *)

Route(r, cost, ok) == [q |-> r, cost |-> cost, ok |-> ok]

Posting(r) ==
  {Route([r EXCEPT !.posted = IF @ < PostCap THEN @ + 1 ELSE @], 0, TRUE),
   Route([r EXCEPT !.timer = TRUE], 1, TRUE),
   Route(r, 1, FALSE)}

\* A reading waits for its time, and is never posted at once.
Deferral(r, draining, delayed) ==
  CASE draining -> {Route(r, 0, FALSE)}
    [] ~draining /\ delayed
         -> {Route([r EXCEPT !.timer = TRUE, !.durable = FALSE], 0, TRUE),
             Route([r EXCEPT !.durable = TRUE], 1, TRUE)}
    [] OTHER -> {Route(IF x.ok THEN [x.q EXCEPT !.durable = FALSE] ELSE x.q,
                       x.cost, x.ok) : x \in Posting(r)}

Takes(r, spent) ==
  /\ spent.losses >= r.cost
  /\ left' = [spent EXCEPT !.losses = @ - r.cost]

\* The pump ends with work to do.  A reading that waits has its own timer;
\* for anything else the pump is started again.
Leaves(route, held, spent) ==
  \E again \in IF held THEN {Route(route.q, 0, TRUE)}
               ELSE Deferral(route.q, drain # 0, FALSE) :
     LET both == Route(IF again.ok THEN again.q
                       ELSE [again.q EXCEPT !.durable = TRUE],
                       route.cost + again.cost, TRUE)
     IN /\ pump' = "off" /\ q' = both.q /\ Takes(both, spent)

\* Inside the pump: hand the work over and leave, or go on at once.
DeferOrGoOn(held) ==
  \E r \in Deferral(q, drain # 0, held) :
     IF r.ok THEN Leaves(r, held, left)
     ELSE q' = r.q /\ Takes(r, left) /\ pump' = "run"

StartPump(r) == [r EXCEPT !.timer = FALSE, !.durable = FALSE]

\* Outside the pump: hand the work over, or run the pump now.
DeferOrRun(delayed, spent) ==
  \E r \in Deferral(q, drain # 0, delayed) :
     LET inline == ~r.ok /\ pump = "off"
     IN /\ Takes(r, spent)
        /\ q' = IF inline THEN StartPump(r.q) ELSE r.q
        /\ pump' = IF inline THEN "run" ELSE pump

Staged(w, e) == [w EXCEPT !.sched = [kind |-> e.kind, to |-> e.to, fresh |-> TRUE],
                          !.due = e.kind \notin Reads]

\* QueuePickerEffect: what the reducer returned becomes work.
Queued(u, w) ==
  CASE u.out.kind # None /\ w.sched.kind # None
         -> [t |-> [u EXCEPT !.failed = TRUE, !.quiet = TRUE, !.ack = TRUE],
             work |-> [w EXCEPT !.terminal = TRUE], post |-> "no"]
    [] u.out.kind # None /\ w.sched.kind = None
         -> [t |-> u, work |-> Staged(w, u.out),
             post |-> IF u.out.kind \in Reads THEN "later" ELSE "now"]
    [] u.out.kind = None /\ u.ack
         -> [t |-> u, work |-> [w EXCEPT !.terminal = TRUE], post |-> "now"]
    [] OTHER -> [t |-> u, work |-> w, post |-> "no"]

\* ... and the pump is started; `spent' is what is left to spend.
Queue(c, spent) ==
  /\ t' = c.t /\ work' = c.work
  /\ IF c.post = "no" THEN UNCHANGED <<q, pump>> /\ left' = spent
     ELSE DeferOrRun(c.post = "later", spent)

-----------------------------------------------------------------------------
(* The user. *)

\* BeginPickerAction's checks.  The row or tile is current, the window is
\* there, and what cannot be moved is only ever shown elsewhere.
MayBegin(mode, sticky, dest) ==
  /\ Idling /\ pump = "off" /\ drain = 0 /\ quit # "ended"
  /\ left.moves > 0 /\ shown /\ alive
  /\ mode \in {"MoveAndFollow", "RowMoveOnly"} => at["target"] # dest
  /\ sticky => Follows(mode)

\* DrivePickerPopupBinding: a popup that has no desktop is given the current
\* one before a transition that takes it along.
PopupBound(mode, sticky) ==
  IF Follows(mode) /\ ~sticky
  THEN {at, [at EXCEPT !["popup"] = at["current"]]} ELSE {at}

\* The picker's reservation replaces any other, and the first effect is queued.
BeginPickerAction(mode, sticky, dest) ==
  /\ MayBegin(mode, sticky, dest)
  /\ at' \in PopupBound(mode, sticky)
  /\ saved' = FALSE /\ calm' = TRUE
  /\ Queue(Queued(Begin(mode, sticky, at', dest), work),
           [left EXCEPT !.moves = @ - 1])
  /\ UNCHANGED <<drain, quit, alive, shown, badge>>

\* DiscardPickerUnissuedEffectForCancel
Discards ==
  /\ work.sched.fresh /\ work.sched.kind \notin {None, "Hide"}
  /\ ~t.dismissed /\ ~t.cancelled
  /\ ~(t.phase = "SaveExactTarget" /\ t.cutoff) /\ t.phase # "RefreshModel"

\* An effect that replaces the awaited one makes its observation stale.
Superseded(w, u) ==
  IF u.out.kind = None THEN w
  ELSE [w EXCEPT !.call.fresh = FALSE, !.kick.fresh = FALSE, !.sched.fresh = FALSE]

Cancelled ==
  LET u == CancelRequested(t, Discards)
      w == IF Discards THEN [work EXCEPT !.sched = Nothing, !.due = FALSE] ELSE work
  IN Queued(u, Superseded(w, u))

RequestPickerCancellation ==
  /\ ~Idling /\ pump # "run" /\ drain = 0 /\ ~Stopped
  /\ left.cancels > 0 /\ ~t.dismissed
  /\ Queue(Cancelled, [left EXCEPT !.cancels = @ - 1])
  /\ UNCHANGED <<drain, quit, world>>

\* The user, another program or a late effect of an earlier call moves a
\* window or switches the desktop.
Disturb(p, d) ==
  /\ ~Idling /\ ~Stopped /\ left.others > 0 /\ at[p] # d
  /\ at' = [at EXCEPT ![p] = d] /\ calm' = FALSE
  /\ left' = [left EXCEPT !.others = @ - 1]
  /\ UNCHANGED <<t, work, pump, q, drain, quit, alive, shown, badge, saved>>

TargetCloses ==
  /\ ~Idling /\ ~Stopped /\ left.others > 0 /\ alive
  /\ alive' = FALSE
  /\ left' = [left EXCEPT !.others = @ - 1]
  /\ UNCHANGED <<t, work, pump, q, drain, quit, at, calm, shown, badge, saved>>

-----------------------------------------------------------------------------
(* Starting the pump. *)

Starts(r) ==
  /\ pump = "off" /\ drain = 0 /\ ~Stopped
  /\ pump' = "run" /\ q' = StartPump(r)
  /\ UNCHANGED <<t, work, drain, quit, world, left>>

PostedMessage == q.posted > 0 /\ Starts([q EXCEPT !.posted = @ - 1])
TransitionTimer == q.timer /\ (~Idling \/ Pending(work)) /\ Starts(q)
OtherMessage == q.durable /\ Starts(q)

\* Inside a call, a posted message finds the pump active and is lost.
PostedInVain ==
  /\ pump = "call" /\ q.posted > 0
  /\ q' = [q EXCEPT !.posted = @ - 1]
  /\ UNCHANGED <<t, work, pump, drain, quit, world, left>>

\* MOVE_VERIFY_INTERVAL_MS have passed since the effect was scheduled.
Settle ==
  /\ work.sched.kind # None /\ ~work.due
  /\ work' = [work EXCEPT !.due = TRUE]
  /\ UNCHANGED <<t, pump, q, drain, quit, world, left>>

-----------------------------------------------------------------------------
(* PumpPickerTransitionWork, one turn of its loop at a time. *)

\* An observation is given to the reducer, and its answer is scheduled.
ConsumeObservation ==
  /\ pump = "run" /\ work.kick.kind # None
  /\ LET u == Advance(t, work.kick)
         w == [work EXCEPT !.kick = NoObservation]
     IN /\ t' = u
        /\ CASE u.out.kind # None
                  -> work' = Staged(w, u.out) /\ DeferOrGoOn(u.out.kind \in Reads)
             [] u.out.kind = None /\ u.ack
                  -> work' = [w EXCEPT !.terminal = TRUE] /\ DeferOrGoOn(FALSE)
             [] OTHER -> work' = w /\ UNCHANGED <<pump, q, left>>
  /\ UNCHANGED <<drain, quit, world>>

Ready(kinds) ==
  /\ pump = "run" /\ work.kick.kind = None /\ work.sched.kind \in kinds

\* Mutant: a reading that is not due is left without a timer.
HoldWithoutTimer ==
  /\ Ready(Reads) /\ (drain # 0 \/ ~work.due)
  /\ pump' = "off"
  /\ UNCHANGED <<t, work, q, drain, quit, world, left>>

\* A reading is not taken before its time, and not at all in the drain.
HoldReading ==
  /\ Ready(Reads) /\ (drain # 0 \/ ~work.due)
  /\ pump' = "off"
  /\ \E r \in IF drain # 0 THEN {Route(q, 0, TRUE)} ELSE Deferral(q, FALSE, TRUE) :
       q' = r.q /\ Takes(r, left)
  /\ UNCHANGED <<t, work, drain, quit, world>>

WithoutUi == {"PublishVisualAssignment", "Refresh", "ShowAndFocus", "ReportFailure"}

\* In the drain, effects on the user interface count as done.
AcknowledgeWithoutUi ==
  /\ Ready(WithoutUi) /\ drain # 0
  /\ work' = [work EXCEPT !.sched = Nothing, !.due = FALSE,
                !.kick = [Observation(work.sched) EXCEPT !.ok = TRUE]]
  /\ UNCHANGED <<t, pump, q, drain, quit, world, left>>

Execute ==
  /\ Ready(EffectKind \ {None})
  /\ work.sched.kind \in Reads => work.due /\ drain = 0
  /\ work.sched.kind \in WithoutUi => drain = 0
  /\ pump' = "call"
  /\ work' = [work EXCEPT !.sched = Nothing, !.due = FALSE, !.call = work.sched]
  /\ UNCHANGED <<t, q, drain, quit, world, left>>

\* FinalizePickerRuntimeTransition: the reservation is released, the picker
\* is idle again, and the timer goes back to refreshing its highlights.
Finalize ==
  /\ pump = "run" /\ work.kick.kind = None /\ work.sched.kind = None
  /\ work.terminal /\ t.ack /\ t.pending = None
  /\ t' = Idle
  /\ work' = [work EXCEPT !.terminal = FALSE]
  /\ q' = [q EXCEPT !.timer = shown, !.durable = FALSE]
  /\ UNCHANGED <<pump, drain, quit, world, left>>

\* Releasing the reservation fails, for its checkpoint does.
FinalizeFails ==
  /\ pump = "run" /\ work.kick.kind = None /\ work.sched.kind = None
  /\ work.terminal
  /\ LET cost == IF t.ack /\ t.pending = None THEN 1 ELSE 0
     IN /\ left.calls >= cost
        /\ \E r \in IF drain # 0 THEN {Route([q EXCEPT !.durable = TRUE], 0, TRUE)}
                    ELSE {Route([q EXCEPT !.timer = TRUE], 0, TRUE),
                          Route([q EXCEPT !.durable = TRUE], 1, TRUE)} :
             q' = r.q /\ Takes(r, [left EXCEPT !.calls = @ - cost])
  /\ pump' = "off"
  /\ UNCHANGED <<t, work, drain, quit, world>>

NothingLeft ==
  /\ pump = "run" /\ ~Pending(work)
  /\ pump' = "off"
  /\ UNCHANGED <<t, work, q, drain, quit, world, left>>

-----------------------------------------------------------------------------
(* ExecutePickerEffect: a call returns.  Its observation is kept, and the  *)
(* pump leaves it to a posted message or a timer unless it can have none.  *)

Returning(kinds) == pump = "call" /\ work.call.kind \in kinds

Report(o, cost) ==
  /\ left.calls >= cost
  /\ work' = [work EXCEPT !.call = Nothing, !.kick = o]
  /\ LET spent == [left EXCEPT !.calls = @ - cost]
     IN \E r \in IF drain # 0 THEN {Route(q, 0, FALSE)} ELSE Posting(q) :
          IF r.ok THEN Leaves(r, FALSE, spent)
          ELSE pump' = "run" /\ q' = r.q /\ Takes(r, spent)
  /\ UNCHANGED <<t, drain, quit>>

Call == Observation(work.call)
To == work.call.to

\* IssueGuardedTargetMove: not called for a window that is there, is not the
\* captured one, cannot be moved, or when desktops or views cannot be listed.
MoveTargetReturns ==
  /\ Returning({"MoveTarget"})
  /\ \/ ~alive /\ Report(Call, 0) /\ UNCHANGED at
     \/ /\ alive /\ at["target"] = To
        /\ Report([Call EXCEPT !.match = TRUE], 0) /\ UNCHANGED at
     \/ /\ alive /\ at["target"] # To
        /\ Report([Call EXCEPT !.match = TRUE, !.invoked = TRUE], 0)
        /\ at' = [at EXCEPT !["target"] = To]
     \/ /\ alive /\ UNCHANGED at
        /\ \E match, invoked \in BOOLEAN :
             /\ invoked => match
             /\ Report([Call EXCEPT !.match = match, !.invoked = invoked], 1)
  /\ UNCHANGED <<alive, calm, shown, badge, saved>>

\* IssuePickerPopupMove
MovePopupReturns ==
  /\ Returning({"MovePopup"})
  /\ \/ /\ Report([Call EXCEPT !.invoked = TRUE], 0)
        /\ at' = [at EXCEPT !["popup"] = To]
     \/ /\ \E invoked \in BOOLEAN : Report([Call EXCEPT !.invoked = invoked], 1)
        /\ UNCHANGED at
  /\ UNCHANGED <<alive, calm, shown, badge, saved>>

\* The way forward is not taken without the target; the way back is.
Recaptured == (t.phase = "RollbackSwitchIssue") \/ alive

SwitchDesktopReturns ==
  /\ Returning({"SwitchDesktop"})
  /\ \/ /\ Recaptured
        /\ Report([Call EXCEPT !.match = TRUE, !.invoked = TRUE], 0)
        /\ at' = [at EXCEPT !["current"] = To]
     \/ ~Recaptured /\ Report(Call, 0) /\ UNCHANGED at
     \/ /\ Recaptured /\ UNCHANGED at
        /\ \E invoked \in BOOLEAN :
             Report([Call EXCEPT !.match = TRUE, !.invoked = invoked], 1)
  /\ UNCHANGED <<alive, calm, shown, badge, saved>>

ReadingReturns(p) ==
  /\ Returning({ReadKind[p]})
  /\ LET known == p # "target" \/ alive
     IN \/ Report([Call EXCEPT !.match = known,
                    !.seen = IF known THEN at[p] ELSE NoDesktop], 0)
        \/ known /\ Report([Call EXCEPT !.match = TRUE], 1)
        \/ p = "target" /\ alive /\ Report(Call, 1)
  /\ UNCHANGED world

ValidateTargetReturns ==
  /\ Returning({"ValidateTarget"})
  /\ \/ Report([Call EXCEPT !.match = alive], 0)
     \/ alive /\ Report(Call, 1)
  /\ UNCHANGED world

PublishReturns ==
  /\ Returning({"PublishVisualAssignment"})
  /\ \/ Report([Call EXCEPT !.ok = TRUE], 0) /\ badge' = TRUE
     \/ Report(Call, 1) /\ UNCHANGED badge
  /\ UNCHANGED <<at, alive, calm, shown, saved>>

\* SavePopupMovedWindow: the record is published before it is written out.
SaveReturns ==
  /\ Returning({"SaveExactTarget"})
  /\ \E save \in {"Saved", "NotTracked", "FlushFailed", "Failed"}, match \in BOOLEAN :
       /\ match => alive
       /\ ~alive => save = "Failed"
       /\ Report([Call EXCEPT !.match = match, !.save = save],
                 IF (match = alive) /\ (save \in {"Saved", "NotTracked"} \/ ~alive)
                 THEN 0 ELSE 1)
       /\ saved' = (saved \/ save \in {"Saved", "FlushFailed"})
  /\ UNCHANGED <<at, alive, calm, shown, badge>>

RefreshReturns ==
  /\ Returning({"Refresh"})
  /\ \/ Report([Call EXCEPT !.ok = TRUE], 0)
     \/ Report(Call, 1)
  /\ UNCHANGED world

ShowReturns ==
  /\ Returning({"ShowAndFocus"})
  /\ shown' = IF t.dismissed THEN shown ELSE TRUE
  /\ \/ Report([Call EXCEPT !.ok = TRUE], 0)
     \/ Report(Call, 1)
  /\ UNCHANGED <<at, alive, calm, badge, saved>>

HideReturns ==
  /\ Returning({"Hide"})
  /\ Report([Call EXCEPT !.ok = TRUE], 0)
  /\ shown' = FALSE /\ badge' = FALSE
  /\ UNCHANGED <<at, alive, calm, saved>>

FailureReportReturns ==
  /\ Returning({"ReportFailure"})
  /\ Report([Call EXCEPT !.ok = TRUE], 0)
  /\ UNCHANGED world

-----------------------------------------------------------------------------
(* The session asks to end, or ends. *)

Passes == 4

\* DrainPickerForShutdown from a message dispatched inside a call: its
\* passes find the pump active.
AskedInsideCall ==
  /\ pump = "call" /\ drain = 0 /\ ~Idling /\ left.quits > 0
  /\ LET c == IF t.dismissed THEN [t |-> t, work |-> work] ELSE Cancelled
         delayed == c.work.sched.kind \in Reads /\ ~c.work.due
     IN /\ t' = c.t /\ work' = c.work
        /\ IF Pending(c.work)
           THEN \E r \in Deferral(q, FALSE, delayed) :
                  /\ Takes(r, [left EXCEPT !.quits = @ - 1])
                  /\ q' = IF r.ok THEN r.q ELSE [r.q EXCEPT !.durable = TRUE]
           ELSE UNCHANGED q /\ left' = [left EXCEPT !.quits = @ - 1]
  /\ UNCHANGED <<pump, drain, quit, world>>

\* The drain cancels; in it, what is queued runs the pump at once.
DrainBegins(why) ==
  /\ pump = "off" /\ drain = 0 /\ ~Idling /\ ~Stopped /\ left.quits > 0
  /\ left' = [left EXCEPT !.quits = @ - 1]
  /\ drain' = Passes + 1 /\ quit' = why
  /\ IF t.dismissed THEN UNCHANGED <<t, work, pump, q>>
     ELSE /\ t' = Cancelled.t /\ work' = Cancelled.work
          /\ IF Cancelled.post = "no" THEN UNCHANGED <<pump, q>>
             ELSE pump' = "run" /\ q' = StartPump(q)
  /\ UNCHANGED world

DrainPass ==
  /\ drain > 1 /\ pump = "off" /\ ~Idling
  /\ drain' = drain - 1
  /\ pump' = "run" /\ q' = StartPump(q)
  /\ UNCHANGED <<t, work, quit, world, left>>

DrainOver == drain > 0 /\ pump = "off" /\ (drain = 1 \/ Idling)

\* The session goes on, and what is left is delivered as before.
DrainEnds ==
  /\ DrainOver /\ quit = "ask"
  /\ drain' = 0 /\ quit' = "no"
  /\ IF ~Idling /\ Pending(work)
     THEN \E r \in Deferral(q, FALSE, work.sched.kind \in Reads /\ ~work.due) :
            /\ Takes(r, left)
            /\ q' = IF r.ok THEN r.q ELSE [r.q EXCEPT !.durable = TRUE]
     ELSE UNCHANGED <<q, left>>
  /\ UNCHANGED <<t, work, pump, world>>

\* QuiesceRuntime: what is left is given up.
SessionEnds ==
  /\ DrainOver /\ quit = "end"
  /\ drain' = 0 /\ quit' = "ended"
  /\ work' = [Rest EXCEPT !.call = work.call]
  /\ q' = [posted |-> 0, timer |-> FALSE, durable |-> FALSE]
  /\ UNCHANGED <<t, pump, world, left>>

-----------------------------------------------------------------------------

User ==
  \/ \E mode \in Modes, sticky \in BOOLEAN, dest \in Desktops :
       BeginPickerAction(mode, sticky, dest)
  \/ RequestPickerCancellation
  \/ \E p \in Piece, d \in Desktops : Disturb(p, d)
  \/ TargetCloses
  \/ AskedInsideCall
  \/ \E why \in {"ask", "end"} : DrainBegins(why)

Message == PostedMessage \/ TransitionTimer \/ OtherMessage

Pump ==
  \/ ConsumeObservation \/ HoldReading \/ AcknowledgeWithoutUi \/ Execute
  \/ Finalize \/ FinalizeFails \/ NothingLeft

Return ==
  \/ MoveTargetReturns \/ MovePopupReturns \/ SwitchDesktopReturns
  \/ \E p \in Piece : ReadingReturns(p)
  \/ ValidateTargetReturns \/ PublishReturns \/ SaveReturns \/ RefreshReturns
  \/ ShowReturns \/ HideReturns \/ FailureReportReturns

Drain == DrainPass \/ DrainEnds \/ SessionEnds

Next == User \/ Message \/ PostedInVain \/ Settle \/ Pump \/ Return \/ Drain

Spec == Init /\ [][Next]_vars

\* Calls return, queued messages and armed timers arrive, time passes, some
\* message comes at least every TIMER_MONITOR period, and the loops run on.
Fairness ==
  /\ WF_vars(PostedMessage) /\ WF_vars(TransitionTimer) /\ WF_vars(OtherMessage)
  /\ WF_vars(Settle) /\ WF_vars(Pump) /\ WF_vars(Return) /\ WF_vars(Drain)

LiveSpec == Spec /\ Fairness

-----------------------------------------------------------------------------
(* Properties. *)

TypeOK ==
  /\ t.phase \in Phase /\ t.mode \in Mode /\ t.pending \in EffectKind
  /\ t.resume \in Phase
  /\ t.origin \in [Piece -> Desktops \cup {NoDesktop}]
  /\ t.seen \in [Piece -> Desktops \cup {NoDesktop}]
  /\ \A w \in {"there", "back"} : t.tries[w] \in [Piece -> 0..Attempts]
  /\ t.focus \in 0..Attempts /\ t.refresh \in 0..Attempts
  /\ work.sched.kind \in EffectKind /\ work.call.kind \in EffectKind
  /\ work.kick.kind \in EffectKind
  /\ pump \in {"off", "run", "call"} /\ drain \in 0..Passes + 1
  /\ quit \in {"no", "ask", "end", "ended"}
  /\ q.posted \in 0..PostCap /\ at \in [Piece -> Desktops]
  /\ saved \in BOOLEAN
  /\ (pump = "call") = (work.call.kind # None)

\* A transition under way always waits for exactly one effect, and that effect
\* is scheduled, in a call, or observed; no two effects are ever in the way of
\* each other.  Otherwise it would hold its window for ever.
TransitionProceeds ==
  ~Idling /\ ~Stopped =>
    IF t.ack THEN t.pending = None
    ELSE \E e \in {work.sched, work.call, work.kick} :
           e.fresh /\ e.kind = t.pending /\ e.kind # None

\* Work that is left when the pump is not running will start it again: by a
\* posted message, a timer, or whatever message comes next.
WorkIsDelivered ==
  pump = "off" /\ drain = 0 /\ Pending(work) =>
    q.posted > 0 \/ q.timer \/ q.durable

\* What was decided on stands: a sealed move, or a published assignment.
Kept ==
  \/ t.cutoff
  \/ Visual(t) /\ (t.phase = "FocusRestore" \/ t.focusLost \/ (t.ack /\ ~t.failed))

\* The picker knows that a piece is not back, and has tried all it may.
Admitted(p) ==
  \/ t.moved[p] /\ t.tries["back"][p] = Attempts
  \/ p = "target" /\ (t.lost \/ ~alive)

\* A popup goes back to the desktop the user came from, wherever it was.
Home(p) == IF p = "popup" THEN {t.origin["popup"], t.origin["current"]}
           ELSE {t.origin[p]}

\* A transition that ends and is not kept has put every piece back where it
\* was, or has tried to as often as it may: no piece is left behind because a
\* call was refused, an answer was missing or the user cancelled.
NothingLeftBehind ==
  t.ack /\ calm /\ ~Kept =>
    \A p \in Piece : at[p] \in Home(p) \/ Admitted(p)

\* A transition that ends well has moved all it was asked to move, and the
\* user sees the popup and the desktop the window went to.
SuccessIsComplete ==
  t.ack /\ calm /\ ~t.failed =>
    /\ t.mode \in {"MoveAndFollow", "RowMoveOnly"} /\ alive => at["target"] = t.dest
    /\ Follows(t.mode) => at["current"] = t.dest /\ shown
    /\ Follows(t.mode) /\ ~t.sticky => at["popup"] = t.dest
    /\ Visual(t) => badge

\* The layout never says that a window belongs on a desktop from which the
\* picker took it back.
RecordMatchesPlace ==
  t.ack /\ calm /\ alive /\ saved => at["target"] = t.dest

\* "Esc closes the picker" (the README of the program), whatever a transition is
\* in the middle of, when its mode is one that Esc dismisses.  It does not hold of
\* the visual modes (see README.md, "Known disagreements").
EscHides == t.ack /\ t.dismissed => ~shown

\* The same of the transitions that move the window.
EscHidesAfterMove == t.ack /\ t.dismissed /\ ~Visual(t) => ~shown

\* A transition always has its next step under way, and it ends with all it was
\* asked for done and shown, or with every piece back that could be put back
\* and the picker closed that the user closed.
EndsClean ==
  /\ TypeOK /\ TransitionProceeds /\ WorkIsDelivered
  /\ NothingLeftBehind /\ SuccessIsComplete /\ RecordMatchesPlace /\ EscHidesAfterMove

\* A transition as the user and the layout see it (module PickerContract).
Stage == CASE Idling -> "idle"
           [] ~Idling /\ Kept -> "kept"
           [] ~Idling /\ ~Kept /\ t.failed -> "undone"
           [] OTHER -> "open"

Contract == INSTANCE PickerContract WITH stage <- Stage

\* The transition does what it promises: the layout learns of a move only
\* after the move was decided on and before it is over, a move that is being
\* undone is never decided on again, and one the layout knows is not undone.
Promise == Contract!Spec

\* Every transition comes to an end.
TransitionEnds == ~Idling ~> (Idling \/ Stopped)
=============================================================================
