-------------------------- MODULE PickerTransition --------------------------
(***************************************************************************)
(* The reducer of the picker's controlled transition (AdvancePicker-       *)
(* Transition, src/src/picker_state.hpp): a pure function from a           *)
(* transition and an observation to the next transition and the effect to  *)
(* carry out.  The user asked to send a window to another desktop and,     *)
(* except for a row move, to follow it there together with the picker's    *)
(* own window.  Three pieces change place: the target window, the picker's *)
(* popup and the current desktop.  Each is moved by a call, read back      *)
(* after a delay, tried again a few times, and put back when a later piece *)
(* fails or the user cancels.                                              *)
(*                                                                         *)
(* A transition is a record.  The counters, flags and readings the source  *)
(* keeps three times, once per piece, are functions on Piece.  `out' is    *)
(* the effect the last step returned.  Readings that are not valid are     *)
(* NoDesktop.  Generation and serial numbers are left to module PickerMove.*)
(***************************************************************************)
EXTENDS Naturals

CONSTANTS Desktops,   \* desktop identities
          NoDesktop,  \* the nil GUID, or a reading that is not valid
          Attempts    \* how often each call is tried (4 in the source)

ASSUME PickerAssumption == NoDesktop \notin Desktops /\ Attempts \in Nat \ {0}

Piece == {"target", "popup", "current"}
Mode == {"MoveAndFollow", "RowMoveOnly", "VisualAndFollow", "VisualOnly"}

None == "None"
NoEffect == [kind |-> None, to |-> NoDesktop]

\* What moving, reading and being in the middle of either is called.
MoveKind == [target |-> "MoveTarget", popup |-> "MovePopup",
             current |-> "SwitchDesktop"]
ReadKind == [target |-> "ReadTarget", popup |-> "ReadPopup",
             current |-> "ReadCurrent"]
Issuing == [there |-> [target |-> "TargetIssue", popup |-> "PopupIssue",
                       current |-> "SwitchIssue"],
            back |-> [target |-> "RollbackTargetIssue",
                      popup |-> "RollbackPopupIssue",
                      current |-> "RollbackSwitchIssue"]]
Verifying == [there |-> [target |-> "TargetVerify", popup |-> "PopupVerify",
                         current |-> "DestinationVerify"],
              back |-> [target |-> "RollbackTargetVerify",
                        popup |-> "RollbackPopupVerify",
                        current |-> "OriginVerify"]]

Moves == {MoveKind[p] : p \in Piece}
Reads == {ReadKind[p] : p \in Piece}
EffectKind == Moves \cup Reads \cup {None, "ValidateTarget",
    "PublishVisualAssignment", "SaveExactTarget", "Refresh", "ShowAndFocus",
    "Hide", "ReportFailure"}
Phase == {Issuing[w][p] : w \in {"there", "back"}, p \in Piece}
    \cup {Verifying[w][p] : w \in {"there", "back"}, p \in Piece}
    \cup {"Idle", "IdentityVerifyBeforePopup", "IdentityVerifyBeforeSwitch",
          "PublishVisualAssignment", "SaveExactTarget", "RefreshModel",
          "FailureReport", "FocusRestore"}

None3(x) == [p \in Piece |-> x]

\* No transition.
Idle ==
  [phase |-> "Idle", mode |-> "VisualOnly", sticky |-> FALSE,
   dest |-> NoDesktop, origin |-> None3(NoDesktop), seen |-> None3(NoDesktop),
   tries |-> [there |-> None3(0), back |-> None3(0)],
   moved |-> None3(FALSE), before |-> None3(FALSE), verify |-> FALSE,
   repair |-> FALSE, cancelled |-> FALSE, dismissed |-> FALSE,
   failed |-> FALSE, pending |-> None, hideDone |-> FALSE,
   focusLost |-> FALSE, lost |-> FALSE, cutoff |-> FALSE, quiet |-> FALSE,
   ack |-> FALSE, resume |-> "Idle", focus |-> 0, refresh |-> 0,
   out |-> NoEffect]

Visual(t) == t.mode \in {"VisualAndFollow", "VisualOnly"}
Row(t) == t.mode = "RowMoveOnly"

\* Where an effect goes: back in the phases that undo, else forward.
EffectDesktop(t, kind) ==
  CASE kind \notin Moves -> NoDesktop
    [] kind = "MoveTarget" /\ t.phase = "RollbackTargetIssue" -> t.origin["target"]
    [] kind = "MovePopup" /\ t.phase = "RollbackPopupIssue" -> t.origin["current"]
    [] kind = "SwitchDesktop" /\ t.phase = "RollbackSwitchIssue" -> t.origin["current"]
    [] OTHER -> t.dest

\* One effect is awaited at a time.
Emit(t, kind) ==
  IF t.pending # None THEN t
  ELSE [t EXCEPT !.pending = kind,
                 !.out = [kind |-> kind, to |-> EffectDesktop(t, kind)]]

Enter(t, phase, kind) == Emit([t EXCEPT !.phase = phase], kind)

AcknowledgeTerminal(t) == [t EXCEPT !.pending = None, !.ack = TRUE]

StartRefresh(t) == Enter(t, "RefreshModel", "Refresh")

\* Calls for a piece to be moved, unless it was tried often enough.
Issue(t, p, way) ==
  IF (p = "popup" /\ t.sticky) \/ t.tries[way][p] >= Attempts THEN t
  ELSE Enter([t EXCEPT !.tries[way][p] = @ + 1,
                       !.before[p] = t.moved[p],
                       !.moved[p] = TRUE],
             Issuing[way][p], MoveKind[p])

Verify(t, p, way) == Enter(t, Verifying[way][p], ReadKind[p])

-----------------------------------------------------------------------------
(* Putting back: the target, then the popup, then the current desktop. *)

ContinueRollbackAfterPopup(t) ==
  CASE t.moved["current"] -> Issue(t, "current", "back")
    [] ~t.moved["current"] /\ t.verify -> Verify(t, "current", "back")
    [] OTHER -> StartRefresh(t)

ContinueRollbackAfterTarget(t) ==
  CASE Row(t) -> StartRefresh(t)
    [] ~Row(t) /\ ~t.sticky /\ t.moved["popup"] -> Issue(t, "popup", "back")
    [] ~Row(t) /\ ~t.sticky /\ ~t.moved["popup"] /\ t.verify
         -> Verify(t, "popup", "back")
    [] OTHER -> ContinueRollbackAfterPopup(t)

RollbackVisual(t) ==
  LET u == [t EXCEPT !.moved["target"] = FALSE,
                     !.tries["back"]["target"] = 0,
                     !.verify = t.moved["popup"] \/ t.moved["current"]]
  IN IF t.mode = "VisualOnly" THEN AcknowledgeTerminal(u)
     ELSE ContinueRollbackAfterTarget(u)

RollbackRow(t) ==
  LET u == [t EXCEPT !.verify = @ \/ t.moved["target"]]
  IN CASE ~u.verify \/ u.lost -> StartRefresh(u)
       [] u.verify /\ ~u.lost /\ ~u.moved["target"]
            -> Verify(u, "target", "back")
       [] u.verify /\ ~u.lost /\ u.moved["target"]
            -> IF u.tries["back"]["target"] < Attempts
               THEN Issue(u, "target", "back")
               ELSE ContinueRollbackAfterTarget(u)

RollbackFollow(t) ==
  LET u == [t EXCEPT !.verify = @ \/ \E p \in Piece : t.moved[p]]
  IN CASE ~u.verify -> StartRefresh(u)
       [] u.verify /\ u.lost -> ContinueRollbackAfterTarget(u)
       [] u.verify /\ ~u.lost /\ u.moved["target"]
            -> Issue(u, "target", "back")
       [] u.verify /\ ~u.lost /\ ~u.moved["target"]
            -> Verify(u, "target", "back")

BeginRollback(t) ==
  LET u == [t EXCEPT !.failed = TRUE]
  IN CASE Visual(t) -> RollbackVisual(u)
       [] Row(t) -> RollbackRow(u)
       [] OTHER -> RollbackFollow(u)

\* A target that is not, or may not be, the captured window.
Unusable(t) == [t EXCEPT !.lost = TRUE, !.seen["target"] = NoDesktop]

-----------------------------------------------------------------------------
(* Going forward. *)

\* The point of no return: the place of the target is about to be recorded.
Seal(t) == Enter([t EXCEPT !.cutoff = TRUE], "SaveExactTarget", "SaveExactTarget")

StartVisualPublication(t) ==
  Enter(t, "PublishVisualAssignment", "PublishVisualAssignment")

Arrived(t) ==
  IF t.mode = "VisualAndFollow" THEN StartVisualPublication(t) ELSE Seal(t)

ContinueForwardToDestination(t) ==
  LET there == t.seen["current"] = t.dest /\ (t.sticky \/ t.seen["popup"] = t.dest)
  IN CASE there -> Arrived(t)
       [] ~there /\ t.tries["there"]["current"] >= Attempts -> BeginRollback(t)
       [] OTHER -> Issue(t, "current", "there")

RestoreFocus(t) ==
  Enter([t EXCEPT !.focus = @ + 1], "FocusRestore", "ShowAndFocus")

\* A request of the user becomes a transition.  A row move does not look at
\* the popup, and no mode moves a piece the mode does not name.
Begin(mode, sticky, at, dest) ==
  LET t == [Idle EXCEPT !.mode = mode, !.sticky = sticky, !.dest = dest,
              !.origin = at,
              !.seen = [at EXCEPT !["popup"] = IF sticky THEN NoDesktop ELSE @]]
  IN IF Visual(t)
     THEN Enter(t, "IdentityVerifyBeforePopup", "ValidateTarget")
     ELSE Issue(t, "target", "there")

-----------------------------------------------------------------------------
(* Cancelling.  `unissued' says that the awaited effect was taken back     *)
(* before it was carried out.                                              *)

CancelVisual(t, unissued) ==
  IF t.cancelled THEN t
  ELSE LET u == [t EXCEPT !.cancelled = TRUE, !.failed = TRUE]
       IN IF unissued \/ t.pending = None THEN AcknowledgeTerminal(u) ELSE u

\* What an effect that was taken back would have moved is where it was.
TakenBack(t, unissued) ==
  IF ~unissued THEN t
  ELSE [t EXCEPT !.moved = [p \in Piece |->
          IF t.pending = MoveKind[p] THEN t.before[p] ELSE t.moved[p]]]

CancelRow(t, unissued) ==
  IF t.cancelled THEN t
  ELSE LET u == [t EXCEPT !.cancelled = TRUE, !.failed = TRUE]
       IN IF t.phase \in {"SaveExactTarget", "RefreshModel"}
             \/ (~unissued /\ t.pending # None)
          THEN u
          ELSE BeginRollback([TakenBack(u, unissued) EXCEPT !.pending = None])

\* A save, a refresh or a publication under way is waited for.
Awaited(t, unissued) ==
  \/ t.phase = "SaveExactTarget" /\ t.cutoff /\ t.pending = "SaveExactTarget"
  \/ t.phase = "RefreshModel" /\ t.pending = "Refresh"
  \/ t.pending = "PublishVisualAssignment" /\ ~unissued

CancelFollow(t, unissued) ==
  LET u == [TakenBack(t, unissued) EXCEPT !.resume = t.phase,
              !.cancelled = TRUE, !.dismissed = TRUE, !.failed = TRUE]
  IN IF Awaited(t, unissued) THEN u
     ELSE Emit([u EXCEPT !.pending = None], "Hide")

Cancel(t, unissued) ==
  IF t.ack \/ t.phase = "Idle" \/ t.dismissed THEN t
  ELSE CASE t.mode = "VisualOnly" -> CancelVisual(t, unissued)
         [] Row(t) -> CancelRow(t, unissued)
         [] OTHER -> CancelFollow(t, unissued)

\* The popup is hidden: pick up where the cancellation came in.
ResumeAfterHide(t) ==
  CASE t.resume \in {"RefreshModel", "FailureReport", "FocusRestore"}
         -> AcknowledgeTerminal(t)
    [] t.resume \in {"RollbackTargetIssue", "RollbackTargetVerify"}
         -> IF ~t.lost /\ (t.moved["target"] \/ t.verify)
            THEN Verify(t, "target", "back")
            ELSE ContinueRollbackAfterTarget(t)
    [] t.resume \in {"RollbackPopupIssue", "RollbackPopupVerify"}
         -> IF ~t.sticky /\ (t.moved["popup"] \/ t.verify)
            THEN Verify(t, "popup", "back")
            ELSE ContinueRollbackAfterPopup(t)
    [] t.resume \in {"RollbackSwitchIssue", "OriginVerify"}
         -> IF t.moved["current"] \/ t.verify
            THEN Verify(t, "current", "back") ELSE StartRefresh(t)
    [] OTHER -> BeginRollback(t)

Hidden(t) ==
  LET u == [t EXCEPT !.hideDone = TRUE]
  IN IF t.cutoff /\ t.resume \notin {"RefreshModel", "FailureReport", "FocusRestore"}
     THEN StartRefresh(u) ELSE ResumeAfterHide(u)

-----------------------------------------------------------------------------
(* One operator per phase: what the awaited observation o leads to.  o.match *)
(* says that the target still is the captured window, o.invoked that the     *)
(* call was made, o.seen what was read, o.ok that the rest succeeded.        *)

TargetIssued(t, o) ==
  LET u == [t EXCEPT !.verify = @ \/ o.invoked,
              !.moved["target"] = IF o.invoked THEN @ ELSE t.before["target"]]
  IN CASE ~o.match -> BeginRollback(Unusable(u))
       [] o.match /\ (~o.invoked \/ (Row(t) /\ t.cancelled)) -> BeginRollback(u)
       [] OTHER -> Verify(u, "target", "there")

TargetReadWhenCancelled(t) ==
  IF t.seen["target"] = t.origin["target"]
  THEN StartRefresh([t EXCEPT !.moved["target"] = FALSE, !.verify = FALSE])
  ELSE BeginRollback([t EXCEPT !.moved["target"] = TRUE])

\* Mutant: a cancelled row move goes on when the window has arrived.
ReadRegardless(t, o) ==
  LET u == [t EXCEPT !.seen["target"] = o.seen]
      v == [u EXCEPT !.moved["target"] = o.seen # t.origin["target"]]
  IN CASE ~o.match -> BeginRollback(Unusable(t))
       [] o.match /\ o.seen = t.dest
            -> IF Row(t) THEN Seal(u)
               ELSE Enter(u, "IdentityVerifyBeforePopup", "ValidateTarget")
       [] OTHER -> IF t.tries["there"]["target"] < Attempts
                   THEN Issue(v, "target", "there") ELSE BeginRollback(v)

TargetRead(t, o) ==
  LET u == [t EXCEPT !.seen["target"] = o.seen]
      v == [u EXCEPT !.moved["target"] = o.seen # t.origin["target"]]
  IN CASE ~o.match -> BeginRollback(Unusable(t))
       [] o.match /\ Row(t) /\ t.cancelled -> TargetReadWhenCancelled(u)
       [] o.match /\ ~(Row(t) /\ t.cancelled) /\ o.seen = t.dest
            -> IF Row(t) THEN Seal(u)
               ELSE Enter(u, "IdentityVerifyBeforePopup", "ValidateTarget")
       [] OTHER -> IF t.tries["there"]["target"] < Attempts
                   THEN Issue(v, "target", "there") ELSE BeginRollback(v)

ValidatedBeforePopup(t, o) ==
  CASE ~o.match -> BeginRollback(Unusable(t))
    [] o.match /\ t.mode = "VisualOnly"
         -> IF t.cancelled THEN AcknowledgeTerminal(t)
            ELSE StartVisualPublication(t)
    [] o.match /\ t.mode # "VisualOnly" /\ t.sticky
         -> ContinueForwardToDestination(
              [t EXCEPT !.phase = "IdentityVerifyBeforeSwitch"])
    [] OTHER -> Issue(t, "popup", "there")

PopupIssued(t, o) ==
  IF o.invoked THEN Verify([t EXCEPT !.verify = TRUE], "popup", "there")
  ELSE BeginRollback([t EXCEPT !.moved["popup"] = t.before["popup"]])

PopupRead(t, o) ==
  LET u == [t EXCEPT !.seen["popup"] = o.seen]
      v == [u EXCEPT !.moved["popup"] = o.seen # t.origin["current"]]
  IN CASE o.seen = t.dest /\ t.repair
            -> Verify([u EXCEPT !.repair = FALSE, !.seen["current"] = NoDesktop],
                      "current", "there")
       [] o.seen = t.dest /\ ~t.repair
            -> Enter(u, "IdentityVerifyBeforeSwitch", "ValidateTarget")
       [] OTHER -> IF t.tries["there"]["popup"] < Attempts
                   THEN Enter(v, "IdentityVerifyBeforePopup", "ValidateTarget")
                   ELSE BeginRollback(v)

ValidatedBeforeSwitch(t, o) ==
  IF o.match THEN ContinueForwardToDestination(t)
  ELSE BeginRollback(Unusable(t))

SwitchIssued(t, o) ==
  LET u == [t EXCEPT !.verify = @ \/ o.invoked]
      v == [u EXCEPT !.moved["current"] = t.before["current"]]
  IN CASE ~o.match -> BeginRollback(Unusable(v))
       [] o.match /\ ~o.invoked -> BeginRollback(v)
       [] OTHER -> Verify(u, "current", "there")

DestinationCurrentRead(t, o) ==
  LET u == [t EXCEPT !.seen["current"] = o.seen]
      v == [u EXCEPT !.moved["current"] = o.seen # t.origin["current"]]
  IN CASE o.seen = t.dest -> IF t.sticky THEN Arrived(u) ELSE Emit(u, "ReadPopup")
       [] OTHER -> IF t.tries["there"]["current"] < Attempts
                   THEN Enter(v, "IdentityVerifyBeforeSwitch", "ValidateTarget")
                   ELSE BeginRollback(v)

\* The popup did not stay on the destination: move it once more.
DestinationPopupRead(t, o) ==
  LET u == [t EXCEPT !.seen["popup"] = o.seen]
      v == [u EXCEPT !.moved["popup"] = o.seen # t.origin["current"]]
  IN CASE o.seen = t.dest -> Arrived(u)
       [] OTHER -> IF t.tries["there"]["popup"] < Attempts
                   THEN Enter([v EXCEPT !.repair = TRUE,
                                        !.seen["current"] = NoDesktop],
                              "IdentityVerifyBeforePopup", "ValidateTarget")
                   ELSE BeginRollback(v)

Published(t, o) ==
  CASE ~o.ok -> BeginRollback(t)
    [] o.ok /\ t.mode = "VisualOnly" -> AcknowledgeTerminal(t)
    [] o.ok /\ t.mode # "VisualOnly" /\ t.dismissed
         -> Emit([t EXCEPT !.resume = "PublishVisualAssignment"], "Hide")
    [] OTHER -> RestoreFocus(t)

\* Mutant: the call that moves the target back is trusted.
TrustsTheCall(t, o) ==
  IF o.match THEN ContinueRollbackAfterTarget([t EXCEPT !.moved["target"] = FALSE])
  ELSE ContinueRollbackAfterTarget(Unusable(t))

RollbackTargetIssued(t, o) ==
  IF o.match THEN Verify(t, "target", "back")
  ELSE ContinueRollbackAfterTarget(Unusable(t))

RollbackTargetRead(t, o) ==
  LET u == [t EXCEPT !.seen["target"] = o.seen,
                     !.moved["target"] = o.seen # t.origin["target"]]
  IN CASE ~o.match -> ContinueRollbackAfterTarget(Unusable(t))
       [] o.match /\ u.moved["target"] /\ t.tries["back"]["target"] < Attempts
            -> Issue(u, "target", "back")
       [] OTHER -> ContinueRollbackAfterTarget(u)

RollbackPopupRead(t, o) ==
  LET u == [t EXCEPT !.seen["popup"] = o.seen,
                     !.moved["popup"] = o.seen # t.origin["current"]]
  IN CASE ~u.moved["popup"] -> ContinueRollbackAfterPopup(u)
       [] u.moved["popup"] /\ t.tries["back"]["popup"] < Attempts
            -> Issue(u, "popup", "back")
       [] OTHER -> ContinueRollbackAfterPopup([u EXCEPT !.quiet = TRUE])

OriginRead(t, o) ==
  LET u == [t EXCEPT !.seen["current"] = o.seen,
                     !.moved["current"] = o.seen # t.origin["current"]]
  IN CASE ~u.moved["current"] -> StartRefresh(u)
       [] u.moved["current"] /\ t.tries["back"]["current"] < Attempts
            -> Issue(u, "current", "back")
       [] OTHER -> StartRefresh([u EXCEPT !.quiet = TRUE])

\* Whether a row move stands: its record is published, or it has none.
RowMoveSaveCommits(save) == save \in {"NotTracked", "Saved", "FlushFailed"}

ExactTargetSaved(t, o) ==
  LET u == [(IF o.match THEN t ELSE Unusable(t)) EXCEPT
              !.failed = @ \/ ~o.match \/ o.save \in {"Failed", "FlushFailed"}]
  IN CASE Row(t) /\ RowMoveSaveCommits(o.save) -> StartRefresh(u)
       [] Row(t) /\ ~RowMoveSaveCommits(o.save)
            -> BeginRollback([u EXCEPT !.cutoff = FALSE])
       [] ~Row(t) /\ t.dismissed
            -> Emit([u EXCEPT !.resume = "SaveExactTarget"], "Hide")
       [] OTHER -> StartRefresh(u)

Refreshed(t, o) ==
  LET u == [t EXCEPT !.failed = @ \/ ~o.ok]
  IN CASE Row(t) /\ ~o.ok /\ t.refresh < Attempts
            -> StartRefresh([u EXCEPT !.refresh = @ + 1])
       [] Visual(t) \/ (Row(t) /\ (o.ok \/ t.refresh >= Attempts))
            -> AcknowledgeTerminal(u)
       [] t.mode = "MoveAndFollow" /\ t.dismissed
            -> IF t.hideDone THEN AcknowledgeTerminal(u)
               ELSE Emit([u EXCEPT !.resume = "RefreshModel"], "Hide")
       [] t.mode = "MoveAndFollow" /\ ~t.dismissed
            -> IF u.failed THEN Enter(u, "FailureReport", "ReportFailure")
               ELSE RestoreFocus(u)

FailureReported(t) ==
  IF t.dismissed \/ t.focusLost \/ t.quiet THEN AcknowledgeTerminal(t)
  ELSE RestoreFocus(t)

FocusRestored(t, o) ==
  CASE o.ok -> AcknowledgeTerminal(t)
    [] ~o.ok /\ t.focus < Attempts -> RestoreFocus(t)
    [] OTHER -> Enter([t EXCEPT !.failed = TRUE, !.focusLost = TRUE],
                      "FailureReport", "ReportFailure")

InPhase(t, o) ==
  CASE t.phase = "TargetIssue" -> TargetIssued(t, o)
    [] t.phase = "TargetVerify" -> TargetRead(t, o)
    [] t.phase = "IdentityVerifyBeforePopup" -> ValidatedBeforePopup(t, o)
    [] t.phase = "PopupIssue" -> PopupIssued(t, o)
    [] t.phase = "PopupVerify" -> PopupRead(t, o)
    [] t.phase = "IdentityVerifyBeforeSwitch" -> ValidatedBeforeSwitch(t, o)
    [] t.phase = "SwitchIssue" -> SwitchIssued(t, o)
    [] t.phase = "DestinationVerify" -> IF o.kind = "ReadCurrent"
                                        THEN DestinationCurrentRead(t, o)
                                        ELSE DestinationPopupRead(t, o)
    [] t.phase = "PublishVisualAssignment" -> Published(t, o)
    [] t.phase = "RollbackTargetIssue" -> RollbackTargetIssued(t, o)
    [] t.phase = "RollbackTargetVerify" -> RollbackTargetRead(t, o)
    [] t.phase = "RollbackPopupIssue" -> Verify(t, "popup", "back")
    [] t.phase = "RollbackPopupVerify" -> RollbackPopupRead(t, o)
    [] t.phase = "RollbackSwitchIssue" -> Verify(t, "current", "back")
    [] t.phase = "OriginVerify" -> OriginRead(t, o)
    [] t.phase = "SaveExactTarget" -> ExactTargetSaved(t, o)
    [] t.phase = "RefreshModel" -> Refreshed(t, o)
    [] t.phase = "FailureReport" -> FailureReported(t)
    [] t.phase = "FocusRestore" -> FocusRestored(t, o)

\* An observation of an effect that is no longer awaited changes nothing.
Advance(t, o) ==
  LET u == [t EXCEPT !.out = NoEffect]
  IN IF t.ack \/ ~o.fresh \/ o.kind # t.pending THEN u
     ELSE LET v == [u EXCEPT !.pending = None]
          IN IF o.kind = "Hide" THEN Hidden(v) ELSE InPhase(v, o)

CancelRequested(t, unissued) == Cancel([t EXCEPT !.out = NoEffect], unissued)
=============================================================================
