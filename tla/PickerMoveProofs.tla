-------------------------- MODULE PickerMoveProofs --------------------------
(***************************************************************************)
(* A picker transition ends clean, and does what module PickerContract     *)
(* promises.  The first part is what the reducer of module                 *)
(* PickerTransition keeps, whatever it is told: TransitionInv says what a  *)
(* transition is in each of its phases.  Its lemmas have no states; the    *)
(* second part uses the last of them, AdvanceStep, CancelRequestedStep,    *)
(* BeginFacts and PlacesChange.                                            *)
(***************************************************************************)
EXTENDS PickerMove, TLAPS

Places == Desktops \cup {NoDesktop}
Ways == {"there", "back"}

Transition ==
  [phase : Phase \ {"Idle"}, mode : Mode, sticky : BOOLEAN, dest : Desktops,
   origin : [Piece -> Desktops], seen : [Piece -> Places],
   tries : [Ways -> [Piece -> 0..Attempts]],
   moved : [Piece -> BOOLEAN], before : [Piece -> BOOLEAN],
   verify : BOOLEAN, repair : BOOLEAN, cancelled : BOOLEAN, dismissed : BOOLEAN,
   failed : BOOLEAN, pending : EffectKind, hideDone : BOOLEAN,
   focusLost : BOOLEAN, lost : BOOLEAN, cutoff : BOOLEAN, quiet : BOOLEAN,
   ack : BOOLEAN, resume : Phase, focus : 0..Attempts, refresh : 0..Attempts,
   out : [kind : EffectKind, to : Places]]

\* All that beginning to wait for an effect does not touch.
Frame(c, u) ==
  /\ u.mode = c.mode /\ u.sticky = c.sticky /\ u.dest = c.dest
  /\ u.origin = c.origin /\ u.seen = c.seen /\ u.verify = c.verify
  /\ u.repair = c.repair /\ u.cancelled = c.cancelled
  /\ u.dismissed = c.dismissed /\ u.failed = c.failed
  /\ u.hideDone = c.hideDone /\ u.focusLost = c.focusLost /\ u.lost = c.lost
  /\ u.cutoff = c.cutoff /\ u.quiet = c.quiet /\ u.ack = c.ack
  /\ u.resume = c.resume /\ u.focus = c.focus /\ u.refresh = c.refresh

Counts(c, u) == u.tries = c.tries /\ u.moved = c.moved /\ u.before = c.before

Awaiting(u) == [kind |-> u.pending, to |-> EffectDesktop(u, u.pending)]

LEMMA EffectDesktopType ==
  ASSUME NEW c \in Transition, NEW kind
  PROVE  EffectDesktop(c, kind) \in Places
BY DEF Transition, EffectDesktop, Places, Piece

LEMMA EnterFacts ==
  ASSUME NEW c \in Transition, NEW phase \in Phase \ {"Idle"},
         NEW kind \in EffectKind, c.pending = None
  PROVE  LET u == Enter(c, phase, kind)
         IN /\ u \in Transition /\ Frame(c, u) /\ Counts(c, u)
            /\ u.phase = phase /\ u.pending = kind /\ u.out = Awaiting(u)
<1> DEFINE v == [c EXCEPT !.phase = phase]
           u == Enter(c, phase, kind)
<1>1. v \in Transition /\ v.pending = None /\ v.phase = phase /\ Frame(c, v) /\ Counts(c, v)
  BY DEF Transition, Frame, Counts
<1>2. EffectDesktop(v, kind) \in Places
  BY <1>1, EffectDesktopType
<1> DEFINE e == [kind |-> kind, to |-> EffectDesktop(v, kind)]
<1>3. u = [v EXCEPT !.pending = kind, !.out = e]
  BY <1>1 DEF Enter, Emit
<1>4. e \in [kind : EffectKind, to : Places]
  BY <1>2
<1> HIDE DEF v, u, e
<1>5. u \in Transition /\ Frame(v, u) /\ Counts(v, u) /\ u.phase = v.phase
        /\ u.pending = kind /\ u.out = e
  BY <1>1, <1>3, <1>4 DEF Transition, Frame, Counts
<1>6. EffectDesktop(u, kind) = EffectDesktop(v, kind)
  BY <1>5 DEF EffectDesktop, Frame
<1>7. u.out = Awaiting(u)
  BY <1>5, <1>6 DEF Awaiting, e
<1>8. Frame(c, u) /\ Counts(c, u) /\ u.phase = phase
  BY <1>1, <1>5 DEF Frame, Counts
<1> QED BY <1>5, <1>7, <1>8 DEF u

LEMMA EmitFacts ==
  ASSUME NEW c \in Transition, NEW kind \in EffectKind, c.pending = None
  PROVE  LET u == Emit(c, kind)
         IN /\ u \in Transition /\ Frame(c, u) /\ Counts(c, u)
            /\ u.phase = c.phase /\ u.pending = kind /\ u.out = Awaiting(u)
<1>1. c.phase \in Phase \ {"Idle"} /\ c = [c EXCEPT !.phase = c.phase]
  BY DEF Transition
<1>2. Emit(c, kind) = Enter(c, c.phase, kind)
  BY <1>1 DEF Enter
<1> QED BY <1>1, <1>2, EnterFacts

LEMMA VerifyFacts ==
  ASSUME NEW c \in Transition, NEW p \in Piece, NEW way \in Ways, c.pending = None
  PROVE  LET u == Verify(c, p, way)
         IN /\ u \in Transition /\ Frame(c, u) /\ Counts(c, u)
            /\ u.phase = Verifying[way][p] /\ u.pending = ReadKind[p]
            /\ u.out = Awaiting(u)
<1>1. Verifying[way][p] \in Phase \ {"Idle"} /\ ReadKind[p] \in EffectKind
  BY DEF Ways, Piece, Verifying, Issuing, ReadKind, MoveKind, Phase, EffectKind, Reads, Moves
<1> QED BY <1>1, EnterFacts DEF Verify

LEMMA RefreshFacts ==
  ASSUME NEW c \in Transition, c.pending = None
  PROVE  LET u == StartRefresh(c)
         IN /\ u \in Transition /\ Frame(c, u) /\ Counts(c, u)
            /\ u.phase = "RefreshModel" /\ u.pending = "Refresh"
            /\ u.out = Awaiting(u)
<1>1. "RefreshModel" \in Phase \ {"Idle"} /\ "Refresh" \in EffectKind
  BY DEF Phase, EffectKind
<1> QED BY <1>1, EnterFacts DEF StartRefresh

\* All that acknowledging a transition does.
Acknowledged(c, u) ==
  /\ u.phase = c.phase /\ u.mode = c.mode /\ u.sticky = c.sticky
  /\ u.dest = c.dest /\ u.origin = c.origin /\ u.seen = c.seen
  /\ u.cancelled = c.cancelled /\ u.dismissed = c.dismissed
  /\ u.failed = c.failed /\ u.hideDone = c.hideDone
  /\ u.focusLost = c.focusLost /\ u.lost = c.lost /\ u.cutoff = c.cutoff
  /\ u.resume = c.resume /\ u.focus = c.focus /\ u.out = c.out
  /\ u.pending = None /\ u.ack = TRUE

LEMMA AcknowledgeFacts ==
  ASSUME NEW c \in Transition
  PROVE  LET u == AcknowledgeTerminal(c)
         IN u \in Transition /\ Counts(c, u) /\ Acknowledged(c, u)
<1>1. None \in EffectKind
  BY DEF EffectKind
<1> QED BY <1>1 DEF AcknowledgeTerminal, Transition, Frame, Counts, Acknowledged

\* How a call changes the counts.
Counted(c, u, p, way) ==
  /\ \A x \in Piece : u.moved[x] <=> (x = p \/ c.moved[x])
  /\ \A x \in Piece : u.before[x] <=> (IF x = p THEN c.moved[x] ELSE c.before[x])
  /\ \A w \in Ways, x \in Piece :
       u.tries[w][x] = IF w = way /\ x = p THEN c.tries[w][x] + 1 ELSE c.tries[w][x]

LEMMA IssueFacts ==
  ASSUME NEW c \in Transition, NEW p \in Piece, NEW way \in Ways, c.pending = None,
         p = "popup" => ~c.sticky, c.tries[way][p] < Attempts
  PROVE  LET u == Issue(c, p, way)
         IN /\ u \in Transition /\ Frame(c, u) /\ Counted(c, u, p, way)
            /\ u.phase = Issuing[way][p] /\ u.pending = MoveKind[p]
            /\ u.out = Awaiting(u)
<1> DEFINE v == [c EXCEPT !.tries[way][p] = @ + 1, !.before[p] = c.moved[p],
                          !.moved[p] = TRUE]
           u == Issue(c, p, way)
<1>1. /\ Issuing[way][p] \in Phase \ {"Idle"} /\ MoveKind[p] \in EffectKind
  BY DEF Ways, Piece, Verifying, Issuing, ReadKind, MoveKind, Phase, EffectKind, Reads, Moves
<1>2. c.tries[way][p] \in 0..Attempts /\ Attempts \in Nat
  BY PickerAssumption DEF Transition
<1>3. u = Enter(v, Issuing[way][p], MoveKind[p])
  BY <1>2 DEF Issue
<1>4. /\ [c.tries EXCEPT ![way][p] = @ + 1] \in [Ways -> [Piece -> 0..Attempts]]
      /\ \A w \in Ways, x \in Piece :
           [c.tries EXCEPT ![way][p] = @ + 1][w][x]
             = IF w = way /\ x = p THEN c.tries[w][x] + 1 ELSE c.tries[w][x]
  <2> DEFINE T == [Ways -> [Piece -> 0..Attempts]]
  <2>1. c.tries \in [Ways -> [Piece -> 0..Attempts]]
    BY DEF Transition
  <2>2. c.tries[way][p] + 1 \in 0..Attempts
    BY <1>2
  <2>3. [c.tries[way] EXCEPT ![p] = @ + 1] \in [Piece -> 0..Attempts]
    BY <2>1, <2>2
  <2> QED BY <2>1, <2>3
<1>5. /\ [c.before EXCEPT ![p] = c.moved[p]] \in [Piece -> BOOLEAN]
      /\ [c.moved EXCEPT ![p] = TRUE] \in [Piece -> BOOLEAN]
      /\ \A x \in Piece : [c.moved EXCEPT ![p] = TRUE][x] <=> (x = p \/ c.moved[x])
      /\ \A x \in Piece : [c.before EXCEPT ![p] = c.moved[p]][x]
                            <=> (IF x = p THEN c.moved[x] ELSE c.before[x])
  BY DEF Transition
<1>6. /\ v \in Transition /\ v.pending = None /\ Frame(c, v)
      /\ v.tries = [c.tries EXCEPT ![way][p] = @ + 1]
      /\ v.before = [c.before EXCEPT ![p] = c.moved[p]]
      /\ v.moved = [c.moved EXCEPT ![p] = TRUE]
  BY <1>4, <1>5 DEF Transition, Frame
<1>7. Counted(c, v, p, way)
  BY <1>4, <1>5, <1>6 DEF Counted
<1> HIDE DEF v
<1>8. /\ u \in Transition /\ Frame(v, u) /\ Counts(v, u)
      /\ u.phase = Issuing[way][p] /\ u.pending = MoveKind[p] /\ u.out = Awaiting(u)
  BY <1>1, <1>3, <1>6, EnterFacts
<1> HIDE DEF u
<1>9. Frame(c, u)
  BY <1>6, <1>8 DEF Frame
<1>10. Counted(c, u, p, way)
  BY <1>7, <1>8 DEF Counted, Counts
<1> QED BY <1>8, <1>9, <1>10 DEF u

-----------------------------------------------------------------------------
(* The invariant of a transition.  H are the pieces that are where they    *)
(* were, or that somebody else moved; A those that are at the destination, *)
(* or that somebody else moved.                                            *)

TargetBack == {"RollbackTargetIssue", "RollbackTargetVerify"}
PopupBack == {"RollbackPopupIssue", "RollbackPopupVerify"}
SwitchBack == {"RollbackSwitchIssue", "OriginVerify"}
Backward == TargetBack \cup PopupBack \cup SwitchBack
Last == {"RefreshModel", "FailureReport", "FocusRestore"}
Forward == {"TargetIssue", "TargetVerify", "IdentityVerifyBeforePopup", "PopupIssue",
            "PopupVerify", "IdentityVerifyBeforeSwitch", "SwitchIssue",
            "DestinationVerify", "PublishVisualAssignment"}

Follower(u) == u.mode \in {"MoveAndFollow", "VisualAndFollow"}

Settled(u, p) ==
  (p = "target" /\ u.lost) \/ ~u.moved[p] \/ u.tries["back"][p] = Attempts
AllSettled(u) == \A p \in Piece : Settled(u, p)

\* What holds of a transition whatever it is in the middle of.
Sound(u, H) ==
  /\ u \in Transition
  /\ u.sticky => Follower(u)
  /\ Visual(u) => ~u.moved["target"] /\ ~u.before["target"]
  /\ ~Follower(u) => /\ ~u.moved["popup"] /\ ~u.before["popup"]
                     /\ ~u.moved["current"] /\ ~u.before["current"]
  /\ u.sticky => ~u.moved["popup"] /\ ~u.before["popup"]
  /\ \A p \in Piece : u.moved[p] \/ p \in H
  /\ u.cancelled => u.failed
  /\ u.dismissed => u.cancelled /\ Follower(u)
  /\ u.cancelled /\ Follower(u) => u.dismissed
  /\ u.hideDone => u.dismissed
  /\ u.focusLost => u.failed
  /\ u.phase # "FocusRestore" /\ ~u.focusLost => u.focus = 0

AllThere(u, A) ==
  /\ ~Visual(u) => "target" \in A
  /\ Follower(u) => "current" \in A
  /\ Follower(u) /\ ~u.sticky => "popup" \in A

ForwardInv(u, A, kind) ==
  /\ ~u.cutoff /\ ~u.focusLost /\ \A p \in Piece : u.tries["back"][p] = 0
  /\ \A p \in Piece : u.seen[p] = u.dest => p \in A
  /\ u.failed => u.cancelled \/ u.ack
  /\ u.dismissed => kind = "Hide" \/ kind = "PublishVisualAssignment"
  /\ u.ack => u.mode = "VisualOnly"
  /\ u.phase = "IdentityVerifyBeforePopup" /\ Follower(u) /\ ~u.sticky
       => u.tries["there"]["popup"] < Attempts
  /\ u.phase \in {"TargetIssue", "TargetVerify"}
       => ~Visual(u) /\ u.tries["there"]["popup"] = 0
  /\ u.phase \notin {"TargetIssue", "TargetVerify"} => ~Row(u)
  /\ u.mode = "VisualOnly"
       => u.phase \in {"IdentityVerifyBeforePopup", "PublishVisualAssignment"}
  /\ u.mode = "MoveAndFollow" /\ u.phase \notin {"TargetIssue", "TargetVerify"}
       => u.seen["target"] = u.dest
  /\ u.sticky => u.phase \notin {"PopupIssue", "PopupVerify"} /\ kind # "ReadPopup"
  /\ u.phase = "DestinationVerify" /\ kind = "ReadPopup" => u.seen["current"] = u.dest
  /\ u.phase = "PublishVisualAssignment" => Visual(u)
  /\ u.phase = "PublishVisualAssignment" /\ Follower(u)
       => u.seen["current"] = u.dest /\ (u.sticky \/ u.seen["popup"] = u.dest)

BackwardInv(u) ==
  /\ u.failed /\ ~u.cutoff /\ ~u.focusLost /\ ~u.ack /\ u.mode # "VisualOnly"
  /\ Row(u) => u.phase \in TargetBack
  /\ Visual(u) => u.phase \notin TargetBack
  /\ u.sticky => u.phase \notin PopupBack
  /\ u.phase \in TargetBack => u.tries["back"]["popup"] = 0
  /\ u.phase \notin TargetBack => Settled(u, "target")
  /\ u.phase \notin SwitchBack => u.tries["back"]["current"] = 0
  /\ u.phase \in SwitchBack => Settled(u, "popup")

SaveInv(u, A) ==
  /\ u.cutoff /\ ~u.focusLost /\ ~u.ack /\ ~Visual(u) /\ AllThere(u, A)
  /\ \A p \in Piece : u.tries["back"][p] = 0

LastInv(u, A, kind) ==
  /\ u.mode # "VisualOnly"
  /\ u.cutoff => ~Visual(u) /\ AllThere(u, A)
  /\ ~u.cutoff /\ ~Visual(u) => u.failed /\ AllSettled(u)
  /\ u.phase = "RefreshModel" => ~u.focusLost
  /\ u.phase # "RefreshModel" => Follower(u)
  /\ u.phase # "RefreshModel" /\ u.dismissed /\ ~u.ack => kind = "Hide"
  /\ u.phase = "FailureReport" => u.failed
  /\ Visual(u) => IF u.phase = "RefreshModel" THEN u.failed /\ AllSettled(u)
                  ELSE AllThere(u, A) /\ (u.phase = "FailureReport" => u.focusLost)

PhaseInv(u, A, kind) ==
  /\ u.phase \in Forward => ForwardInv(u, A, kind)
  /\ u.phase \in Backward => BackwardInv(u)
  /\ u.phase = "SaveExactTarget" => SaveInv(u, A)
  /\ u.phase \in Last => LastInv(u, A, kind)

Awaits(phase) ==
  CASE phase \in {"TargetIssue", "RollbackTargetIssue"} -> {"MoveTarget"}
    [] phase \in {"PopupIssue", "RollbackPopupIssue"} -> {"MovePopup"}
    [] phase \in {"SwitchIssue", "RollbackSwitchIssue"} -> {"SwitchDesktop"}
    [] phase \in {"TargetVerify", "RollbackTargetVerify"} -> {"ReadTarget"}
    [] phase \in {"PopupVerify", "RollbackPopupVerify"} -> {"ReadPopup"}
    [] phase = "DestinationVerify" -> {"ReadCurrent", "ReadPopup"}
    [] phase = "OriginVerify" -> {"ReadCurrent"}
    [] phase \in {"IdentityVerifyBeforePopup", "IdentityVerifyBeforeSwitch"}
         -> {"ValidateTarget"}
    [] phase = "PublishVisualAssignment" -> {"PublishVisualAssignment"}
    [] phase = "SaveExactTarget" -> {"SaveExactTarget"}
    [] phase = "RefreshModel" -> {"Refresh"}
    [] phase = "FailureReport" -> {"ReportFailure"}
    [] OTHER -> {"ShowAndFocus"}

PendingInv(u) ==
  /\ IF u.ack THEN u.pending = None
     ELSE \/ u.pending \in Awaits(u.phase)
          \/ u.pending = "Hide" /\ u.dismissed /\ u.resume = u.phase
  /\ \A p \in Piece : u.pending = MoveKind[p] => u.moved[p]
  /\ u.ack /\ Follower(u) /\ ~Visual(u) /\ u.dismissed => u.hideDone

TransitionInv(u, H, A) ==
  Sound(u, H) /\ PendingInv(u) /\ PhaseInv(u, A, u.pending)

KeptBy(u) ==
  \/ u.cutoff
  \/ Visual(u) /\ (u.phase = "FocusRestore" \/ u.focusLost \/ (u.ack /\ ~u.failed))

-----------------------------------------------------------------------------
(* Putting back. *)

\* Between an observation and the effect it leads to.
Between(c, H) == Sound(c, H) /\ c.pending = None /\ ~c.ack /\ c.out = NoEffect

Kin(c, u) ==
  /\ u.mode = c.mode /\ u.sticky = c.sticky /\ u.dest = c.dest
  /\ u.origin = c.origin /\ u.cancelled = c.cancelled /\ u.dismissed = c.dismissed

Answer(c, u, H, A) ==
  /\ TransitionInv(u, H, A) /\ Kin(c, u)
  /\ u.out = IF u.ack THEN NoEffect ELSE Awaiting(u)
  /\ \A p \in Piece : u.pending = MoveKind[p] => u.before[p] \/ p \in H

Undone(c, u, H, A) ==
  Answer(c, u, H, A) /\ u.failed /\ ~KeptBy(u) /\ ~u.cutoff /\ u.hideDone = c.hideDone

Undoing(c, H) ==
  /\ Between(c, H) /\ c.failed /\ ~c.cutoff /\ ~c.focusLost
  /\ c.phase # "FocusRestore"

\* The pieces before p are settled, and those after it were not tried.
Turn(c, p) ==
  /\ Row(c) => p = "target"
  /\ Visual(c) => p # "target"
  /\ c.mode # "VisualOnly"
  /\ p = "popup" => ~c.sticky
  /\ p = "target" => c.tries["back"]["popup"] = 0
  /\ p # "target" => Settled(c, "target")
  /\ p # "current" => c.tries["back"]["current"] = 0
  /\ p = "current" => Settled(c, "popup")

LEMMA IssueBack ==
  ASSUME NEW c, NEW H, NEW A, NEW p \in Piece, Undoing(c, H), Turn(c, p),
         c.tries["back"][p] < Attempts
  PROVE  Undone(c, Issue(c, p, "back"), H, A)
<1> DEFINE u == Issue(c, p, "back")
<1>1. c \in Transition /\ c.pending = None
  BY DEF Undoing, Between, Sound
<1>2. /\ u \in Transition /\ Frame(c, u) /\ Counted(c, u, p, "back")
      /\ u.phase = Issuing["back"][p] /\ u.pending = MoveKind[p]
      /\ u.out = Awaiting(u)
  BY <1>1, IssueFacts DEF Turn, Ways
<1> HIDE DEF u
<1>3. Sound(u, H)
  <2>1. c.mode \in Mode
    BY <1>1 DEF Transition
  <2> QED BY <1>1, <1>2, <2>1 DEF Undoing, Between, Sound, Frame, Counted, Turn, Piece,
            Mode, Row, Visual, Follower, Issuing
<1>4. PendingInv(u)
  BY <1>2, <1>1 DEF Undoing, Between, PendingInv, Frame, Counted, Piece, Issuing, MoveKind, Awaits
<1>5. u.phase \in Backward /\ u.phase \notin Forward /\ u.phase # "SaveExactTarget" /\ u.phase \notin Last
  BY <1>2 DEF Piece, Issuing, Backward, Forward, Last, TargetBack, PopupBack, SwitchBack
<1>6. BackwardInv(u)
  BY <1>1, <1>2 DEF Undoing, Between, BackwardInv, Frame, Counted, Turn, Piece, Row, Visual, Settled,
     Issuing, TargetBack, PopupBack, SwitchBack, Ways, None
<1>7. \A x \in Piece : u.pending = MoveKind[x] => u.before[x] \/ x \in H
  BY <1>1, <1>2 DEF Undoing, Between, Sound, Counted, Piece, MoveKind
<1>8. TransitionInv(u, H, A)
  BY <1>3, <1>4, <1>5, <1>6 DEF TransitionInv, PhaseInv
<1>9. Kin(c, u) /\ u.failed /\ ~KeptBy(u) /\ ~u.cutoff /\ u.hideDone = c.hideDone /\ ~u.ack
  BY <1>2 DEF Undoing, Between, Kin, Frame, KeptBy, Piece, Issuing
<1> QED BY <1>2, <1>7, <1>8, <1>9 DEF Undone, Answer, u

LEMMA VerifyBack ==
  ASSUME NEW c, NEW H, NEW A, NEW p \in Piece, Undoing(c, H), Turn(c, p)
  PROVE  Undone(c, Verify(c, p, "back"), H, A)
<1> DEFINE u == Verify(c, p, "back")
<1>1. c \in Transition /\ c.pending = None
  BY DEF Undoing, Between, Sound
<1>2. /\ u \in Transition /\ Frame(c, u) /\ Counts(c, u)
      /\ u.phase = Verifying["back"][p] /\ u.pending = ReadKind[p]
      /\ u.out = Awaiting(u)
  BY <1>1, VerifyFacts DEF Ways
<1> HIDE DEF u
<1>3. Sound(u, H)
  BY <1>1, <1>2 DEF Undoing, Between, Sound, Frame, Counts, Piece, Row, Visual, Follower, Verifying
<1>4. PendingInv(u)
  BY <1>2, <1>1 DEF Undoing, Between, PendingInv, Frame, Piece, Verifying, ReadKind, MoveKind, Awaits
<1>5. u.phase \in Backward /\ u.phase \notin Forward /\ u.phase # "SaveExactTarget" /\ u.phase \notin Last
  BY <1>2 DEF Piece, Verifying, Backward, Forward, Last, TargetBack, PopupBack, SwitchBack
<1>6. BackwardInv(u)
  BY <1>1, <1>2 DEF Undoing, Between, BackwardInv, Frame, Counts, Turn, Piece, Row, Visual, Settled,
     Verifying, TargetBack, PopupBack, SwitchBack, None
<1>7. \A x \in Piece : u.pending # MoveKind[x]
  BY <1>2 DEF Piece, MoveKind, ReadKind
<1>8. TransitionInv(u, H, A)
  BY <1>3, <1>4, <1>5, <1>6 DEF TransitionInv, PhaseInv
<1>9. Kin(c, u) /\ u.failed /\ ~KeptBy(u) /\ ~u.cutoff /\ u.hideDone = c.hideDone /\ ~u.ack
  BY <1>2 DEF Undoing, Between, Kin, Frame, KeptBy, Piece, Verifying
<1> QED BY <1>2, <1>7, <1>8, <1>9 DEF Undone, Answer, u

LEMMA RefreshBack ==
  ASSUME NEW c, NEW H, NEW A, Undoing(c, H), AllSettled(c), c.mode # "VisualOnly"
  PROVE  Undone(c, StartRefresh(c), H, A)
<1> DEFINE u == StartRefresh(c)
<1>1. c \in Transition /\ c.pending = None
  BY DEF Undoing, Between, Sound
<1>2. /\ u \in Transition /\ Frame(c, u) /\ Counts(c, u)
      /\ u.phase = "RefreshModel" /\ u.pending = "Refresh" /\ u.out = Awaiting(u)
  BY <1>1, RefreshFacts
<1> HIDE DEF u
<1>3. Sound(u, H)
  BY <1>1, <1>2 DEF Undoing, Between, Sound, Frame, Counts, Piece, Visual, Follower
<1>4. PendingInv(u)
  BY <1>2, <1>1 DEF Undoing, Between, PendingInv, Frame, Piece, MoveKind, Awaits
<1>5. u.phase \notin Backward /\ u.phase \notin Forward /\ u.phase # "SaveExactTarget"
  BY <1>2 DEF Backward, Forward, TargetBack, PopupBack, SwitchBack
<1>6. LastInv(u, A, u.pending)
  BY <1>1, <1>2 DEF Undoing, Between, LastInv, Frame, Counts, AllSettled, Settled, Visual
<1>7. \A x \in Piece : u.pending # MoveKind[x]
  BY <1>2 DEF Piece, MoveKind
<1>8. TransitionInv(u, H, A)
  BY <1>3, <1>4, <1>5, <1>6 DEF TransitionInv, PhaseInv
<1>9. Kin(c, u) /\ u.failed /\ ~KeptBy(u) /\ ~u.cutoff /\ u.hideDone = c.hideDone /\ ~u.ack
  BY <1>2 DEF Undoing, Between, Kin, Frame, KeptBy
<1> QED BY <1>2, <1>7, <1>8, <1>9 DEF Undone, Answer, u

LEMMA AfterPopup ==
  ASSUME NEW c, NEW H, NEW A, Undoing(c, H), Follower(c),
         Settled(c, "target"), Settled(c, "popup"), c.tries["back"]["current"] = 0
  PROVE  Undone(c, ContinueRollbackAfterPopup(c), H, A)
<1>1. "current" \in Piece /\ Turn(c, "current") /\ c.tries["back"]["current"] < Attempts
        /\ c.mode # "VisualOnly"
  BY PickerAssumption DEF Piece, Turn, Follower, Row, Visual
<1>2. CASE c.moved["current"]
  BY <1>1, <1>2, IssueBack DEF ContinueRollbackAfterPopup
<1>3. CASE ~c.moved["current"] /\ c.verify
  BY <1>1, <1>3, VerifyBack DEF ContinueRollbackAfterPopup
<1>4. CASE ~c.moved["current"] /\ ~c.verify
  <2>1. AllSettled(c)
    BY <1>4 DEF AllSettled, Settled, Piece
  <2> QED BY <1>1, <1>4, <2>1, RefreshBack DEF ContinueRollbackAfterPopup
<1> QED BY <1>2, <1>3, <1>4

LEMMA AfterTarget ==
  ASSUME NEW c, NEW H, NEW A, Undoing(c, H), c.mode # "VisualOnly",
         Settled(c, "target"), c.tries["back"]["popup"] = 0,
         c.tries["back"]["current"] = 0
  PROVE  Undone(c, ContinueRollbackAfterTarget(c), H, A)
<1>1. CASE Row(c)
  <2>1. AllSettled(c)
    BY <1>1 DEF AllSettled, Settled, Piece, Row, Follower, Undoing, Between, Sound
  <2> QED BY <1>1, <2>1, RefreshBack DEF ContinueRollbackAfterTarget
<1>2. CASE ~Row(c)
  <2>1. Follower(c)
    BY <1>2 DEF Follower, Row, Undoing, Between, Sound, Transition, Mode
  <2>2. c.sticky => Settled(c, "popup")
    BY DEF Settled, Undoing, Between, Sound
  <2>3. ~c.moved["popup"] => Settled(c, "popup")
    BY DEF Settled
  <2>4. ~c.sticky => "popup" \in Piece /\ Turn(c, "popup") /\ c.tries["back"]["popup"] < Attempts
    BY <1>2, <2>1, PickerAssumption DEF Piece, Turn, Follower, Visual
  <2>5. CASE ~c.sticky /\ c.moved["popup"]
    BY <1>2, <2>4, <2>5, IssueBack DEF ContinueRollbackAfterTarget
  <2>6. CASE ~c.sticky /\ ~c.moved["popup"] /\ c.verify
    BY <1>2, <2>4, <2>6, VerifyBack DEF ContinueRollbackAfterTarget
  <2>7. CASE c.sticky \/ (~c.moved["popup"] /\ ~c.verify)
    BY <1>2, <2>1, <2>2, <2>3, <2>7, AfterPopup DEF ContinueRollbackAfterTarget
  <2> QED BY <2>5, <2>6, <2>7
<1> QED BY <1>1, <1>2

\* When everything that was done may be undone.
Undoable(c, H, A) ==
  /\ Between(c, H) /\ ~c.cutoff /\ ~c.focusLost /\ c.phase # "FocusRestore"
  /\ c.tries["back"]["popup"] = 0 /\ c.tries["back"]["current"] = 0
  /\ ~Row(c) => c.tries["back"]["target"] = 0
  /\ c.mode = "VisualOnly"
       => /\ c.phase \in {"IdentityVerifyBeforePopup", "PublishVisualAssignment"}
          /\ \A p \in Piece : c.seen[p] = c.dest => p \in A

\* The fields a rollback begins by setting.
Recounted(c, u) ==
  /\ u.phase = c.phase /\ u.mode = c.mode /\ u.sticky = c.sticky /\ u.dest = c.dest
  /\ u.origin = c.origin /\ u.seen = c.seen /\ u.cancelled = c.cancelled
  /\ u.dismissed = c.dismissed /\ u.pending = c.pending /\ u.hideDone = c.hideDone
  /\ u.focusLost = c.focusLost /\ u.lost = c.lost /\ u.cutoff = c.cutoff
  /\ u.ack = c.ack /\ u.focus = c.focus /\ u.out = c.out
  /\ u.before = c.before

LEMMA RollbackVisualFacts ==
  ASSUME NEW c, NEW H, NEW A, Undoing(c, H), Undoable(c, H, A), Visual(c)
  PROVE  Undone(c, RollbackVisual(c), H, A)
<1> DEFINE u == [c EXCEPT !.moved["target"] = FALSE,
                          !.tries["back"]["target"] = 0,
                          !.verify = c.moved["popup"] \/ c.moved["current"]]
<1>1. c \in Transition /\ Attempts \in Nat
  BY PickerAssumption DEF Undoing, Between, Sound
<1>2. /\ [c.tries EXCEPT !["back"]["target"] = 0] \in [Ways -> [Piece -> 0..Attempts]]
      /\ [c.moved EXCEPT !["target"] = FALSE] \in [Piece -> BOOLEAN]
      /\ (c.moved["popup"] \/ c.moved["current"]) \in BOOLEAN
  BY <1>1 DEF Transition, Ways, Piece
<1>3. /\ u \in Transition /\ Recounted(c, u) /\ u.failed = c.failed
      /\ u.tries = [c.tries EXCEPT !["back"]["target"] = 0]
      /\ u.moved = [c.moved EXCEPT !["target"] = FALSE]
  BY <1>1, <1>2 DEF Transition, Recounted
<1> HIDE DEF u
<1>4. /\ ~u.moved["target"] /\ u.tries["back"]["target"] = 0
      /\ \A p \in Piece \ {"target"} : u.moved[p] = c.moved[p]
                                        /\ u.tries["back"][p] = c.tries["back"][p]
  BY <1>1, <1>3 DEF Transition, Ways, Piece
<1>5. "target" \in H
  BY DEF Undoing, Between, Sound, Piece
<1>6. Sound(u, H)
  BY <1>3, <1>4, <1>5 DEF Undoing, Between, Sound, Recounted, Piece, Visual, Follower
<1>7. Undoing(u, H)
  BY <1>3, <1>6 DEF Undoing, Between, Recounted
<1>8. CASE c.mode = "VisualOnly"
  <2> DEFINE v == AcknowledgeTerminal(u)
  <2>1. RollbackVisual(c) = v
    BY <1>8 DEF RollbackVisual, u
  <2>2. v \in Transition /\ Counts(u, v) /\ Acknowledged(u, v)
    BY <1>3, AcknowledgeFacts
  <2> HIDE DEF v
  <2>3. Sound(v, H)
    BY <1>6, <2>2 DEF Acknowledged, Sound, Counts, Visual, Follower
  <2>4. PendingInv(v) /\ \A p \in Piece : v.pending # MoveKind[p]
    BY <1>3, <1>8, <2>2 DEF Acknowledged, PendingInv, Recounted, Follower, Piece, MoveKind, None
  <2>5. v.phase \in {"IdentityVerifyBeforePopup", "PublishVisualAssignment"}
    BY <1>3, <1>8, <2>2 DEF Acknowledged, Undoable, Recounted
  <2>6. ForwardInv(v, A, v.pending)
    <3>1. \A p \in Piece : v.tries["back"][p] = 0
      BY <1>4, <1>8, <2>2 DEF Acknowledged, Undoable, Counts, Piece
    <3>2. ~v.cutoff /\ ~v.focusLost /\ v.ack /\ v.mode = "VisualOnly" /\ ~v.dismissed
            /\ ~v.sticky
      BY <1>3, <1>6, <1>8, <2>2 DEF Acknowledged, Undoing, Recounted, Sound, Follower
    <3>3. \A p \in Piece : v.seen[p] = v.dest => p \in A
      BY <1>3, <1>8, <2>2 DEF Acknowledged, Undoable, Recounted
    <3> QED BY <2>5, <3>1, <3>2, <3>3 DEF ForwardInv, Visual, Row, Follower
  <2>7. TransitionInv(v, H, A)
    BY <2>3, <2>4, <2>5, <2>6 DEF TransitionInv, PhaseInv, Backward, TargetBack, PopupBack,
         SwitchBack, Last
  <2>8. Kin(c, v) /\ v.failed /\ ~KeptBy(v) /\ ~v.cutoff /\ v.hideDone = c.hideDone
          /\ v.out = NoEffect
    BY <1>3, <2>2, <2>5 DEF Undoing, Between, Kin, Recounted, KeptBy, Acknowledged
  <2> QED BY <2>1, <2>2, <2>4, <2>7, <2>8 DEF Undone, Answer, Acknowledged
<1>9. CASE c.mode # "VisualOnly"
  <2>1. RollbackVisual(c) = ContinueRollbackAfterTarget(u)
    BY <1>9 DEF RollbackVisual, u
  <2>2. Settled(u, "target") /\ u.mode # "VisualOnly"
    BY <1>3, <1>4, <1>9 DEF Settled, Recounted
  <2>3. u.tries["back"]["popup"] = 0 /\ u.tries["back"]["current"] = 0
    BY <1>4 DEF Undoable, Piece
  <2>4. Undone(u, ContinueRollbackAfterTarget(u), H, A)
    BY <1>7, <2>2, <2>3, AfterTarget
  <2> QED BY <1>3, <2>1, <2>4 DEF Undone, Answer, Kin, Recounted
<1> QED BY <1>8, <1>9

\* Whether there is something to read back is all that changes.
LEMMA VerifySet ==
  ASSUME NEW c, NEW H, NEW b \in BOOLEAN, Undoing(c, H)
  PROVE  LET u == [c EXCEPT !.verify = b]
         IN /\ Undoing(u, H) /\ Recounted(c, u) /\ u.verify = b
            /\ Counts(c, u) /\ u.failed = c.failed
<1> DEFINE u == [c EXCEPT !.verify = b]
<1>1. c \in Transition
  BY DEF Undoing, Between, Sound
<1>2. u \in Transition /\ Recounted(c, u) /\ u.verify = b /\ Counts(c, u) /\ u.failed = c.failed
  BY <1>1 DEF Transition, Recounted, Counts
<1> HIDE DEF u
<1>3. Sound(u, H)
  BY <1>2 DEF Undoing, Between, Sound, Recounted, Counts, Visual, Follower
<1> QED BY <1>2, <1>3 DEF Undoing, Between, Recounted, u

LEMMA RollbackRowFacts ==
  ASSUME NEW c, NEW H, NEW A, Undoing(c, H), Undoable(c, H, A), Row(c)
  PROVE  Undone(c, RollbackRow(c), H, A)
<1> DEFINE u == [c EXCEPT !.verify = @ \/ c.moved["target"]]
<1>1. c \in Transition
  BY DEF Undoing, Between, Sound
<1>2. (c.verify \/ c.moved["target"]) \in BOOLEAN
  OBVIOUS
<1>3. /\ Undoing(u, H) /\ Recounted(c, u) /\ Counts(c, u)
      /\ u.verify = (c.verify \/ c.moved["target"])
  BY <1>2, VerifySet
<1>4. Undone(u, RollbackRow(c), H, A) => Undone(c, RollbackRow(c), H, A)
  BY <1>3 DEF Undone, Answer, Kin, Recounted
<1>5. RollbackRow(c) =
        CASE ~u.verify \/ u.lost -> StartRefresh(u)
          [] u.verify /\ ~u.lost /\ ~u.moved["target"] -> Verify(u, "target", "back")
          [] u.verify /\ ~u.lost /\ u.moved["target"]
               -> IF u.tries["back"]["target"] < Attempts
                  THEN Issue(u, "target", "back")
                  ELSE ContinueRollbackAfterTarget(u)
  BY DEF RollbackRow
<1> HIDE DEF u
<1>6. Row(u) /\ u.mode # "VisualOnly" /\ u.tries["back"]["popup"] = 0
        /\ u.tries["back"]["current"] = 0 /\ "target" \in Piece
  BY <1>3 DEF Row, Undoable, Recounted, Counts, Piece
<1>7. Turn(u, "target")
  BY <1>6 DEF Turn, Row, Visual
<1>8. CASE ~u.verify \/ u.lost
  <2>1. ~u.verify => ~u.moved["target"]
    BY <1>3 DEF Counts
  <2>2. AllSettled(u)
    BY <1>3, <1>6, <1>8, <2>1 DEF AllSettled, Settled, Undoing, Between, Sound, Row, Follower, Piece
  <2>3. RollbackRow(c) = StartRefresh(u)
    BY <1>5, <1>8
  <2> QED BY <1>3, <1>4, <1>6, <2>2, <2>3, RefreshBack
<1>9. CASE u.verify /\ ~u.lost /\ ~u.moved["target"]
  <2>1. RollbackRow(c) = Verify(u, "target", "back")
    BY <1>5, <1>9
  <2> QED BY <1>3, <1>4, <1>6, <1>7, <2>1, VerifyBack
<1>10. CASE u.verify /\ ~u.lost /\ u.moved["target"]
  <2>1. CASE u.tries["back"]["target"] < Attempts
    <3>1. RollbackRow(c) = Issue(u, "target", "back")
      BY <1>5, <1>10, <2>1
    <3> QED BY <1>3, <1>4, <1>6, <1>7, <2>1, <3>1, IssueBack
  <2>2. CASE ~(u.tries["back"]["target"] < Attempts)
    <3>1. RollbackRow(c) = ContinueRollbackAfterTarget(u)
      BY <1>5, <1>10, <2>2
    <3>2. u.tries["back"]["target"] \in 0..Attempts
      BY <1>1, <1>3 DEF Transition, Counts, Ways, Piece
    <3>3. Settled(u, "target")
      BY <2>2, <3>2, PickerAssumption DEF Settled
    <3> QED BY <1>3, <1>4, <1>6, <3>1, <3>3, AfterTarget
  <2> QED BY <2>1, <2>2
<1> QED BY <1>8, <1>9, <1>10

LEMMA RollbackFollowFacts ==
  ASSUME NEW c, NEW H, NEW A, Undoing(c, H), Undoable(c, H, A),
         c.mode = "MoveAndFollow"
  PROVE  Undone(c, RollbackFollow(c), H, A)
<1> DEFINE b == \E p \in Piece : c.moved[p]
           u == [c EXCEPT !.verify = @ \/ b]
<1>1. c \in Transition
  BY DEF Undoing, Between, Sound
<1>2. (c.verify \/ b) \in BOOLEAN
  OBVIOUS
<1>3. /\ Undoing(u, H) /\ Recounted(c, u) /\ Counts(c, u) /\ u.verify = (c.verify \/ b)
  BY <1>2, VerifySet
<1>4. Undone(u, RollbackFollow(c), H, A) => Undone(c, RollbackFollow(c), H, A)
  BY <1>3 DEF Undone, Answer, Kin, Recounted
<1>5. RollbackFollow(c) =
        CASE ~u.verify -> StartRefresh(u)
          [] u.verify /\ u.lost -> ContinueRollbackAfterTarget(u)
          [] u.verify /\ ~u.lost /\ u.moved["target"] -> Issue(u, "target", "back")
          [] u.verify /\ ~u.lost /\ ~u.moved["target"] -> Verify(u, "target", "back")
  BY DEF RollbackFollow
<1> HIDE DEF u
<1>6. u.mode = "MoveAndFollow" /\ u.tries["back"]["popup"] = 0
        /\ u.tries["back"]["current"] = 0 /\ "target" \in Piece
        /\ u.tries["back"]["target"] < Attempts
  BY <1>3, PickerAssumption DEF Row, Undoable, Recounted, Counts, Piece
<1>7. Turn(u, "target")
  BY <1>6 DEF Turn, Row, Visual
<1>8. CASE ~u.verify
  <2>1. AllSettled(u)
    BY <1>3, <1>8 DEF AllSettled, Settled, Counts
  <2>2. RollbackFollow(c) = StartRefresh(u)
    BY <1>5, <1>8
  <2> QED BY <1>3, <1>4, <1>6, <2>1, <2>2, RefreshBack
<1>9. CASE u.verify /\ u.lost
  <2>1. RollbackFollow(c) = ContinueRollbackAfterTarget(u) /\ Settled(u, "target")
    BY <1>5, <1>9 DEF Settled
  <2> QED BY <1>3, <1>4, <1>6, <2>1, AfterTarget
<1>10. CASE u.verify /\ ~u.lost /\ u.moved["target"]
  <2>1. RollbackFollow(c) = Issue(u, "target", "back")
    BY <1>5, <1>10
  <2> QED BY <1>3, <1>4, <1>6, <1>7, <2>1, IssueBack
<1>11. CASE u.verify /\ ~u.lost /\ ~u.moved["target"]
  <2>1. RollbackFollow(c) = Verify(u, "target", "back")
    BY <1>5, <1>11
  <2> QED BY <1>3, <1>4, <1>6, <1>7, <2>1, VerifyBack
<1> QED BY <1>8, <1>9, <1>10, <1>11

LEMMA BeginRollbackFacts ==
  ASSUME NEW c, NEW H, NEW A, Undoable(c, H, A)
  PROVE  Undone(c, BeginRollback(c), H, A)
<1> DEFINE u == [c EXCEPT !.failed = TRUE]
<1>1. c \in Transition
  BY DEF Undoable, Between, Sound
<1>2. u \in Transition /\ Recounted(c, u) /\ u.failed = TRUE /\ Counts(c, u)
  BY <1>1 DEF Transition, Recounted, Counts
<1>3. BeginRollback(c) = CASE Visual(u) -> RollbackVisual(u)
                           [] Row(u) -> RollbackRow(u)
                           [] OTHER -> RollbackFollow(u)
  BY <1>1, <1>2 DEF BeginRollback, Visual, Row, Recounted
<1> HIDE DEF u
<1>4. Sound(u, H)
  BY <1>2 DEF Undoable, Between, Sound, Recounted, Counts, Visual, Follower
<1>5. Undoing(u, H)
  BY <1>2, <1>4 DEF Undoing, Undoable, Between, Recounted
<1>6. Undoable(u, H, A)
  BY <1>2, <1>5 DEF Undoing, Undoable, Recounted, Counts, Row
<1>7. u.mode \in Mode
  BY <1>2 DEF Transition
<1>8. Undone(u, BeginRollback(c), H, A)
  <2>1. CASE Visual(u)
    <3>1. BeginRollback(c) = RollbackVisual(u)
      BY <1>3, <2>1 DEF Row, Visual
    <3> QED BY <1>5, <1>6, <2>1, <3>1, RollbackVisualFacts
  <2>2. CASE Row(u)
    <3>1. BeginRollback(c) = RollbackRow(u)
      BY <1>3, <2>2 DEF Row, Visual
    <3> QED BY <1>5, <1>6, <2>2, <3>1, RollbackRowFacts
  <2>3. CASE ~Visual(u) /\ ~Row(u)
    <3>1. BeginRollback(c) = RollbackFollow(u) /\ u.mode = "MoveAndFollow"
      BY <1>3, <1>7, <2>3 DEF Row, Visual, Mode
    <3> QED BY <1>5, <1>6, <3>1, RollbackFollowFacts
  <2> QED BY <2>1, <2>2, <2>3
<1> QED BY <1>2, <1>8 DEF Undone, Answer, Kin, Recounted

-----------------------------------------------------------------------------
(* Going forward. *)

Onward(c, H, A) ==
  /\ Between(c, H) /\ ~c.cutoff /\ ~c.focusLost /\ ~c.dismissed
  /\ c.phase \notin Last
  /\ c.failed => c.cancelled
  /\ \A p \in Piece : c.tries["back"][p] = 0
  /\ \A p \in Piece : c.seen[p] = c.dest => p \in A

\* The pieces before p are at the destination.
Ahead(c, p) ==
  /\ p = "target" => ~Visual(c) /\ c.tries["there"]["popup"] = 0
  /\ p # "target" => Follower(c)
  /\ p # "target" /\ c.mode = "MoveAndFollow" => c.seen["target"] = c.dest
  /\ p = "popup" => ~c.sticky

Gone(c, u, H, A) ==
  /\ Answer(c, u, H, A) /\ u.failed = c.failed /\ u.hideDone = c.hideDone /\ ~u.ack
  /\ u.phase \in Forward \cup {"SaveExactTarget"}

LEMMA GoneForward ==
  ASSUME NEW c, NEW H, NEW A, Onward(c, H, A), NEW u \in Transition, Frame(c, u),
         u.phase \in Forward, u.pending \in Awaits(u.phase), u.out = Awaiting(u),
         Sound(u, H), ForwardInv(u, A, u.pending),
         \A p \in Piece : u.pending = MoveKind[p]
            => u.moved[p] /\ (u.before[p] \/ p \in H)
  PROVE  Gone(c, u, H, A)
<1>1. ~u.ack /\ Kin(c, u) /\ u.failed = c.failed /\ u.hideDone = c.hideDone
  BY DEF Onward, Between, Frame, Kin
<1>2. PendingInv(u)
  BY <1>1 DEF PendingInv
<1>3. PhaseInv(u, A, u.pending)
  BY DEF PhaseInv, Forward, Backward, TargetBack, PopupBack, SwitchBack, Last
<1> QED BY <1>1, <1>2, <1>3 DEF Gone, Answer, TransitionInv

LEMMA IssueThere ==
  ASSUME NEW c, NEW H, NEW A, Onward(c, H, A), NEW p \in Piece, Ahead(c, p),
         c.tries["there"][p] < Attempts
  PROVE  Gone(c, Issue(c, p, "there"), H, A)
<1> DEFINE u == Issue(c, p, "there")
<1>1. c \in Transition /\ c.pending = None /\ c.mode \in Mode
  BY DEF Onward, Between, Sound, Transition
<1>2. /\ u \in Transition /\ Frame(c, u) /\ Counted(c, u, p, "there")
      /\ u.phase = Issuing["there"][p] /\ u.pending = MoveKind[p]
      /\ u.out = Awaiting(u)
  BY <1>1, IssueFacts DEF Ahead, Ways
<1> HIDE DEF u
<1>3. Sound(u, H)
  BY <1>1, <1>2 DEF Onward, Between, Sound, Frame, Counted, Ahead, Piece,
            Mode, Row, Visual, Follower, Issuing, Last
<1>4. u.phase \in Forward /\ u.pending \in Awaits(u.phase)
  BY <1>2 DEF Piece, Issuing, Forward, MoveKind, Awaits
<1>5. \A x \in Piece : u.pending = MoveKind[x] => u.moved[x] /\ (u.before[x] \/ x \in H)
  BY <1>1, <1>2 DEF Onward, Between, Sound, Counted, Piece, MoveKind
<1>6. ForwardInv(u, A, u.pending)
  BY <1>1, <1>2 DEF Onward, Between, ForwardInv, Frame, Counted, Ahead, Piece, Row, Visual, Follower,
     Issuing, Ways, MoveKind
<1> QED BY <1>2, <1>3, <1>4, <1>5, <1>6, GoneForward DEF u

LEMMA VerifyThere ==
  ASSUME NEW c, NEW H, NEW A, Onward(c, H, A), NEW p \in Piece, Ahead(c, p)
  PROVE  Gone(c, Verify(c, p, "there"), H, A)
<1> DEFINE u == Verify(c, p, "there")
<1>1. c \in Transition /\ c.pending = None /\ c.mode \in Mode
  BY DEF Onward, Between, Sound, Transition
<1>2. /\ u \in Transition /\ Frame(c, u) /\ Counts(c, u)
      /\ u.phase = Verifying["there"][p] /\ u.pending = ReadKind[p]
      /\ u.out = Awaiting(u)
  BY <1>1, VerifyFacts DEF Ways
<1> HIDE DEF u
<1>3. Sound(u, H)
  BY <1>1, <1>2 DEF Onward, Between, Sound, Frame, Counts, Piece,
            Row, Visual, Follower, Verifying, Last
<1>4. u.phase \in Forward /\ u.pending \in Awaits(u.phase)
  BY <1>2 DEF Piece, Verifying, Forward, ReadKind, Awaits
<1>5. \A x \in Piece : u.pending # MoveKind[x]
  BY <1>2 DEF Piece, MoveKind, ReadKind
<1>6. ForwardInv(u, A, u.pending)
  BY <1>1, <1>2 DEF Onward, Between, ForwardInv, Frame, Counts, Ahead, Piece, Row, Visual, Follower,
     Verifying, ReadKind
<1> QED BY <1>2, <1>3, <1>4, <1>5, <1>6, GoneForward DEF u

\* The second reading at the destination is of the popup.
LEMMA ReadPopupThere ==
  ASSUME NEW c, NEW H, NEW A, Onward(c, H, A), Ahead(c, "popup"),
         c.phase = "DestinationVerify", c.seen["current"] = c.dest
  PROVE  Gone(c, Emit(c, "ReadPopup"), H, A)
<1> DEFINE u == Emit(c, "ReadPopup")
<1>1. c \in Transition /\ c.pending = None /\ c.mode \in Mode /\ "ReadPopup" \in EffectKind
  BY DEF Onward, Between, Sound, Transition, EffectKind, Reads, ReadKind, Piece
<1>2. /\ u \in Transition /\ Frame(c, u) /\ Counts(c, u)
      /\ u.phase = "DestinationVerify" /\ u.pending = "ReadPopup"
      /\ u.out = Awaiting(u)
  BY <1>1, EmitFacts
<1> HIDE DEF u
<1>3. Sound(u, H)
  BY <1>1, <1>2 DEF Onward, Between, Sound, Frame, Counts, Piece,
            Row, Visual, Follower, Last
<1>4. u.phase \in Forward /\ u.pending \in Awaits(u.phase)
  BY <1>2 DEF Forward, Awaits
<1>5. \A x \in Piece : u.pending # MoveKind[x]
  BY <1>2 DEF Piece, MoveKind
<1>6. ForwardInv(u, A, u.pending)
  BY <1>1, <1>2 DEF Onward, Between, ForwardInv, Frame, Counts, Ahead, Piece, Row, Visual, Follower
<1> QED BY <1>2, <1>3, <1>4, <1>5, <1>6, GoneForward DEF u

LEMMA ValidateBeforePopup ==
  ASSUME NEW c, NEW H, NEW A, Onward(c, H, A), ~Row(c),
         Follower(c) => Ahead(c, "current"),
         Follower(c) /\ ~c.sticky => c.tries["there"]["popup"] < Attempts
  PROVE  Gone(c, Enter(c, "IdentityVerifyBeforePopup", "ValidateTarget"), H, A)
<1> DEFINE u == Enter(c, "IdentityVerifyBeforePopup", "ValidateTarget")
<1>1. /\ c \in Transition /\ c.pending = None /\ c.mode \in Mode
      /\ "IdentityVerifyBeforePopup" \in Phase \ {"Idle"} /\ "ValidateTarget" \in EffectKind
  BY DEF Onward, Between, Sound, Transition, EffectKind, Phase
<1>2. /\ u \in Transition /\ Frame(c, u) /\ Counts(c, u)
      /\ u.phase = "IdentityVerifyBeforePopup" /\ u.pending = "ValidateTarget"
      /\ u.out = Awaiting(u)
  BY <1>1, EnterFacts
<1> HIDE DEF u
<1>3. Sound(u, H)
  BY <1>1, <1>2 DEF Onward, Between, Sound, Frame, Counts, Piece,
            Row, Visual, Follower, Last
<1>4. u.phase \in Forward /\ u.pending \in Awaits(u.phase)
  BY <1>2 DEF Forward, Awaits
<1>5. \A x \in Piece : u.pending # MoveKind[x]
  BY <1>2 DEF Piece, MoveKind
<1>6. ForwardInv(u, A, u.pending)
  BY <1>1, <1>2 DEF Onward, Between, ForwardInv, Frame, Counts, Ahead, Piece, Row, Visual, Follower
<1> QED BY <1>2, <1>3, <1>4, <1>5, <1>6, GoneForward DEF u

LEMMA ValidateBeforeSwitch ==
  ASSUME NEW c, NEW H, NEW A, Onward(c, H, A), Ahead(c, "current")
  PROVE  Gone(c, Enter(c, "IdentityVerifyBeforeSwitch", "ValidateTarget"), H, A)
<1> DEFINE u == Enter(c, "IdentityVerifyBeforeSwitch", "ValidateTarget")
<1>1. /\ c \in Transition /\ c.pending = None /\ c.mode \in Mode
      /\ "IdentityVerifyBeforeSwitch" \in Phase \ {"Idle"} /\ "ValidateTarget" \in EffectKind
  BY DEF Onward, Between, Sound, Transition, EffectKind, Phase
<1>2. /\ u \in Transition /\ Frame(c, u) /\ Counts(c, u)
      /\ u.phase = "IdentityVerifyBeforeSwitch" /\ u.pending = "ValidateTarget"
      /\ u.out = Awaiting(u)
  BY <1>1, EnterFacts
<1> HIDE DEF u
<1>3. Sound(u, H)
  BY <1>1, <1>2 DEF Onward, Between, Sound, Frame, Counts, Piece,
            Row, Visual, Follower, Last
<1>4. u.phase \in Forward /\ u.pending \in Awaits(u.phase)
  BY <1>2 DEF Forward, Awaits
<1>5. \A x \in Piece : u.pending # MoveKind[x]
  BY <1>2 DEF Piece, MoveKind
<1>6. ForwardInv(u, A, u.pending)
  BY <1>1, <1>2 DEF Onward, Between, ForwardInv, Frame, Counts, Ahead, Piece, Row, Visual, Follower
<1> QED BY <1>2, <1>3, <1>4, <1>5, <1>6, GoneForward DEF u

\* The desktop and the popup were read at the destination.
Reached(c) ==
  Follower(c) => c.seen["current"] = c.dest /\ (c.sticky \/ c.seen["popup"] = c.dest)

LEMMA PublicationStarts ==
  ASSUME NEW c, NEW H, NEW A, Onward(c, H, A), Visual(c), Reached(c)
  PROVE  Gone(c, StartVisualPublication(c), H, A)
<1> DEFINE u == StartVisualPublication(c)
<1>1. /\ c \in Transition /\ c.pending = None /\ c.mode \in Mode
      /\ "PublishVisualAssignment" \in Phase \ {"Idle"}
      /\ "PublishVisualAssignment" \in EffectKind
  BY DEF Onward, Between, Sound, Transition, EffectKind, Phase
<1>2. /\ u \in Transition /\ Frame(c, u) /\ Counts(c, u)
      /\ u.phase = "PublishVisualAssignment" /\ u.pending = "PublishVisualAssignment"
      /\ u.out = Awaiting(u)
  BY <1>1, EnterFacts DEF StartVisualPublication
<1> HIDE DEF u
<1>3. Sound(u, H)
  BY <1>1, <1>2 DEF Onward, Between, Sound, Frame, Counts, Piece,
            Row, Visual, Follower, Last
<1>4. u.phase \in Forward /\ u.pending \in Awaits(u.phase)
  BY <1>2 DEF Forward, Awaits
<1>5. \A x \in Piece : u.pending # MoveKind[x]
  BY <1>2 DEF Piece, MoveKind
<1>6. ForwardInv(u, A, u.pending)
  BY <1>1, <1>2 DEF Onward, Between, ForwardInv, Frame, Counts, Reached, Piece, Row, Visual, Follower
<1> QED BY <1>2, <1>3, <1>4, <1>5, <1>6, GoneForward DEF u

LEMMA Seals ==
  ASSUME NEW c, NEW H, NEW A, Onward(c, H, A), ~Visual(c), Reached(c),
         c.seen["target"] = c.dest
  PROVE  Gone(c, Seal(c), H, A)
<1> DEFINE v == [c EXCEPT !.cutoff = TRUE]
           u == Seal(c)
<1>1. /\ c \in Transition /\ c.pending = None /\ c.mode \in Mode
      /\ "SaveExactTarget" \in Phase \ {"Idle"} /\ "SaveExactTarget" \in EffectKind
  BY DEF Onward, Between, Sound, Transition, EffectKind, Phase
<1>2. v \in Transition /\ Counts(c, v) /\ v.failed = c.failed /\ v.cutoff = TRUE
  BY <1>1 DEF Transition, Recounted, Counts
<1>3. v.pending = None /\ Kin(c, v) /\ v.seen = c.seen /\ v.hideDone = c.hideDone
        /\ v.focusLost = c.focusLost /\ v.focus = c.focus /\ v.lost = c.lost /\ v.ack = c.ack
  BY <1>1 DEF Transition, Kin
<1>4. u = Enter(v, "SaveExactTarget", "SaveExactTarget")
  BY DEF Seal
<1> HIDE DEF v
<1>5. /\ u \in Transition /\ Frame(v, u) /\ Counts(v, u)
      /\ u.phase = "SaveExactTarget" /\ u.pending = "SaveExactTarget"
      /\ u.out = Awaiting(u)
  BY <1>1, <1>2, <1>3, <1>4, EnterFacts
<1> HIDE DEF u
<1>6. Sound(u, H)
  BY <1>1, <1>2, <1>3, <1>5 DEF Onward, Between, Sound, Kin, Frame, Counts, Piece,
            Row, Visual, Follower, Last
<1>7. PendingInv(u)
  BY <1>3, <1>5 DEF Onward, Between, PendingInv, Frame, Awaits, Piece, MoveKind
<1>8. AllThere(u, A)
  BY <1>3, <1>5 DEF Onward, AllThere, Reached, Frame, Kin, Follower, Visual, Piece
<1>9. SaveInv(u, A)
  BY <1>2, <1>3, <1>5, <1>8 DEF SaveInv, Frame, Kin, Counts, Onward, Between, Visual
<1>10. PhaseInv(u, A, u.pending)
  BY <1>5, <1>9 DEF PhaseInv, Forward, Backward, TargetBack, PopupBack, SwitchBack, Last
<1>11. \A x \in Piece : u.pending # MoveKind[x]
  BY <1>5 DEF Piece, MoveKind
<1>12. Kin(c, u) /\ u.failed = c.failed /\ u.hideDone = c.hideDone /\ ~u.ack
  BY <1>2, <1>3, <1>5 DEF Onward, Between, Kin, Frame
<1> QED BY <1>5, <1>6, <1>7, <1>10, <1>11, <1>12 DEF Gone, Answer, TransitionInv, u

-----------------------------------------------------------------------------
(* What an observation leads to. *)

\* The observation o is of the effect that c, which no longer waits for it,
\* waited for.
Answered(c, o, H, A) ==
  /\ Between(c, H) /\ PhaseInv(c, A, o.kind)
  /\ o.kind \in Awaits(c.phase)
  /\ o.seen \in Places /\ o.match \in BOOLEAN /\ o.invoked \in BOOLEAN /\ o.ok \in BOOLEAN
  /\ \A p \in Piece :
       /\ o.kind = MoveKind[p] => c.moved[p] /\ (o.invoked \/ c.before[p] \/ p \in H)
       /\ o.kind = ReadKind[p] /\ o.seen = c.dest => p \in A
       /\ o.kind = ReadKind[p] /\ o.seen = c.origin[p] => p \in H
  /\ o.kind = "ReadPopup" /\ o.seen = c.origin["current"] => "popup" \in H
  /\ o.kind \in {"MoveTarget", "SwitchDesktop"} /\ o.invoked => o.match

SaveRefused(o) == o.kind = "SaveExactTarget" /\ ~RowMoveSaveCommits(o.save)

Step(c, o, u, H, A) ==
  /\ Answer(c, u, H, A)
  /\ c.failed => u.failed
  /\ c.failed /\ ~KeptBy(c) => ~KeptBy(u)
  /\ KeptBy(c) => KeptBy(u) \/ (u.failed /\ SaveRefused(o))
  /\ c.cutoff => u.cutoff \/ SaveRefused(o)
  /\ u.pending = "SaveExactTarget" => ~c.cutoff
  /\ u.hideDone => c.hideDone \/ o.kind = "Hide"
  /\ u.ack /\ ~u.failed /\ Follower(u) => o.kind = "ShowAndFocus" /\ o.ok
  /\ Visual(u) /\ ~u.failed /\ (u.phase = "FocusRestore" \/ u.ack)
       => (o.kind = "PublishVisualAssignment" /\ o.ok) \/ c.phase = "FocusRestore"

Proceeds(c, u, H, A) ==
  \/ Undone(c, u, H, A)
  \/ Gone(c, u, H, A) /\ (u.phase = "SaveExactTarget" => ~c.failed)

LEMMA ProceedsStep ==
  ASSUME NEW c, NEW o, NEW u, NEW H, NEW A, Proceeds(c, u, H, A), ~KeptBy(c)
  PROVE  Step(c, o, u, H, A)
<1>1. CASE Undone(c, u, H, A)
  <2>1. u.pending # "SaveExactTarget"
    BY <1>1 DEF Undone, Answer, TransitionInv, PendingInv, PhaseInv, SaveInv, Awaits, None
  <2> QED BY <1>1, <2>1 DEF Undone, Step, KeptBy
<1>2. CASE Gone(c, u, H, A) /\ (u.phase = "SaveExactTarget" => ~c.failed)
  <2>1. u.phase \in Forward => ForwardInv(u, A, u.pending)
    BY <1>2 DEF Gone, Answer, TransitionInv, PhaseInv
  <2>2. c.failed => ~KeptBy(u)
    BY <1>2, <2>1 DEF Gone, KeptBy, ForwardInv, Forward
  <2> QED BY <1>2, <2>1, <2>2 DEF Gone, Step, KeptBy, Forward
<1> QED BY <1>1, <1>2 DEF Proceeds

\* What a handler notes before it goes on.
Touched(c, u) ==
  /\ u.phase = c.phase /\ u.mode = c.mode /\ u.sticky = c.sticky /\ u.dest = c.dest
  /\ u.origin = c.origin /\ u.tries = c.tries /\ u.before = c.before
  /\ u.cancelled = c.cancelled /\ u.dismissed = c.dismissed /\ u.failed = c.failed
  /\ u.pending = c.pending /\ u.hideDone = c.hideDone /\ u.focusLost = c.focusLost
  /\ u.cutoff = c.cutoff /\ u.ack = c.ack /\ u.resume = c.resume
  /\ u.focus = c.focus /\ u.refresh = c.refresh /\ u.out = c.out

Movable(c, p) ==
  /\ p = "target" => ~Visual(c)
  /\ p # "target" => Follower(c)
  /\ p = "popup" => ~c.sticky

Noted(c, u, H) ==
  /\ u \in Transition /\ Touched(c, u)
  /\ \A p \in Piece : u.moved[p] => c.moved[p] \/ Movable(c, p)
  /\ \A p \in Piece : u.moved[p] \/ p \in H

LEMMA NotedBetween ==
  ASSUME NEW c, NEW u, NEW H, Between(c, H), Noted(c, u, H)
  PROVE  Between(u, H)
<1>1. Sound(u, H)
  BY DEF Between, Noted, Touched, Movable, Sound, Piece, Visual, Follower
<1> QED BY <1>1 DEF Between, Noted, Touched

\* A transition that goes forward can go on, and can be undone.
LEMMA ForwardAgain ==
  ASSUME NEW c, NEW u, NEW H, NEW A, NEW kind, Between(c, H), c.phase \in Forward,
         ForwardInv(c, A, kind), Noted(c, u, H),
         \A p \in Piece : u.seen[p] = u.dest => p \in A
  PROVE  /\ Undone(c, BeginRollback(u), H, A) /\ Undoable(u, H, A) /\ ~KeptBy(c)
         /\ kind # "Hide" /\ kind # "PublishVisualAssignment" => Onward(u, H, A)
         /\ \A x : Undone(u, x, H, A) => Undone(c, x, H, A)
         /\ \A x : Gone(u, x, H, A) => Gone(c, x, H, A)
<1>1. Between(u, H)
  BY NotedBetween
<1>2. /\ \A p \in Piece : u.tries["back"][p] = 0
      /\ ~u.cutoff /\ ~u.focusLost /\ u.phase = c.phase /\ u.mode = c.mode
      /\ u.dismissed = c.dismissed /\ u.failed = c.failed /\ u.cancelled = c.cancelled
      /\ Kin(c, u) /\ u.hideDone = c.hideDone
  BY DEF Noted, Touched, ForwardInv, Kin
<1>3. Undoable(u, H, A)
  BY <1>1, <1>2 DEF Undoable, ForwardInv, Forward, Piece
<1>4. Undone(u, BeginRollback(u), H, A)
  BY <1>3, BeginRollbackFacts
<1>5. \A x : Undone(u, x, H, A) => Undone(c, x, H, A)
  BY <1>2 DEF Undone, Answer, Kin
<1>6. \A x : Gone(u, x, H, A) => Gone(c, x, H, A)
  BY <1>2 DEF Gone, Answer, Kin
<1>7. ~KeptBy(c)
  BY DEF ForwardInv, KeptBy, Forward, Between
<1>8. ASSUME kind # "Hide", kind # "PublishVisualAssignment"
      PROVE  Onward(u, H, A)
  BY <1>1, <1>2, <1>8 DEF Onward, ForwardInv, Forward, Last, Between
<1> QED BY <1>3, <1>4, <1>5, <1>6, <1>7, <1>8

LEMMA ForwardUnusable ==
  ASSUME NEW c, NEW u, NEW H, NEW A, NEW kind, Between(c, H), c.phase \in Forward,
         ForwardInv(c, A, kind), Noted(c, u, H), u.seen = c.seen
  PROVE  Undone(c, BeginRollback(Unusable(u)), H, A)
<1> DEFINE w == Unusable(u)
<1>1. u \in Transition /\ NoDesktop \in Places /\ c.dest # NoDesktop
  BY PickerAssumption DEF Noted, Places, Between, Sound, Transition
<1>2. w \in Transition /\ Touched(u, w) /\ w.moved = u.moved
        /\ w.seen = [u.seen EXCEPT !["target"] = NoDesktop]
  BY <1>1 DEF Unusable, Transition, Touched
<1> HIDE DEF w
<1>3. Noted(c, w, H)
  BY <1>2 DEF Noted, Touched
<1>4. u.seen \in [Piece -> Places]
  BY <1>1 DEF Transition
<1>5. \A p \in Piece : w.seen[p] = w.dest => p \in A
  BY <1>1, <1>2, <1>4 DEF ForwardInv, Noted, Touched
<1> QED BY <1>3, <1>5, ForwardAgain DEF w

LEMMA TargetIssuedStep ==
  ASSUME NEW c, NEW o, NEW H, NEW A, Answered(c, o, H, A), c.phase = "TargetIssue"
  PROVE  Step(c, o, TargetIssued(c, o), H, A)
<1> DEFINE m == IF o.invoked THEN c.moved["target"] ELSE c.before["target"]
           u == [c EXCEPT !.verify = @ \/ o.invoked, !.moved["target"] = m]
<1>1. /\ Between(c, H) /\ c \in Transition /\ c.phase \in Forward
      /\ ForwardInv(c, A, "MoveTarget") /\ o.kind = "MoveTarget"
  BY DEF Answered, Between, Sound, PhaseInv, Forward, Awaits, ForwardInv
<1>2. /\ c.moved["target"] /\ (o.invoked \/ c.before["target"] \/ "target" \in H)
      /\ c.before["target"] \in BOOLEAN /\ c.moved["target"] \in BOOLEAN
      /\ (c.verify \/ o.invoked) \in BOOLEAN
  BY <1>1 DEF Answered, Piece, MoveKind, Transition
<1>3. m \in BOOLEAN /\ (m \/ "target" \in H)
  BY <1>2
<1>4. [c.moved EXCEPT !["target"] = m] \in [Piece -> BOOLEAN]
  BY <1>1, <1>3 DEF Transition
<1>5. u \in Transition /\ Touched(c, u) /\ u.seen = c.seen
        /\ u.moved = [c.moved EXCEPT !["target"] = m]
  BY <1>1, <1>2, <1>4 DEF Transition, Touched
<1>6. TargetIssued(c, o) =
        CASE ~o.match -> BeginRollback(Unusable(u))
          [] o.match /\ (~o.invoked \/ (Row(c) /\ c.cancelled)) -> BeginRollback(u)
          [] OTHER -> Verify(u, "target", "there")
  BY DEF TargetIssued
<1> HIDE DEF u, m
<1>7. Noted(c, u, H)
  BY <1>1, <1>2, <1>3, <1>5 DEF Noted, Between, Sound, Transition
<1>8. \A p \in Piece : u.seen[p] = u.dest => p \in A
  BY <1>1, <1>5 DEF ForwardInv, Touched
<1>9. /\ Undone(c, BeginRollback(u), H, A) /\ ~KeptBy(c) /\ Onward(u, H, A)
      /\ \A x : Gone(u, x, H, A) => Gone(c, x, H, A)
  BY <1>1, <1>7, <1>8, ForwardAgain
<1>10. CASE ~o.match
  <2>1. Undone(c, BeginRollback(Unusable(u)), H, A)
    BY <1>1, <1>5, <1>7, ForwardUnusable
  <2> QED BY <1>6, <1>9, <1>10, <2>1, ProceedsStep DEF Proceeds
<1>11. CASE o.match /\ (~o.invoked \/ (Row(c) /\ c.cancelled))
  BY <1>6, <1>9, <1>11, ProceedsStep DEF Proceeds
<1>12. CASE o.match /\ ~(~o.invoked \/ (Row(c) /\ c.cancelled))
  <2>1. TargetIssued(c, o) = Verify(u, "target", "there")
    BY <1>6, <1>12
  <2>2. "target" \in Piece /\ Ahead(u, "target")
    BY <1>1, <1>5 DEF Piece, Ahead, ForwardInv, Touched, Visual
  <2>3. Gone(u, Verify(u, "target", "there"), H, A)
    BY <1>9, <2>2, VerifyThere
  <2>4. Verify(u, "target", "there").phase # "SaveExactTarget"
    BY <1>5, <1>9, VerifyFacts DEF Ways, Piece, Onward, Between, Verifying
  <2> QED BY <1>9, <2>1, <2>3, <2>4, ProceedsStep DEF Proceeds
<1> QED BY <1>10, <1>11, <1>12

\* A piece was read, and is, or is not, thought to be away from its place.
Saw(c, p, s, m) == [c EXCEPT !.seen[p] = s, !.moved[p] = m]

\* What is thought of a piece stays when only its reading is written.
LEMMA SawPlain ==
  ASSUME NEW c \in Transition, NEW p \in Piece, NEW s
  PROVE  [c EXCEPT !.seen[p] = s] = Saw(c, p, s, c.moved[p])
<1> DEFINE d == [c EXCEPT !.seen = [c.seen EXCEPT ![p] = s]]
           m == [c.moved EXCEPT ![p] = c.moved[p]]
<1>1. c = [x \in DOMAIN c |-> c[x]] /\ {"seen", "moved"} \subseteq DOMAIN c
  BY Zenon DEF Transition
<1>2. m = c.moved
  <2>1. c.moved \in [Piece -> BOOLEAN]
    BY DEF Transition
  <2> QED BY <2>1
<1>3. d = [x \in DOMAIN c |-> d[x]] /\ d.moved = c.moved
  BY <1>1
<1>4. [d EXCEPT !.moved = c.moved] = d
  <2> HIDE DEF d
  <2> QED BY <1>1, <1>3
<1>5. Saw(c, p, s, c.moved[p]) = [d EXCEPT !.moved = m]
  BY <1>1 DEF Saw
<1> QED BY <1>2, <1>4, <1>5

\* Writing the reading and then the thought is writing both.
Thought(c, p, m) == [c EXCEPT !.moved[p] = m]

LEMMA SawThen ==
  ASSUME NEW c \in Transition, NEW p, NEW s, NEW m,
         NEW d, d = [c EXCEPT !.seen[p] = s]
  PROVE  Thought(d, p, m) = Saw(c, p, s, m)
  BY DEF Saw, Thought, Transition

LEMMA SawForward ==
  ASSUME NEW c, NEW H, NEW A, NEW kind, Between(c, H), c.phase \in Forward,
         ForwardInv(c, A, kind), kind # "Hide", kind # "PublishVisualAssignment",
         NEW p \in Piece, NEW s \in Places, NEW m \in BOOLEAN, Movable(c, p),
         m \/ p \in H, s = c.dest => p \in A
  PROVE  LET u == Saw(c, p, s, m)
         IN /\ Noted(c, u, H) /\ Touched(c, u) /\ Onward(u, H, A)
            /\ u.seen[p] = s /\ u.moved[p] = m
            /\ \A x \in Piece \ {p} : u.moved[x] = c.moved[x] /\ u.seen[x] = c.seen[x]
            /\ Undone(c, BeginRollback(u), H, A)
            /\ \A x : Undone(u, x, H, A) => Undone(c, x, H, A)
            /\ \A x : Gone(u, x, H, A) => Gone(c, x, H, A)
<1> DEFINE u == Saw(c, p, s, m)
<1>1. c \in Transition
  BY DEF Between, Sound
<1>2. /\ [c.moved EXCEPT ![p] = m] \in [Piece -> BOOLEAN]
      /\ [c.seen EXCEPT ![p] = s] \in [Piece -> Places]
      /\ c.moved \in [Piece -> BOOLEAN] /\ c.seen \in [Piece -> Places]
  BY <1>1 DEF Transition
<1>3. u \in Transition /\ Touched(c, u)
        /\ u.seen = [c.seen EXCEPT ![p] = s] /\ u.moved = [c.moved EXCEPT ![p] = m]
  BY <1>1, <1>2 DEF Transition, Touched, Saw
<1> HIDE DEF u
<1>4. /\ u.seen[p] = s /\ u.moved[p] = m
      /\ \A x \in Piece \ {p} : u.moved[x] = c.moved[x] /\ u.seen[x] = c.seen[x]
  BY <1>2, <1>3
<1>5. \A x \in Piece : u.seen[x] = u.dest => x \in A
  BY <1>3, <1>4 DEF ForwardInv, Touched
<1>6. Noted(c, u, H)
  BY <1>3, <1>4 DEF Noted, Between, Sound
<1> QED BY <1>3, <1>4, <1>5, <1>6, ForwardAgain DEF u

LEMMA TargetReadStep ==
  ASSUME NEW c, NEW o, NEW H, NEW A, Answered(c, o, H, A), c.phase = "TargetVerify"
  PROVE  Step(c, o, TargetRead(c, o), H, A)
<1> DEFINE b == o.seen # c.origin["target"]
           u == [c EXCEPT !.seen["target"] = o.seen]
<1>1. /\ Between(c, H) /\ c \in Transition /\ c.phase \in Forward /\ c.mode \in Mode
      /\ ForwardInv(c, A, "ReadTarget") /\ o.kind = "ReadTarget" /\ o.seen \in Places
      /\ c.moved["target"] \in BOOLEAN /\ "target" \in Piece
  BY DEF Answered, Between, Sound, Transition, PhaseInv, Forward, Awaits, ForwardInv, Piece
<1>2. ASSUME NEW m \in BOOLEAN, ~m => o.seen = c.origin["target"] \/ ~c.moved["target"]
      PROVE  LET w == Saw(c, "target", o.seen, m)
             IN /\ Touched(c, w) /\ Onward(w, H, A) /\ Ahead(w, "target")
                /\ w.seen["target"] = o.seen /\ w.moved["target"] = m
                /\ Undone(c, BeginRollback(w), H, A)
                /\ \A x : Undone(w, x, H, A) => Undone(c, x, H, A)
                /\ \A x : Gone(w, x, H, A) => Gone(c, x, H, A)
  <2>1. Movable(c, "target") /\ (m \/ "target" \in H) /\ (o.seen = c.dest => "target" \in A)
    BY <1>1, <1>2 DEF Movable, ForwardInv, Answered, Between, Sound, Piece, ReadKind
  <2> DEFINE w == Saw(c, "target", o.seen, m)
  <2>2. /\ Touched(c, w) /\ Onward(w, H, A)
        /\ w.seen["target"] = o.seen /\ w.moved["target"] = m
        /\ Undone(c, BeginRollback(w), H, A)
        /\ \A x : Undone(w, x, H, A) => Undone(c, x, H, A)
        /\ \A x : Gone(w, x, H, A) => Gone(c, x, H, A)
    BY <1>1, <2>1, SawForward
  <2> HIDE DEF w
  <2>3. Ahead(w, "target")
    BY <1>1, <2>2 DEF Touched, Ahead, ForwardInv, Visual
  <2> QED BY <2>2, <2>3 DEF w
<1>3. u = Saw(c, "target", o.seen, c.moved["target"]) /\ [u EXCEPT !.moved["target"] = b] = Saw(c, "target", o.seen, b)
        /\ [u EXCEPT !.moved["target"] = TRUE] = Saw(c, "target", o.seen, TRUE)
        /\ [u EXCEPT !.moved["target"] = FALSE] = Saw(c, "target", o.seen, FALSE)
        /\ [u EXCEPT !.moved["target"] = FALSE, !.verify = FALSE]
             = [Saw(c, "target", o.seen, FALSE) EXCEPT !.verify = FALSE]
        /\ u.seen["target"] = o.seen /\ u.origin = c.origin
  <2>1. /\ u = Saw(c, "target", o.seen, c.moved["target"])
        /\ \A m : [u EXCEPT !.moved["target"] = m] = Saw(c, "target", o.seen, m)
    <3>1. u = Saw(c, "target", o.seen, c.moved["target"])
      BY <1>1, SawPlain
    <3>2. \A m : [u EXCEPT !.moved["target"] = m] = Saw(c, "target", o.seen, m)
      <4> TAKE m
      <4>1. Thought(u, "target", m) = Saw(c, "target", o.seen, m)
        BY <1>1, SawThen
      <4> QED BY <4>1 DEF Thought
    <3> QED BY <3>1, <3>2
  <2>2. /\ [u EXCEPT !.moved["target"] = FALSE, !.verify = FALSE]
             = [[u EXCEPT !.moved["target"] = FALSE] EXCEPT !.verify = FALSE]
        /\ u.seen["target"] = o.seen /\ u.origin = c.origin
    BY <1>1 DEF Transition
  <2> HIDE DEF u
  <2> QED BY <2>1, <2>2
<1>4. TargetRead(c, o) =
        CASE ~o.match -> BeginRollback(Unusable(c))
          [] o.match /\ Row(c) /\ c.cancelled
               -> IF ~b THEN StartRefresh([Saw(c, "target", o.seen, FALSE) EXCEPT !.verify = FALSE])
                  ELSE BeginRollback(Saw(c, "target", o.seen, TRUE))
          [] o.match /\ ~(Row(c) /\ c.cancelled) /\ o.seen = c.dest
               -> IF Row(c) THEN Seal(Saw(c, "target", o.seen, c.moved["target"]))
                  ELSE Enter(Saw(c, "target", o.seen, c.moved["target"]), "IdentityVerifyBeforePopup", "ValidateTarget")
          [] OTHER -> IF c.tries["there"]["target"] < Attempts
                      THEN Issue(Saw(c, "target", o.seen, b), "target", "there") ELSE BeginRollback(Saw(c, "target", o.seen, b))
  <2>1. TargetRead(c, o) =
          CASE ~o.match -> BeginRollback(Unusable(c))
            [] o.match /\ Row(c) /\ c.cancelled -> TargetReadWhenCancelled(u)
            [] o.match /\ ~(Row(c) /\ c.cancelled) /\ o.seen = c.dest
                 -> IF Row(c) THEN Seal(u)
                    ELSE Enter(u, "IdentityVerifyBeforePopup", "ValidateTarget")
            [] OTHER -> IF c.tries["there"]["target"] < Attempts
                        THEN Issue([u EXCEPT !.moved["target"] = b], "target", "there")
                        ELSE BeginRollback([u EXCEPT !.moved["target"] = b])
    BY DEF TargetRead
  <2> HIDE DEF u
  <2>2. TargetReadWhenCancelled(u) =
          IF ~b THEN StartRefresh([Saw(c, "target", o.seen, FALSE) EXCEPT !.verify = FALSE])
          ELSE BeginRollback(Saw(c, "target", o.seen, TRUE))
    BY <1>3 DEF TargetReadWhenCancelled
  <2> HIDE DEF b
  <2> QED BY <1>3, <2>1, <2>2
<1> HIDE DEF u
<1>5. ~KeptBy(c)
  BY <1>1 DEF KeptBy, ForwardInv, Between, Forward
<1>6. CASE ~o.match
  <2>1. Noted(c, c, H)
    BY <1>1 DEF Noted, Touched, Between, Sound
  <2>2. Undone(c, BeginRollback(Unusable(c)), H, A)
    BY <1>1, <2>1, ForwardUnusable
  <2> QED BY <1>4, <1>5, <1>6, <2>2, ProceedsStep DEF Proceeds
<1>7. CASE o.match /\ Row(c) /\ c.cancelled
  <2>1. CASE b
    <3>1. TargetRead(c, o) = BeginRollback(Saw(c, "target", o.seen, TRUE))
      BY <1>4, <1>7, <2>1
    <3> QED BY <1>2, <1>5, <3>1, ProceedsStep DEF Proceeds
  <2>2. CASE ~b
    <3> DEFINE w == Saw(c, "target", o.seen, FALSE)
               r == [w EXCEPT !.verify = FALSE]
    <3>1. TargetRead(c, o) = StartRefresh(r)
      BY <1>4, <1>7, <2>2
    <3>2. Onward(w, H, A) /\ Touched(c, w) /\ ~w.moved["target"]
            /\ \A x : Undone(w, x, H, A) => Undone(c, x, H, A)
      BY <1>2, <2>2
    <3> HIDE DEF w
    <3>3. Undoing(w, H)
      BY <1>1, <1>7, <3>2 DEF Undoing, Onward, Touched, Between, Sound
    <3>4. /\ Undoing(r, H) /\ Recounted(w, r) /\ Counts(w, r) /\ r.failed = w.failed
      BY <3>3, VerifySet
    <3> HIDE DEF r
    <3>5. Row(r)
      BY <1>7, <3>2, <3>4 DEF Row, Touched, Recounted
    <3>6. AllSettled(r)
      BY <3>2, <3>4, <3>5 DEF AllSettled, Settled, Counts, Piece, Undoing, Between, Sound, Row, Follower
    <3>7. Undone(r, StartRefresh(r), H, A)
      BY <3>4, <3>5, <3>6, RefreshBack DEF Row
    <3>8. Undone(w, StartRefresh(r), H, A)
      BY <3>4, <3>7 DEF Undone, Answer, Kin, Recounted
    <3> QED BY <1>5, <3>1, <3>2, <3>8, ProceedsStep DEF Proceeds
  <2> QED BY <2>1, <2>2
<1>8. CASE o.match /\ ~(Row(c) /\ c.cancelled) /\ o.seen = c.dest
  <2> DEFINE w == Saw(c, "target", o.seen, c.moved["target"])
  <2>1. Onward(w, H, A) /\ Touched(c, w) /\ w.seen["target"] = o.seen
          /\ (\A x : Gone(w, x, H, A) => Gone(c, x, H, A)) /\ Ahead(w, "target")
    BY <1>1, <1>2
  <2>2. TargetRead(c, o) = IF Row(c) THEN Seal(w)
                  ELSE Enter(w, "IdentityVerifyBeforePopup", "ValidateTarget")
    BY <1>4, <1>8
  <2> HIDE DEF w
  <2>3. w.seen["target"] = w.dest /\ w.mode \in Mode /\ ~Visual(w)
    BY <1>1, <1>8, <2>1 DEF Touched, Ahead, Visual
  <2>4. CASE Row(c)
    <3>1. Row(w) /\ Reached(w) /\ ~c.failed
      BY <1>1, <1>8, <2>1, <2>4 DEF Row, Touched, Reached, Follower, ForwardInv, Between
    <3>2. Gone(w, Seal(w), H, A)
      BY <2>1, <2>3, <3>1, Seals
    <3> QED BY <1>5, <2>1, <2>2, <2>4, <3>1, <3>2, ProceedsStep DEF Proceeds
  <2>5. CASE ~Row(c)
    <3> DEFINE x == Enter(w, "IdentityVerifyBeforePopup", "ValidateTarget")
    <3>1. ~Row(w) /\ Follower(w)
      BY <2>1, <2>3, <2>5 DEF Row, Touched, Visual, Mode, Follower
    <3>2. Ahead(w, "current") /\ w.tries["there"]["popup"] < Attempts
      BY <2>1, <2>3, <3>1, PickerAssumption DEF Ahead
    <3>3. Gone(w, x, H, A)
      BY <2>1, <3>1, <3>2, ValidateBeforePopup
    <3>4. x.phase = "IdentityVerifyBeforePopup"
      BY <2>1, EnterFacts DEF Onward, Between, Sound, Phase, EffectKind
    <3> QED BY <1>5, <2>1, <2>2, <2>5, <3>3, <3>4, ProceedsStep DEF Proceeds
  <2> QED BY <2>4, <2>5
<1>9. CASE o.match /\ ~(Row(c) /\ c.cancelled) /\ o.seen # c.dest
  <2> DEFINE w == Saw(c, "target", o.seen, b)
  <2>1. Onward(w, H, A) /\ Touched(c, w) /\ Undone(c, BeginRollback(w), H, A)
          /\ (\A x : Gone(w, x, H, A) => Gone(c, x, H, A)) /\ Ahead(w, "target")
    BY <1>1, <1>2
  <2>2. TargetRead(c, o) = IF c.tries["there"]["target"] < Attempts
                           THEN Issue(w, "target", "there") ELSE BeginRollback(w)
    BY <1>4, <1>9
  <2> HIDE DEF w
  <2>3. CASE c.tries["there"]["target"] < Attempts
    <3>1. w.tries["there"]["target"] < Attempts /\ w.pending = None /\ w \in Transition
      BY <2>1, <2>3 DEF Touched, Onward, Between, Sound
    <3>2. Gone(w, Issue(w, "target", "there"), H, A)
      BY <1>1, <2>1, <3>1, IssueThere
    <3>3. Issue(w, "target", "there").phase = "TargetIssue"
      BY <1>1, <3>1, IssueFacts DEF Ways, Issuing
    <3> QED BY <1>5, <2>1, <2>2, <2>3, <3>2, <3>3, ProceedsStep DEF Proceeds
  <2>4. CASE ~(c.tries["there"]["target"] < Attempts)
    BY <1>5, <2>1, <2>2, <2>4, ProceedsStep DEF Proceeds
  <2> QED BY <2>3, <2>4
<1> QED BY <1>6, <1>7, <1>8, <1>9

\* Going on to the destination after the popup, or without it.
LEMMA ArrivedProceeds ==
  ASSUME NEW c, NEW H, NEW A, Onward(c, H, A), Ahead(c, "current"), Reached(c)
  PROVE  Proceeds(c, Arrived(c), H, A)
<1>1. c.mode \in {"MoveAndFollow", "VisualAndFollow"}
  BY DEF Ahead, Follower
<1>2. CASE c.mode = "VisualAndFollow"
  <2>1. Gone(c, StartVisualPublication(c), H, A)
    BY <1>2, PublicationStarts DEF Visual
  <2>2. StartVisualPublication(c).phase = "PublishVisualAssignment"
    BY EnterFacts DEF Onward, Between, Sound, StartVisualPublication, Phase, EffectKind
  <2> QED BY <1>2, <2>1, <2>2 DEF Arrived, Proceeds
<1>3. CASE c.mode = "MoveAndFollow"
  <2>1. ~c.failed
    BY <1>3 DEF Onward, Between, Sound, Follower
  <2>2. Gone(c, Seal(c), H, A)
    BY <1>3, Seals DEF Visual, Ahead
  <2> QED BY <1>3, <2>1, <2>2 DEF Arrived, Proceeds
<1> QED BY <1>1, <1>2, <1>3

LEMMA OnwardUndoable ==
  ASSUME NEW c, NEW H, NEW A, Onward(c, H, A), Follower(c)
  PROVE  Undone(c, BeginRollback(c), H, A)
<1>1. Undoable(c, H, A)
  BY DEF Onward, Undoable, Follower, Piece, Last
<1> QED BY <1>1, BeginRollbackFacts

LEMMA ForwardToDestination ==
  ASSUME NEW c, NEW H, NEW A, Onward(c, H, A), Ahead(c, "current")
  PROVE  Proceeds(c, ContinueForwardToDestination(c), H, A)
<1> DEFINE there == c.seen["current"] = c.dest /\ (c.sticky \/ c.seen["popup"] = c.dest)
<1>1. CASE there
  <2>1. Reached(c)
    BY <1>1 DEF Reached
  <2>2. ContinueForwardToDestination(c) = Arrived(c)
    BY <1>1 DEF ContinueForwardToDestination
  <2> QED BY <2>1, <2>2, ArrivedProceeds
<1>2. CASE ~there /\ c.tries["there"]["current"] >= Attempts
  <2>1. ContinueForwardToDestination(c) = BeginRollback(c)
    BY <1>2 DEF ContinueForwardToDestination
  <2>2. Follower(c)
    BY DEF Ahead
  <2> QED BY <2>1, <2>2, OnwardUndoable DEF Proceeds
<1>3. CASE ~there /\ ~(c.tries["there"]["current"] >= Attempts)
  <2>1. ContinueForwardToDestination(c) = Issue(c, "current", "there")
    BY <1>3 DEF ContinueForwardToDestination
  <2>2. c.tries["there"]["current"] < Attempts /\ "current" \in Piece /\ c.pending = None
          /\ c \in Transition
    BY <1>3, PickerAssumption DEF Onward, Between, Sound, Transition, Ways, Piece
  <2>3. Gone(c, Issue(c, "current", "there"), H, A)
    BY <2>2, IssueThere
  <2>4. Issue(c, "current", "there").phase = "SwitchIssue"
    BY <2>2, IssueFacts DEF Ways, Issuing
  <2> QED BY <2>1, <2>3, <2>4 DEF Proceeds
<1> QED BY <1>1, <1>2, <1>3

\* What the popup's and the desktop's handlers may take for granted.
LEMMA FollowerPhases ==
  ASSUME NEW c, NEW o, NEW H, NEW A, Answered(c, o, H, A),
         c.phase \in {"PopupIssue", "PopupVerify", "IdentityVerifyBeforeSwitch",
                      "SwitchIssue", "DestinationVerify"}
  PROVE  /\ Between(c, H) /\ c \in Transition /\ c.phase \in Forward /\ c.mode \in Mode
         /\ ForwardInv(c, A, o.kind) /\ Follower(c) /\ Ahead(c, "current")
         /\ o.kind # "Hide" /\ o.kind # "PublishVisualAssignment" /\ ~KeptBy(c)
         /\ o.seen \in Places /\ Noted(c, c, H) /\ Onward(c, H, A)
<1>1. /\ Between(c, H) /\ c \in Transition /\ c.phase \in Forward /\ c.mode \in Mode
      /\ ForwardInv(c, A, o.kind) /\ o.kind # "Hide" /\ o.kind # "PublishVisualAssignment"
      /\ o.seen \in Places
  BY DEF Answered, Between, Sound, Transition, PhaseInv, Forward, Awaits
<1>2. Follower(c) /\ Ahead(c, "current")
  BY <1>1 DEF ForwardInv, Follower, Row, Visual, Mode, Ahead
<1>3. Noted(c, c, H)
  BY <1>1 DEF Noted, Touched, Between, Sound
<1>4. \A p \in Piece : c.seen[p] = c.dest => p \in A
  BY <1>1 DEF ForwardInv
<1>5. Onward(c, H, A) /\ ~KeptBy(c)
  BY <1>1, <1>3, <1>4, ForwardAgain
<1> QED BY <1>1, <1>2, <1>3, <1>5

LEMMA ValidatedBeforeSwitchStep ==
  ASSUME NEW c, NEW o, NEW H, NEW A, Answered(c, o, H, A),
         c.phase = "IdentityVerifyBeforeSwitch"
  PROVE  Step(c, o, ValidatedBeforeSwitch(c, o), H, A)
<1>1. /\ Between(c, H) /\ c.phase \in Forward /\ ForwardInv(c, A, o.kind) /\ ~KeptBy(c)
      /\ Noted(c, c, H) /\ Onward(c, H, A) /\ Ahead(c, "current")
  BY FollowerPhases
<1>2. Proceeds(c, ContinueForwardToDestination(c), H, A)
  BY <1>1, ForwardToDestination
<1>3. Undone(c, BeginRollback(Unusable(c)), H, A)
  BY <1>1, ForwardUnusable
<1> QED BY <1>1, <1>2, <1>3, ProceedsStep DEF Proceeds, ValidatedBeforeSwitch

LEMMA PopupIssuedStep ==
  ASSUME NEW c, NEW o, NEW H, NEW A, Answered(c, o, H, A), c.phase = "PopupIssue"
  PROVE  Step(c, o, PopupIssued(c, o), H, A)
<1>1. /\ Between(c, H) /\ c \in Transition /\ c.phase \in Forward
      /\ ForwardInv(c, A, o.kind) /\ Follower(c) /\ Ahead(c, "current")
      /\ o.kind # "Hide" /\ o.kind # "PublishVisualAssignment" /\ ~KeptBy(c)
      /\ Onward(c, H, A)
  BY FollowerPhases
<1>2. o.kind = "MovePopup" /\ "popup" \in Piece /\ ~c.sticky
  BY <1>1 DEF Answered, Awaits, Piece, ForwardInv
<1>3. CASE o.invoked
  <2> DEFINE u == [c EXCEPT !.verify = TRUE]
  <2>1. u \in Transition /\ Touched(c, u) /\ u.moved = c.moved /\ u.seen = c.seen
    BY <1>1 DEF Transition, Touched
  <2>2. PopupIssued(c, o) = Verify(u, "popup", "there")
    BY <1>3 DEF PopupIssued
  <2> HIDE DEF u
  <2>3. Noted(c, u, H) /\ \A p \in Piece : u.seen[p] = u.dest => p \in A
    BY <1>1, <2>1 DEF Noted, Between, Sound, ForwardInv, Touched
  <2>4. Onward(u, H, A) /\ \A x : Gone(u, x, H, A) => Gone(c, x, H, A)
    BY <1>1, <2>3, ForwardAgain
  <2>5. Ahead(u, "popup")
    BY <1>1, <1>2, <2>1 DEF Ahead, Touched, Follower
  <2>6. Gone(u, Verify(u, "popup", "there"), H, A)
    BY <1>2, <2>4, <2>5, VerifyThere
  <2>7. Verify(u, "popup", "there").phase = "PopupVerify"
    BY <1>2, <2>1, <2>4, VerifyFacts DEF Onward, Between, Ways, Verifying
  <2> QED BY <1>1, <2>2, <2>4, <2>6, <2>7, ProceedsStep DEF Proceeds
<1>4. CASE ~o.invoked
  <2> DEFINE u == [c EXCEPT !.moved["popup"] = c.before["popup"]]
  <2>1. c.moved["popup"] /\ (c.before["popup"] \/ "popup" \in H)
          /\ c.before["popup"] \in BOOLEAN /\ c.moved \in [Piece -> BOOLEAN]
    BY <1>1, <1>2, <1>4 DEF Answered, MoveKind, Piece, Transition
  <2>2. u \in Transition /\ Touched(c, u) /\ u.seen = c.seen
          /\ u.moved = [c.moved EXCEPT !["popup"] = c.before["popup"]]
    BY <1>1, <2>1 DEF Transition, Touched
  <2>3. PopupIssued(c, o) = BeginRollback(u)
    BY <1>4 DEF PopupIssued
  <2> HIDE DEF u
  <2>4. Noted(c, u, H) /\ \A p \in Piece : u.seen[p] = u.dest => p \in A
    BY <1>1, <2>1, <2>2 DEF Noted, Between, Sound, ForwardInv, Touched
  <2>5. Undone(c, BeginRollback(u), H, A)
    BY <1>1, <2>4, ForwardAgain
  <2> QED BY <1>1, <2>3, <2>5, ProceedsStep DEF Proceeds
<1> QED BY <1>3, <1>4 DEF Answered

LEMMA SwitchIssuedStep ==
  ASSUME NEW c, NEW o, NEW H, NEW A, Answered(c, o, H, A), c.phase = "SwitchIssue"
  PROVE  Step(c, o, SwitchIssued(c, o), H, A)
<1> DEFINE u == [c EXCEPT !.verify = @ \/ o.invoked]
           v == [u EXCEPT !.moved["current"] = c.before["current"]]
<1>1. /\ Between(c, H) /\ c \in Transition /\ c.phase \in Forward
      /\ ForwardInv(c, A, o.kind) /\ Follower(c) /\ Ahead(c, "current")
      /\ o.kind # "Hide" /\ o.kind # "PublishVisualAssignment" /\ ~KeptBy(c)
      /\ Onward(c, H, A)
  BY FollowerPhases
<1>2. o.kind = "SwitchDesktop" /\ "current" \in Piece
        /\ c.before["current"] \in BOOLEAN /\ c.moved \in [Piece -> BOOLEAN]
        /\ (c.verify \/ o.invoked) \in BOOLEAN
  BY <1>1 DEF Answered, Awaits, Piece, Transition
<1>3. c.moved["current"] /\ (o.invoked \/ c.before["current"] \/ "current" \in H)
        /\ (o.invoked => o.match)
  BY <1>1, <1>2 DEF Answered, MoveKind, Piece
<1>4. u \in Transition /\ Touched(c, u) /\ u.seen = c.seen /\ u.moved = c.moved
  BY <1>1, <1>2 DEF Transition, Touched
<1>5. SwitchIssued(c, o) = CASE ~o.match -> BeginRollback(Unusable(v))
                             [] o.match /\ ~o.invoked -> BeginRollback(v)
                             [] OTHER -> Verify(u, "current", "there")
  BY DEF SwitchIssued
<1> HIDE DEF u
<1>6. v \in Transition /\ Touched(u, v) /\ v.seen = u.seen
        /\ v.moved = [u.moved EXCEPT !["current"] = c.before["current"]]
  BY <1>2, <1>4 DEF Transition, Touched
<1> HIDE DEF v
<1>7. CASE ~o.invoked
  <2>1. Touched(c, v) /\ v.seen = c.seen
    BY <1>4, <1>6 DEF Touched
  <2>2. Noted(c, v, H) /\ \A p \in Piece : v.seen[p] = v.dest => p \in A
    BY <1>1, <1>2, <1>3, <1>4, <1>6, <1>7, <2>1 DEF Noted, Between, Sound, ForwardInv, Touched
  <2>3. Undone(c, BeginRollback(v), H, A)
    BY <1>1, <2>2, ForwardAgain
  <2>4. Undone(c, BeginRollback(Unusable(v)), H, A)
    BY <1>1, <2>1, <2>2, ForwardUnusable
  <2> QED BY <1>1, <1>5, <1>7, <2>3, <2>4, ProceedsStep DEF Proceeds
<1>8. CASE o.invoked
  <2>1. SwitchIssued(c, o) = Verify(u, "current", "there")
    BY <1>3, <1>5, <1>8
  <2>2. Noted(c, u, H) /\ \A p \in Piece : u.seen[p] = u.dest => p \in A
    BY <1>1, <1>4 DEF Noted, Between, Sound, ForwardInv, Touched
  <2>3. Onward(u, H, A) /\ \A x : Gone(u, x, H, A) => Gone(c, x, H, A)
    BY <1>1, <2>2, ForwardAgain
  <2>4. Ahead(u, "current")
    BY <1>1, <1>4 DEF Ahead, Touched, Follower
  <2>5. Gone(u, Verify(u, "current", "there"), H, A)
    BY <1>2, <2>3, <2>4, VerifyThere
  <2>6. Verify(u, "current", "there").phase = "DestinationVerify"
    BY <1>2, <1>4, <2>3, VerifyFacts DEF Onward, Between, Ways, Verifying
  <2> QED BY <1>1, <2>1, <2>3, <2>5, <2>6, ProceedsStep DEF Proceeds
<1> QED BY <1>7, <1>8 DEF Answered

\* The desktop is to be read again once the popup was moved.
Repaired(c, b) == [c EXCEPT !.repair = b, !.seen["current"] = NoDesktop]

LEMMA RepairedOnward ==
  ASSUME NEW c, NEW H, NEW A, Onward(c, H, A), NEW b \in BOOLEAN, Ahead(c, "current")
  PROVE  LET u == Repaired(c, b)
         IN /\ Onward(u, H, A) /\ Touched(c, u) /\ Ahead(u, "current")
            /\ \A x : Gone(u, x, H, A) => Gone(c, x, H, A)
<1> DEFINE u == Repaired(c, b)
<1>1. c \in Transition /\ NoDesktop \in Places /\ c.dest # NoDesktop
  BY PickerAssumption DEF Onward, Between, Sound, Transition, Places
<1>2. [c.seen EXCEPT !["current"] = NoDesktop] \in [Piece -> Places]
        /\ c.seen \in [Piece -> Places]
  BY <1>1 DEF Transition
<1>3. u \in Transition /\ Touched(c, u) /\ u.moved = c.moved /\ u.lost = c.lost
        /\ u.seen = [c.seen EXCEPT !["current"] = NoDesktop]
  BY <1>1, <1>2 DEF Transition, Touched, Repaired
<1> HIDE DEF u
<1>4. Noted(c, u, H)
  BY <1>3 DEF Noted, Onward, Between, Sound
<1>5. Between(u, H)
  BY <1>4, NotedBetween DEF Onward
<1>6. \A p \in Piece : u.seen[p] = u.dest => p \in A
  BY <1>1, <1>2, <1>3 DEF Onward, Touched
<1>7. Onward(u, H, A)
  BY <1>3, <1>5, <1>6 DEF Onward, Touched
<1>8. u.seen["target"] = c.seen["target"]
  BY <1>2, <1>3 DEF Piece
<1>9. Ahead(u, "current")
  BY <1>3, <1>8 DEF Ahead, Touched, Follower
<1>10. \A x : Gone(u, x, H, A) => Gone(c, x, H, A)
  BY <1>3 DEF Gone, Answer, Kin, Touched
<1> QED BY <1>3, <1>7, <1>9, <1>10 DEF u

\* The popup, or the desktop, was read.
LEMMA FollowerSaw ==
  ASSUME NEW c, NEW o, NEW H, NEW A, Answered(c, o, H, A),
         c.phase \in {"PopupVerify", "DestinationVerify"},
         NEW p \in {"popup", "current"}, o.kind = ReadKind[p],
         NEW m \in BOOLEAN, ~m => o.seen = c.origin["current"] \/ ~c.moved[p]
  PROVE  LET u == Saw(c, p, o.seen, m)
         IN /\ Touched(c, u) /\ Onward(u, H, A) /\ u.seen[p] = o.seen
            /\ \A x \in Piece \ {p} : u.seen[x] = c.seen[x]
            /\ Ahead(u, "current") /\ Follower(u)
            /\ Undone(c, BeginRollback(u), H, A)
            /\ \A x : Undone(u, x, H, A) => Undone(c, x, H, A)
            /\ \A x : Gone(u, x, H, A) => Gone(c, x, H, A)
<1>1. /\ Between(c, H) /\ c \in Transition /\ c.phase \in Forward
      /\ ForwardInv(c, A, o.kind) /\ Follower(c) /\ Ahead(c, "current")
      /\ o.kind # "Hide" /\ o.kind # "PublishVisualAssignment" /\ o.seen \in Places
  BY FollowerPhases
<1>2. p \in Piece /\ p # "target" /\ (c.sticky => p # "popup")
  BY <1>1 DEF Piece, ForwardInv, ReadKind
<1>3. Movable(c, p)
  BY <1>1, <1>2 DEF Movable
<1>4. m \/ p \in H
  BY <1>1, <1>2 DEF Answered, Between, Sound, ReadKind
<1>5. o.seen = c.dest => p \in A
  BY <1>2 DEF Answered
<1> DEFINE u == Saw(c, p, o.seen, m)
<1>6. /\ Touched(c, u) /\ Onward(u, H, A) /\ u.seen[p] = o.seen
      /\ \A x \in Piece \ {p} : u.seen[x] = c.seen[x]
      /\ Undone(c, BeginRollback(u), H, A)
      /\ \A x : Undone(u, x, H, A) => Undone(c, x, H, A)
      /\ \A x : Gone(u, x, H, A) => Gone(c, x, H, A)
  BY <1>1, <1>2, <1>3, <1>4, <1>5, SawForward
<1> HIDE DEF u
<1>7. Ahead(u, "current") /\ Follower(u)
  BY <1>1, <1>2, <1>6 DEF Ahead, Touched, Follower, Piece
<1> QED BY <1>6, <1>7 DEF u

LEMMA PopupReadStep ==
  ASSUME NEW c, NEW o, NEW H, NEW A, Answered(c, o, H, A), c.phase = "PopupVerify"
  PROVE  Step(c, o, PopupRead(c, o), H, A)
<1> DEFINE b == o.seen # c.origin["current"]
           u == Saw(c, "popup", o.seen, c.moved["popup"])
           v == Saw(c, "popup", o.seen, b)
<1>1. /\ Between(c, H) /\ c \in Transition /\ ~KeptBy(c) /\ o.seen \in Places
      /\ ForwardInv(c, A, o.kind)
  BY FollowerPhases
<1>2. o.kind = ReadKind["popup"] /\ "popup" \in Piece /\ c.moved["popup"] \in BOOLEAN
        /\ b \in BOOLEAN /\ ~c.sticky /\ "current" \in Piece
  BY <1>1 DEF Answered, Awaits, ReadKind, Piece, Transition, ForwardInv
<1>3. PopupRead(c, o) =
        CASE o.seen = c.dest /\ c.repair -> Verify(Repaired(u, FALSE), "current", "there")
          [] o.seen = c.dest /\ ~c.repair
               -> Enter(u, "IdentityVerifyBeforeSwitch", "ValidateTarget")
          [] OTHER -> IF c.tries["there"]["popup"] < Attempts
                      THEN Enter(v, "IdentityVerifyBeforePopup", "ValidateTarget")
                      ELSE BeginRollback(v)
  <2> DEFINE s == [c EXCEPT !.seen["popup"] = o.seen]
  <2>1. s = u /\ [s EXCEPT !.moved["popup"] = b] = v
    <3>1. s = u
      BY <1>1, <1>2, SawPlain
    <3>2. [s EXCEPT !.moved["popup"] = b] = v
      <4>1. Thought(s, "popup", b) = v
        BY <1>1, SawThen
      <4> QED BY <4>1 DEF Thought
    <3> QED BY <3>1, <3>2
  <2>2. PopupRead(c, o) =
        CASE o.seen = c.dest /\ c.repair
              -> Verify([s EXCEPT !.repair = FALSE, !.seen["current"] = NoDesktop], "current", "there")
          [] o.seen = c.dest /\ ~c.repair
               -> Enter(s, "IdentityVerifyBeforeSwitch", "ValidateTarget")
          [] OTHER -> IF c.tries["there"]["popup"] < Attempts
                      THEN Enter([s EXCEPT !.moved["popup"] = b], "IdentityVerifyBeforePopup", "ValidateTarget")
                      ELSE BeginRollback([s EXCEPT !.moved["popup"] = b])
    BY DEF PopupRead
  <2> HIDE DEF s, u, v, b
  <2> QED BY <2>1, <2>2 DEF Repaired
<1>4. /\ Onward(u, H, A) /\ Ahead(u, "current")
      /\ \A x : Gone(u, x, H, A) => Gone(c, x, H, A)
  BY <1>2, FollowerSaw
<1>5. /\ Touched(c, v) /\ Onward(v, H, A) /\ Ahead(v, "current") /\ Follower(v)
      /\ Undone(c, BeginRollback(v), H, A)
      /\ \A x : Gone(v, x, H, A) => Gone(c, x, H, A)
  BY <1>2, FollowerSaw
<1> HIDE DEF u, v, b
<1>6. CASE o.seen = c.dest /\ c.repair
  <2> DEFINE r == Repaired(u, FALSE)
             x == Verify(r, "current", "there")
  <2>1. /\ Onward(r, H, A) /\ Ahead(r, "current")
        /\ \A y : Gone(r, y, H, A) => Gone(u, y, H, A)
    BY <1>4, RepairedOnward
  <2> HIDE DEF r
  <2>2. Gone(r, x, H, A)
    BY <1>2, <2>1, VerifyThere
  <2>3. x.phase = "DestinationVerify"
    BY <1>2, <2>1, VerifyFacts DEF Onward, Between, Sound, Ways, Verifying
  <2> QED BY <1>1, <1>3, <1>4, <1>6, <2>1, <2>2, <2>3, ProceedsStep DEF Proceeds, r
<1>7. CASE o.seen = c.dest /\ ~c.repair
  <2> DEFINE x == Enter(u, "IdentityVerifyBeforeSwitch", "ValidateTarget")
  <2>1. Gone(u, x, H, A)
    BY <1>4, ValidateBeforeSwitch
  <2>2. x.phase = "IdentityVerifyBeforeSwitch"
    BY <1>4, EnterFacts DEF Onward, Between, Sound, Phase, EffectKind
  <2> QED BY <1>1, <1>3, <1>4, <1>7, <2>1, <2>2, ProceedsStep DEF Proceeds
<1>8. CASE o.seen # c.dest /\ c.tries["there"]["popup"] < Attempts
  <2> DEFINE x == Enter(v, "IdentityVerifyBeforePopup", "ValidateTarget")
  <2>1. ~Row(v) /\ v.tries["there"]["popup"] < Attempts
    BY <1>5, <1>8 DEF Touched, Follower, Row
  <2>2. Gone(v, x, H, A)
    BY <1>5, <2>1, ValidateBeforePopup
  <2>3. x.phase = "IdentityVerifyBeforePopup"
    BY <1>5, EnterFacts DEF Onward, Between, Sound, Phase, EffectKind
  <2> QED BY <1>1, <1>3, <1>5, <1>8, <2>2, <2>3, ProceedsStep DEF Proceeds
<1>9. CASE o.seen # c.dest /\ ~(c.tries["there"]["popup"] < Attempts)
  BY <1>1, <1>3, <1>5, <1>9, ProceedsStep DEF Proceeds
<1> QED BY <1>6, <1>7, <1>8, <1>9

LEMMA DestinationCurrentReadStep ==
  ASSUME NEW c, NEW o, NEW H, NEW A, Answered(c, o, H, A),
         c.phase = "DestinationVerify", o.kind = "ReadCurrent"
  PROVE  Step(c, o, DestinationCurrentRead(c, o), H, A)
<1> DEFINE b == o.seen # c.origin["current"]
           u == Saw(c, "current", o.seen, c.moved["current"])
           v == Saw(c, "current", o.seen, b)
<1>1. /\ Between(c, H) /\ c \in Transition /\ ~KeptBy(c) /\ o.seen \in Places
      /\ ForwardInv(c, A, o.kind)
  BY FollowerPhases
<1>2. o.kind = ReadKind["current"] /\ "popup" \in Piece /\ c.moved["current"] \in BOOLEAN
        /\ b \in BOOLEAN /\ "current" \in Piece
  BY <1>1 DEF Answered, Awaits, ReadKind, Piece, Transition, ForwardInv
<1>3. DestinationCurrentRead(c, o) =
        CASE o.seen = c.dest -> IF c.sticky THEN Arrived(u) ELSE Emit(u, "ReadPopup")
          [] OTHER -> IF c.tries["there"]["current"] < Attempts
                      THEN Enter(v, "IdentityVerifyBeforeSwitch", "ValidateTarget")
                      ELSE BeginRollback(v)
  <2> DEFINE s == [c EXCEPT !.seen["current"] = o.seen]
  <2>1. s = u /\ [s EXCEPT !.moved["current"] = b] = v
    <3>1. s = u
      BY <1>1, <1>2, SawPlain
    <3>2. [s EXCEPT !.moved["current"] = b] = v
      <4>1. Thought(s, "current", b) = v
        BY <1>1, SawThen
      <4> QED BY <4>1 DEF Thought
    <3> QED BY <3>1, <3>2
  <2>2. DestinationCurrentRead(c, o) =
        CASE o.seen = c.dest -> IF c.sticky THEN Arrived(s) ELSE Emit(s, "ReadPopup")
          [] OTHER -> IF c.tries["there"]["current"] < Attempts
                      THEN Enter([s EXCEPT !.moved["current"] = b], "IdentityVerifyBeforeSwitch", "ValidateTarget")
                      ELSE BeginRollback([s EXCEPT !.moved["current"] = b])
    BY DEF DestinationCurrentRead
  <2> HIDE DEF s, u, v, b
  <2> QED BY <2>1, <2>2
<1>4. /\ Touched(c, u) /\ Onward(u, H, A) /\ Ahead(u, "current")
      /\ u.seen["current"] = o.seen
      /\ \A x : Undone(u, x, H, A) => Undone(c, x, H, A)
      /\ \A x : Gone(u, x, H, A) => Gone(c, x, H, A)
  BY <1>2, FollowerSaw
<1>5. /\ Touched(c, v) /\ Onward(v, H, A) /\ Ahead(v, "current")
      /\ Undone(c, BeginRollback(v), H, A)
      /\ \A x : Gone(v, x, H, A) => Gone(c, x, H, A)
  BY <1>2, FollowerSaw
<1> HIDE DEF u, v, b
<1>6. CASE o.seen = c.dest /\ c.sticky
  <2>1. Reached(u)
    BY <1>4, <1>6 DEF Touched, Reached
  <2>2. Proceeds(u, Arrived(u), H, A)
    BY <1>4, <2>1, ArrivedProceeds
  <2>3. u.failed = c.failed
    BY <1>4 DEF Touched
  <2> QED BY <1>1, <1>3, <1>4, <1>6, <2>2, <2>3, ProceedsStep DEF Proceeds
<1>7. CASE o.seen = c.dest /\ ~c.sticky
  <2> DEFINE x == Emit(u, "ReadPopup")
  <2>1. Ahead(u, "popup") /\ u.phase = "DestinationVerify" /\ u.seen["current"] = u.dest
    BY <1>4, <1>7 DEF Ahead, Touched
  <2>2. Gone(u, x, H, A)
    BY <1>4, <2>1, ReadPopupThere
  <2>3. x.phase = "DestinationVerify"
    BY <1>4, <2>1, EmitFacts DEF Onward, Between, Sound, EffectKind, Reads, ReadKind, Piece
  <2> QED BY <1>1, <1>3, <1>4, <1>7, <2>2, <2>3, ProceedsStep DEF Proceeds
<1>8. CASE o.seen # c.dest /\ c.tries["there"]["current"] < Attempts
  <2> DEFINE x == Enter(v, "IdentityVerifyBeforeSwitch", "ValidateTarget")
  <2>1. Gone(v, x, H, A)
    BY <1>5, ValidateBeforeSwitch
  <2>2. x.phase = "IdentityVerifyBeforeSwitch"
    BY <1>5, EnterFacts DEF Onward, Between, Sound, Phase, EffectKind
  <2> QED BY <1>1, <1>3, <1>5, <1>8, <2>1, <2>2, ProceedsStep DEF Proceeds
<1>9. CASE o.seen # c.dest /\ ~(c.tries["there"]["current"] < Attempts)
  BY <1>1, <1>3, <1>5, <1>9, ProceedsStep DEF Proceeds
<1> QED BY <1>6, <1>7, <1>8, <1>9

LEMMA DestinationPopupReadStep ==
  ASSUME NEW c, NEW o, NEW H, NEW A, Answered(c, o, H, A),
         c.phase = "DestinationVerify", o.kind = "ReadPopup"
  PROVE  Step(c, o, DestinationPopupRead(c, o), H, A)
<1> DEFINE b == o.seen # c.origin["current"]
           u == Saw(c, "popup", o.seen, c.moved["popup"])
           v == Saw(c, "popup", o.seen, b)
<1>1. /\ Between(c, H) /\ c \in Transition /\ ~KeptBy(c) /\ o.seen \in Places
      /\ ForwardInv(c, A, o.kind)
  BY FollowerPhases
<1>2. o.kind = ReadKind["popup"] /\ "popup" \in Piece /\ c.moved["popup"] \in BOOLEAN
        /\ b \in BOOLEAN /\ "current" \in Piece /\ c.seen["current"] = c.dest
  BY <1>1 DEF Answered, Awaits, ReadKind, Piece, Transition, ForwardInv
<1>3. DestinationPopupRead(c, o) =
        CASE o.seen = c.dest -> Arrived(u)
          [] OTHER -> IF c.tries["there"]["popup"] < Attempts
                      THEN Enter(Repaired(v, TRUE), "IdentityVerifyBeforePopup", "ValidateTarget")
                      ELSE BeginRollback(v)
  <2> DEFINE s == [c EXCEPT !.seen["popup"] = o.seen]
             r == [s EXCEPT !.moved["popup"] = b]
  <2>1. s = u /\ r = v
    <3>1. s = u
      BY <1>1, <1>2, SawPlain
    <3>2. r = v
      <4>1. Thought(s, "popup", b) = v
        BY <1>1, SawThen
      <4> QED BY <4>1 DEF Thought
    <3> QED BY <3>1, <3>2
  <2>2. DestinationPopupRead(c, o) =
        CASE o.seen = c.dest -> Arrived(s)
          [] OTHER -> IF c.tries["there"]["popup"] < Attempts
                      THEN Enter([r EXCEPT !.repair = TRUE, !.seen["current"] = NoDesktop],
                                 "IdentityVerifyBeforePopup", "ValidateTarget")
                      ELSE BeginRollback(r)
    BY DEF DestinationPopupRead
  <2> HIDE DEF s, r, u, v, b
  <2> QED BY <2>1, <2>2 DEF Repaired
<1>4. /\ Touched(c, u) /\ Onward(u, H, A) /\ Ahead(u, "current")
      /\ u.seen["popup"] = o.seen /\ u.seen["current"] = c.seen["current"]
      /\ \A x : Undone(u, x, H, A) => Undone(c, x, H, A)
      /\ \A x : Gone(u, x, H, A) => Gone(c, x, H, A)
  BY <1>2, FollowerSaw DEF Piece
<1>5. /\ Touched(c, v) /\ Onward(v, H, A) /\ Ahead(v, "current") /\ Follower(v)
      /\ Undone(c, BeginRollback(v), H, A)
      /\ \A x : Gone(v, x, H, A) => Gone(c, x, H, A)
  BY <1>2, FollowerSaw
<1> HIDE DEF u, v, b
<1>6. CASE o.seen = c.dest
  <2>1. Reached(u)
    BY <1>2, <1>4, <1>6 DEF Touched, Reached
  <2>2. Proceeds(u, Arrived(u), H, A)
    BY <1>4, <2>1, ArrivedProceeds
  <2>3. u.failed = c.failed
    BY <1>4 DEF Touched
  <2> QED BY <1>1, <1>3, <1>4, <1>6, <2>2, <2>3, ProceedsStep DEF Proceeds
<1>7. CASE o.seen # c.dest /\ c.tries["there"]["popup"] < Attempts
  <2> DEFINE r == Repaired(v, TRUE)
             x == Enter(r, "IdentityVerifyBeforePopup", "ValidateTarget")
  <2>1. /\ Onward(r, H, A) /\ Ahead(r, "current") /\ Touched(v, r)
        /\ \A y : Gone(r, y, H, A) => Gone(v, y, H, A)
    BY <1>5, RepairedOnward
  <2> HIDE DEF r
  <2>2. ~Row(r) /\ r.tries["there"]["popup"] < Attempts
    BY <1>5, <1>7, <2>1 DEF Touched, Follower, Row
  <2>3. Gone(r, x, H, A)
    BY <2>1, <2>2, ValidateBeforePopup
  <2>4. x.phase = "IdentityVerifyBeforePopup"
    BY <2>1, EnterFacts DEF Onward, Between, Sound, Phase, EffectKind
  <2> QED BY <1>1, <1>3, <1>5, <1>7, <2>1, <2>3, <2>4, ProceedsStep DEF Proceeds, r
<1>8. CASE o.seen # c.dest /\ ~(c.tries["there"]["popup"] < Attempts)
  BY <1>1, <1>3, <1>5, <1>8, ProceedsStep DEF Proceeds
<1> QED BY <1>6, <1>7, <1>8

-----------------------------------------------------------------------------
(* How a transition ends. *)

LEMMA AcknowledgeVisualOnly ==
  ASSUME NEW c, NEW H, NEW A, NEW kind, Between(c, H), c.mode = "VisualOnly",
         c.phase \in Forward, ForwardInv(c, A, kind)
  PROVE  Answer(c, AcknowledgeTerminal(c), H, A)
<1> DEFINE u == AcknowledgeTerminal(c)
<1>1. u \in Transition /\ Counts(c, u) /\ Acknowledged(c, u)
  BY AcknowledgeFacts DEF Between, Sound
<1> HIDE DEF u
<1>2. Sound(u, H)
  BY <1>1 DEF Between, Sound, Counts, Acknowledged, Visual, Follower
<1>3. PendingInv(u) /\ \A p \in Piece : u.pending # MoveKind[p]
  BY <1>1 DEF PendingInv, Acknowledged, Follower, Piece, MoveKind, None
<1>4. ~u.dismissed /\ ~u.sticky
  BY <1>1, <1>2 DEF Sound, Acknowledged, Follower
<1>5. ForwardInv(u, A, u.pending)
  BY <1>1, <1>4 DEF ForwardInv, Acknowledged, Counts, Visual, Row, Follower
<1>6. TransitionInv(u, H, A)
  BY <1>1, <1>2, <1>3, <1>5 DEF TransitionInv, PhaseInv, Acknowledged,
       Forward, Backward, TargetBack, PopupBack, SwitchBack, Last
<1> QED BY <1>1, <1>3, <1>6 DEF Answer, Acknowledged, Kin, Between, u

LEMMA AcknowledgeLast ==
  ASSUME NEW c, NEW H, NEW A, NEW kind, Between(c, H), c.phase \in Last,
         LastInv(c, A, kind), c.mode = "MoveAndFollow" /\ c.dismissed => c.hideDone
  PROVE  Answer(c, AcknowledgeTerminal(c), H, A)
<1> DEFINE u == AcknowledgeTerminal(c)
<1>1. u \in Transition /\ Counts(c, u) /\ Acknowledged(c, u)
  BY AcknowledgeFacts DEF Between, Sound
<1> HIDE DEF u
<1>2. Sound(u, H)
  BY <1>1 DEF Between, Sound, Counts, Acknowledged, Visual, Follower
<1>3. PendingInv(u) /\ \A p \in Piece : u.pending # MoveKind[p]
  BY <1>1 DEF PendingInv, Acknowledged, Follower, Visual, Piece, MoveKind, None
<1>4. LastInv(u, A, u.pending)
  BY <1>1 DEF LastInv, Acknowledged, Counts, AllThere, AllSettled, Settled, Visual, Follower
<1>5. TransitionInv(u, H, A)
  BY <1>1, <1>2, <1>3, <1>4 DEF TransitionInv, PhaseInv, Acknowledged,
       Forward, Backward, TargetBack, PopupBack, SwitchBack, Last
<1> QED BY <1>1, <1>3, <1>5 DEF Answer, Acknowledged, Kin, Between, u

LEMMA AcknowledgeStep ==
  ASSUME NEW c, NEW o, NEW H, NEW A, Between(c, H),
         Answer(c, AcknowledgeTerminal(c), H, A),
         ~c.failed /\ Follower(c) => o.kind = "ShowAndFocus" /\ o.ok,
         ~c.failed /\ Visual(c)
           => (o.kind = "PublishVisualAssignment" /\ o.ok) \/ c.phase = "FocusRestore"
  PROVE  Step(c, o, AcknowledgeTerminal(c), H, A)
<1> DEFINE u == AcknowledgeTerminal(c)
<1>1. Acknowledged(c, u) /\ Answer(c, u, H, A)
  BY AcknowledgeFacts DEF Between, Sound
<1> HIDE DEF u
<1>2. KeptBy(c) => KeptBy(u)
  BY <1>1 DEF KeptBy, Acknowledged, Visual
<1>3. c.failed /\ ~KeptBy(c) => ~KeptBy(u)
  BY <1>1 DEF KeptBy, Acknowledged, Visual
<1> QED BY <1>1, <1>2, <1>3 DEF Step, Acknowledged, Follower, Visual, None, u

\* What lets a transition be shown to the user as it is.
Showable(c, A) ==
  /\ Follower(c)
  /\ c.cutoff => ~Visual(c) /\ AllThere(c, A)
  /\ ~c.cutoff /\ ~Visual(c) => c.failed /\ AllSettled(c)
  /\ Visual(c) => AllThere(c, A)

LEMMA RestoreFocusFacts ==
  ASSUME NEW c, NEW H, NEW A, Between(c, H), ~c.dismissed, c.focus < Attempts,
         Showable(c, A)
  PROVE  LET u == RestoreFocus(c)
         IN /\ Answer(c, u, H, A) /\ u.failed = c.failed /\ u.cutoff = c.cutoff
            /\ u.hideDone = c.hideDone /\ u.focusLost = c.focusLost /\ ~u.ack
            /\ u.phase = "FocusRestore" /\ u.pending = "ShowAndFocus"
<1> DEFINE v == [c EXCEPT !.focus = @ + 1]
           u == RestoreFocus(c)
<1>1. c \in Transition /\ c.pending = None /\ c.focus + 1 \in 0..Attempts
        /\ "FocusRestore" \in Phase \ {"Idle"} /\ "ShowAndFocus" \in EffectKind
  BY PickerAssumption DEF Between, Sound, Transition, Phase, EffectKind
<1>2. /\ v \in Transition /\ v.pending = None /\ v.tries = c.tries /\ v.moved = c.moved
      /\ v.before = c.before /\ Kin(c, v) /\ v.failed = c.failed /\ v.cutoff = c.cutoff
      /\ v.hideDone = c.hideDone /\ v.focusLost = c.focusLost /\ v.ack = c.ack
      /\ v.lost = c.lost
  BY <1>1 DEF Transition, Kin
<1>3. u = Enter(v, "FocusRestore", "ShowAndFocus")
  BY DEF RestoreFocus
<1> HIDE DEF v
<1>4. /\ u \in Transition /\ Frame(v, u) /\ Counts(v, u)
      /\ u.phase = "FocusRestore" /\ u.pending = "ShowAndFocus" /\ u.out = Awaiting(u)
  BY <1>1, <1>2, <1>3, EnterFacts
<1> HIDE DEF u
<1>5. Kin(c, u) /\ u.failed = c.failed /\ u.cutoff = c.cutoff /\ u.hideDone = c.hideDone
        /\ u.focusLost = c.focusLost /\ ~u.ack /\ u.lost = c.lost /\ Counts(c, u)
  BY <1>2, <1>4 DEF Between, Frame, Counts, Kin
<1>6. Sound(u, H)
  BY <1>4, <1>5 DEF Between, Sound, Kin, Counts, Visual, Follower
<1>7. PendingInv(u) /\ \A p \in Piece : u.pending # MoveKind[p]
  BY <1>4, <1>5 DEF PendingInv, Awaits, Piece, MoveKind
<1>8. AllThere(c, A) => AllThere(u, A)
  BY <1>5 DEF AllThere, Kin, Visual, Follower
<1>9. AllSettled(c) => AllSettled(u)
  BY <1>5 DEF AllSettled, Settled, Counts
<1>10. LastInv(u, A, u.pending)
  BY <1>4, <1>5, <1>8, <1>9 DEF LastInv, Kin, Showable, Visual, Follower
<1>11. TransitionInv(u, H, A)
  BY <1>4, <1>6, <1>7, <1>10 DEF TransitionInv, PhaseInv,
       Forward, Backward, TargetBack, PopupBack, SwitchBack, Last
<1> QED BY <1>4, <1>5, <1>7, <1>11 DEF Answer, u

\* The popup is to be hidden in the middle of any phase.
LEMMA HideAsked ==
  ASSUME NEW c, NEW H, NEW A, NEW kind, Between(c, H), c.dismissed, c.resume = c.phase,
         PhaseInv(c, A, kind)
  PROVE  LET u == Emit(c, "Hide")
         IN /\ Answer(c, u, H, A) /\ Frame(c, u) /\ Counts(c, u) /\ u.phase = c.phase
            /\ u.pending = "Hide"
<1> DEFINE u == Emit(c, "Hide")
<1>1. c \in Transition /\ c.pending = None /\ "Hide" \in EffectKind
  BY DEF Between, Sound, EffectKind
<1>2. /\ u \in Transition /\ Frame(c, u) /\ Counts(c, u)
      /\ u.phase = c.phase /\ u.pending = "Hide" /\ u.out = Awaiting(u)
  BY <1>1, EmitFacts
<1> HIDE DEF u
<1>3. Sound(u, H)
  BY <1>2 DEF Between, Sound, Frame, Counts, Visual, Follower
<1>4. PendingInv(u) /\ \A p \in Piece : u.pending # MoveKind[p]
  BY <1>2 DEF Between, PendingInv, Frame, Piece, MoveKind
<1>5. c.phase \in Forward => ForwardInv(u, A, "Hide")
  BY <1>2 DEF PhaseInv, ForwardInv, Frame, Counts, Visual, Row, Follower, Between
<1>6. c.phase \in Backward => BackwardInv(u)
  BY <1>2 DEF PhaseInv, BackwardInv, Frame, Counts, Visual, Row, Settled
<1>7. c.phase = "SaveExactTarget" => SaveInv(u, A)
  BY <1>2 DEF PhaseInv, SaveInv, Frame, Counts, Visual, AllThere, Follower
<1>8. c.phase \in Last => LastInv(u, A, "Hide")
  BY <1>2 DEF PhaseInv, LastInv, Frame, Counts, Visual, AllThere, AllSettled, Settled, Follower
<1>9. TransitionInv(u, H, A)
  BY <1>2, <1>3, <1>4, <1>5, <1>6, <1>7, <1>8 DEF TransitionInv, PhaseInv
<1> QED BY <1>2, <1>4, <1>9 DEF Answer, Kin, Frame, Between, u

LEMMA ValidatedBeforePopupStep ==
  ASSUME NEW c, NEW o, NEW H, NEW A, Answered(c, o, H, A),
         c.phase = "IdentityVerifyBeforePopup"
  PROVE  Step(c, o, ValidatedBeforePopup(c, o), H, A)
<1>1. /\ Between(c, H) /\ c \in Transition /\ c.phase \in Forward /\ c.mode \in Mode
      /\ ForwardInv(c, A, o.kind) /\ o.kind = "ValidateTarget"
      /\ Noted(c, c, H) /\ \A p \in Piece : c.seen[p] = c.dest => p \in A
  BY DEF Answered, Between, Sound, Transition, PhaseInv, Forward, Awaits, ForwardInv, Noted, Touched
<1>2. Onward(c, H, A) /\ ~KeptBy(c)
  BY <1>1, ForwardAgain
<1>3. CASE ~o.match
  <2>1. Undone(c, BeginRollback(Unusable(c)), H, A)
    BY <1>1, ForwardUnusable
  <2> QED BY <1>2, <1>3, <2>1, ProceedsStep DEF Proceeds, ValidatedBeforePopup
<1>4. CASE o.match /\ c.mode = "VisualOnly" /\ c.cancelled
  <2>1. ValidatedBeforePopup(c, o) = AcknowledgeTerminal(c)
    BY <1>4 DEF ValidatedBeforePopup
  <2>2. Answer(c, AcknowledgeTerminal(c), H, A)
    BY <1>1, <1>4, AcknowledgeVisualOnly
  <2>3. c.failed
    BY <1>1, <1>4 DEF Between, Sound
  <2> QED BY <1>1, <2>1, <2>2, <2>3, AcknowledgeStep
<1>5. CASE o.match /\ c.mode = "VisualOnly" /\ ~c.cancelled
  <2>1. ValidatedBeforePopup(c, o) = StartVisualPublication(c)
    BY <1>5 DEF ValidatedBeforePopup
  <2>2. Visual(c) /\ Reached(c)
    BY <1>5 DEF Visual, Reached, Follower
  <2>3. Gone(c, StartVisualPublication(c), H, A)
    BY <1>2, <2>2, PublicationStarts
  <2>4. StartVisualPublication(c).phase = "PublishVisualAssignment"
    BY <1>2, EnterFacts DEF Onward, Between, Sound, StartVisualPublication, Phase, EffectKind
  <2> QED BY <1>2, <2>1, <2>3, <2>4, ProceedsStep DEF Proceeds
<1>6. CASE o.match /\ c.mode # "VisualOnly"
  <2>1. Follower(c) /\ Ahead(c, "current")
    BY <1>1, <1>6 DEF ForwardInv, Follower, Row, Visual, Mode, Ahead
  <2>2. CASE c.sticky
    <3> DEFINE u == [c EXCEPT !.phase = "IdentityVerifyBeforeSwitch"]
    <3>1. ValidatedBeforePopup(c, o) = ContinueForwardToDestination(u)
      BY <1>6, <2>2 DEF ValidatedBeforePopup
    <3>2. "IdentityVerifyBeforeSwitch" \in Phase \ {"Idle"}
      BY DEF Phase
    <3>3. /\ u \in Transition /\ Frame(c, u) /\ Counts(c, u)
          /\ u.phase = "IdentityVerifyBeforeSwitch" /\ u.pending = c.pending /\ u.out = c.out
      BY <1>1, <3>2 DEF Transition, Frame, Counts
    <3> HIDE DEF u
    <3>4. Sound(u, H)
      BY <1>1, <3>3 DEF Between, Sound, Frame, Counts, Visual, Follower
    <3>5. Onward(u, H, A)
      BY <1>2, <3>3, <3>4 DEF Onward, Between, Frame, Counts, Last
    <3>6. Ahead(u, "current")
      BY <2>1, <3>3 DEF Ahead, Frame, Follower
    <3>7. Proceeds(u, ContinueForwardToDestination(u), H, A)
      BY <3>5, <3>6, ForwardToDestination
    <3>8. Kin(c, u) /\ u.failed = c.failed /\ u.hideDone = c.hideDone
      BY <3>3 DEF Kin, Frame
    <3>9. Proceeds(c, ContinueForwardToDestination(u), H, A)
      BY <3>7, <3>8 DEF Proceeds, Undone, Gone, Answer, Kin
    <3> QED BY <1>2, <3>1, <3>9, ProceedsStep
  <2>3. CASE ~c.sticky
    <3>1. ValidatedBeforePopup(c, o) = Issue(c, "popup", "there")
      BY <1>6, <2>3 DEF ValidatedBeforePopup
    <3>2. Ahead(c, "popup") /\ "popup" \in Piece /\ c.tries["there"]["popup"] < Attempts
      BY <1>1, <2>1, <2>3 DEF Ahead, Piece, ForwardInv
    <3>3. Gone(c, Issue(c, "popup", "there"), H, A)
      BY <1>2, <3>2, IssueThere
    <3>4. Issue(c, "popup", "there").phase = "PopupIssue"
      BY <1>1, <2>3, <3>2, IssueFacts DEF Ways, Issuing, Between
    <3> QED BY <1>2, <3>1, <3>3, <3>4, ProceedsStep DEF Proceeds
  <2> QED BY <2>2, <2>3 DEF Answered
<1> QED BY <1>3, <1>4, <1>5, <1>6

LEMMA PublishedStep ==
  ASSUME NEW c, NEW o, NEW H, NEW A, Answered(c, o, H, A),
         c.phase = "PublishVisualAssignment"
  PROVE  Step(c, o, Published(c, o), H, A)
<1>1. /\ Between(c, H) /\ c \in Transition /\ c.phase \in Forward /\ c.mode \in Mode
      /\ ForwardInv(c, A, o.kind) /\ o.kind = "PublishVisualAssignment" /\ Visual(c)
      /\ Noted(c, c, H) /\ \A p \in Piece : c.seen[p] = c.dest => p \in A
  BY DEF Answered, Between, Sound, Transition, PhaseInv, Forward, Awaits, ForwardInv, Noted, Touched
<1>2. Undone(c, BeginRollback(c), H, A) /\ ~KeptBy(c)
  BY <1>1, ForwardAgain
<1>3. CASE ~o.ok
  BY <1>2, <1>3, ProceedsStep DEF Proceeds, Published
<1>4. CASE o.ok /\ c.mode = "VisualOnly"
  <2>1. Published(c, o) = AcknowledgeTerminal(c)
    BY <1>4 DEF Published
  <2>2. Answer(c, AcknowledgeTerminal(c), H, A)
    BY <1>1, <1>4, AcknowledgeVisualOnly
  <2>3. ~Follower(c)
    BY <1>4 DEF Follower
  <2> QED BY <1>1, <1>4, <2>1, <2>2, <2>3, AcknowledgeStep
<1>5. CASE o.ok /\ c.mode # "VisualOnly" /\ c.dismissed
  <2> DEFINE v == [c EXCEPT !.resume = "PublishVisualAssignment"]
             u == Emit(v, "Hide")
  <2>1. Published(c, o) = u
    BY <1>5 DEF Published
  <2>2. "PublishVisualAssignment" \in Phase
    BY DEF Phase
  <2>3. v \in Transition /\ v.resume = v.phase /\ v.moved = c.moved /\ v.seen = c.seen
          /\ v.lost = c.lost /\ v.tries = c.tries /\ v.before = c.before
          /\ v.phase = c.phase /\ Kin(c, v) /\ v.failed = c.failed /\ v.cutoff = c.cutoff
          /\ v.hideDone = c.hideDone /\ v.focusLost = c.focusLost /\ v.focus = c.focus
          /\ v.pending = c.pending /\ v.ack = c.ack /\ v.out = c.out
    BY <1>1, <2>2 DEF Transition, Kin
  <2> HIDE DEF v
  <2>4. Sound(v, H)
    BY <1>1, <2>3 DEF Between, Sound, Kin, Visual, Follower
  <2>5. ForwardInv(v, A, o.kind)
    BY <1>1, <2>3 DEF ForwardInv, Kin, Visual, Follower, Row
  <2>6. Between(v, H) /\ v.dismissed /\ PhaseInv(v, A, o.kind)
    BY <1>1, <1>5, <2>3, <2>4, <2>5 DEF Between, Kin, PhaseInv, Backward, Last, TargetBack, PopupBack,
         SwitchBack
  <2>7. /\ Answer(v, u, H, A) /\ Frame(v, u) /\ u.phase = v.phase /\ u.pending = "Hide"
    BY <2>3, <2>6, HideAsked
  <2> HIDE DEF u
  <2>8. c.failed /\ u.failed /\ ~KeptBy(u) /\ ~u.ack /\ ~u.cutoff /\ u.hideDone = c.hideDone
    BY <1>1, <1>5, <2>3, <2>7 DEF Between, Sound, ForwardInv, KeptBy, Frame
  <2>9. Answer(c, u, H, A)
    BY <2>3, <2>7 DEF Answer, Kin
  <2>10. u.phase # "FocusRestore"
    BY <1>1, <2>3, <2>7 DEF Forward
  <2> QED BY <1>2, <2>1, <2>7, <2>8, <2>9, <2>10 DEF Step, KeptBy
<1>6. CASE o.ok /\ c.mode # "VisualOnly" /\ ~c.dismissed
  <2> DEFINE u == RestoreFocus(c)
  <2>1. Published(c, o) = u
    BY <1>6 DEF Published
  <2>2. c.mode = "VisualAndFollow" /\ ~c.failed /\ c.focus < Attempts
    BY <1>1, <1>6, PickerAssumption DEF Visual, Between, Sound, ForwardInv, Follower
  <2>3. Showable(c, A)
    BY <1>1, <2>2 DEF Showable, Follower, Visual, ForwardInv, AllThere, Piece
  <2>4. /\ Answer(c, u, H, A) /\ u.failed = c.failed /\ u.cutoff = c.cutoff
        /\ u.hideDone = c.hideDone /\ ~u.ack /\ u.phase = "FocusRestore"
        /\ u.pending = "ShowAndFocus"
    BY <1>1, <1>6, <2>2, <2>3, RestoreFocusFacts
  <2> HIDE DEF u
  <2> QED BY <1>1, <1>2, <1>6, <2>1, <2>2, <2>4 DEF Step
<1> QED BY <1>3, <1>4, <1>5, <1>6

-----------------------------------------------------------------------------
(* The record, the highlights and the focus. *)

LEMMA RefreshOn ==
  ASSUME NEW c, NEW H, NEW A, Between(c, H), c.phase # "FocusRestore", ~c.focusLost,
         c.mode # "VisualOnly",
         c.cutoff => ~Visual(c) /\ AllThere(c, A),
         ~c.cutoff => c.failed /\ AllSettled(c)
  PROVE  LET u == StartRefresh(c)
         IN /\ Answer(c, u, H, A) /\ Frame(c, u) /\ u.phase = "RefreshModel"
            /\ u.pending = "Refresh"
<1> DEFINE u == StartRefresh(c)
<1>1. c \in Transition /\ c.pending = None /\ c.focus = 0
  BY DEF Between, Sound
<1>2. /\ u \in Transition /\ Frame(c, u) /\ Counts(c, u)
      /\ u.phase = "RefreshModel" /\ u.pending = "Refresh" /\ u.out = Awaiting(u)
  BY <1>1, RefreshFacts
<1> HIDE DEF u
<1>3. Sound(u, H)
  BY <1>1, <1>2 DEF Between, Sound, Frame, Counts, Visual, Follower
<1>4. PendingInv(u) /\ \A p \in Piece : u.pending # MoveKind[p]
  BY <1>2 DEF Between, PendingInv, Frame, Piece, MoveKind, Awaits
<1>5. LastInv(u, A, u.pending)
  BY <1>2 DEF LastInv, Frame, Counts, AllThere, AllSettled, Settled, Visual, Follower
<1>6. TransitionInv(u, H, A)
  BY <1>2, <1>3, <1>4, <1>5 DEF TransitionInv, PhaseInv,
       Forward, Backward, TargetBack, PopupBack, SwitchBack, Last
<1> QED BY <1>2, <1>4, <1>6 DEF Answer, Kin, Frame, Between, u

LEMMA ExactTargetSavedStep ==
  ASSUME NEW c, NEW o, NEW H, NEW A, Answered(c, o, H, A), c.phase = "SaveExactTarget",
         o.save \in {"Saved", "NotTracked", "FlushFailed", "Failed"}
  PROVE  Step(c, o, ExactTargetSaved(c, o), H, A)
<1> DEFINE w == IF o.match THEN c ELSE Unusable(c)
           b == c.failed \/ ~o.match \/ o.save \in {"Failed", "FlushFailed"}
           u == [w EXCEPT !.failed = b]
<1>1. /\ Between(c, H) /\ c \in Transition /\ c.mode \in Mode /\ SaveInv(c, A)
      /\ o.kind = "SaveExactTarget"
  BY DEF Answered, Between, Sound, Transition, PhaseInv, Awaits
<1>2. w.failed = c.failed
  BY <1>1 DEF Unusable, Transition
<1>3. ExactTargetSaved(c, o) =
        CASE Row(c) /\ RowMoveSaveCommits(o.save) -> StartRefresh(u)
          [] Row(c) /\ ~RowMoveSaveCommits(o.save) -> BeginRollback([u EXCEPT !.cutoff = FALSE])
          [] ~Row(c) /\ c.dismissed -> Emit([u EXCEPT !.resume = "SaveExactTarget"], "Hide")
          [] OTHER -> StartRefresh(u)
  BY <1>2 DEF ExactTargetSaved
<1>4. [c.seen EXCEPT !["target"] = NoDesktop] \in [Piece -> Places] /\ b \in BOOLEAN
  BY <1>1 DEF Transition, Places
<1>5. /\ w \in Transition /\ Touched(c, w) /\ w.moved = c.moved
      /\ c.lost => w.lost
  <2>1. CASE o.match
    <3>1. w = c
      BY <2>1
    <3> QED BY <1>1, <3>1 DEF Touched
  <2>2. CASE ~o.match
    <3>1. w = [c EXCEPT !.lost = TRUE, !.seen["target"] = NoDesktop]
      BY <2>2 DEF Unusable
    <3> HIDE DEF w
    <3> QED BY <1>1, <1>4, <3>1 DEF Transition, Touched
  <2> QED BY <2>1, <2>2
<1> HIDE DEF w, b
<1>6. /\ u \in Transition /\ Recounted(w, u) /\ Counts(w, u) /\ u.failed = b
      /\ u.resume = w.resume
  BY <1>4, <1>5 DEF Transition, Recounted, Counts
<1> HIDE DEF u
<1>7. /\ u.phase = c.phase /\ Kin(c, u) /\ Counts(c, u) /\ u.cutoff = c.cutoff
      /\ u.hideDone = c.hideDone /\ u.focusLost = c.focusLost /\ u.focus = c.focus
      /\ u.pending = c.pending /\ u.ack = c.ack /\ u.out = c.out
      /\ c.failed => u.failed
      /\ ~RowMoveSaveCommits(o.save) => u.failed
  BY <1>5, <1>6 DEF Touched, Recounted, Counts, Kin, RowMoveSaveCommits, b
<1>8. Sound(u, H)
  BY <1>1, <1>6, <1>7 DEF Between, Sound, Kin, Counts, Visual, Follower
<1>9. Between(u, H) /\ SaveInv(u, A)
  BY <1>1, <1>7, <1>8 DEF Between, SaveInv, Kin, Counts, AllThere, Visual, Follower
<1>10. ASSUME NEW x, Answer(u, x, H, A), Frame(u, x), x.pending # "SaveExactTarget"
       PROVE  Step(c, o, x, H, A)
  BY <1>1, <1>7, <1>9, <1>10 DEF Step, Answer, Frame, Kin, KeptBy, SaveInv, Follower, Visual
<1>11. CASE (Row(c) /\ RowMoveSaveCommits(o.save)) \/ (~Row(c) /\ ~c.dismissed)
  <2>1. ExactTargetSaved(c, o) = StartRefresh(u)
    BY <1>3, <1>11
  <2>2. u.phase # "FocusRestore" /\ u.mode # "VisualOnly"
    BY <1>1, <1>7, <1>9 DEF SaveInv, Visual
  <2>3. Answer(u, StartRefresh(u), H, A) /\ Frame(u, StartRefresh(u))
          /\ StartRefresh(u).pending = "Refresh"
    BY <1>9, <2>2, RefreshOn DEF SaveInv
  <2> QED BY <1>10, <2>1, <2>3
<1>12. CASE Row(c) /\ ~RowMoveSaveCommits(o.save)
  <2> DEFINE v == [u EXCEPT !.cutoff = FALSE]
  <2>1. ExactTargetSaved(c, o) = BeginRollback(v)
    BY <1>3, <1>12
  <2>2. /\ v \in Transition /\ Kin(u, v) /\ Counts(u, v) /\ v.cutoff = FALSE
        /\ v.phase = u.phase /\ v.failed = u.failed /\ v.hideDone = u.hideDone
        /\ v.focusLost = u.focusLost /\ v.focus = u.focus /\ v.pending = u.pending
        /\ v.ack = u.ack /\ v.out = u.out
    BY <1>6 DEF Transition, Kin, Counts
  <2> HIDE DEF v
  <2>3. Sound(v, H)
    BY <1>8, <2>2 DEF Sound, Kin, Counts, Visual, Follower
  <2>4. Undoable(v, H, A)
    BY <1>1, <1>7, <1>9, <1>12, <2>2, <2>3 DEF Undoable, Between, SaveInv, Counts, Kin, Row, Piece
  <2>5. Undone(v, BeginRollback(v), H, A)
    BY <2>4, BeginRollbackFacts
  <2>6. Undone(c, BeginRollback(v), H, A)
    BY <1>7, <2>2, <2>5 DEF Undone, Answer, Kin
  <2>7. SaveRefused(o)
    BY <1>1, <1>12 DEF SaveRefused
  <2>8. BeginRollback(v).pending # "SaveExactTarget"
    BY <2>6 DEF Undone, Answer, TransitionInv, PendingInv, PhaseInv, SaveInv, Awaits, None
  <2> QED BY <1>1, <2>1, <2>6, <2>7, <2>8 DEF Undone, Step, KeptBy, SaveInv
<1>13. CASE ~Row(c) /\ c.dismissed
  <2> DEFINE v == [u EXCEPT !.resume = "SaveExactTarget"]
  <2>1. ExactTargetSaved(c, o) = Emit(v, "Hide")
    BY <1>3, <1>13
  <2>2. "SaveExactTarget" \in Phase
    BY DEF Phase
  <2>3. /\ v \in Transition /\ Kin(u, v) /\ Counts(u, v) /\ v.cutoff = u.cutoff
        /\ v.phase = u.phase /\ v.failed = u.failed /\ v.hideDone = u.hideDone
        /\ v.focusLost = u.focusLost /\ v.focus = u.focus /\ v.pending = u.pending
        /\ v.ack = u.ack /\ v.out = u.out /\ v.resume = "SaveExactTarget"
    BY <1>6, <2>2 DEF Transition, Kin, Counts
  <2> HIDE DEF v
  <2>4. Sound(v, H)
    BY <1>8, <2>3 DEF Sound, Kin, Counts, Visual, Follower
  <2>5. SaveInv(v, A)
    BY <1>9, <2>3 DEF SaveInv, Kin, Counts, AllThere, Visual, Follower
  <2>6. Between(v, H) /\ v.dismissed /\ v.resume = v.phase /\ PhaseInv(v, A, o.kind)
    BY <1>7, <1>9, <1>13, <2>3, <2>4, <2>5 DEF Between, Kin, PhaseInv, Forward, Backward, TargetBack,
         PopupBack, SwitchBack, Last
  <2>7. /\ Answer(v, Emit(v, "Hide"), H, A) /\ Frame(v, Emit(v, "Hide"))
        /\ Emit(v, "Hide").pending = "Hide" /\ Emit(v, "Hide").phase = v.phase
    BY <2>6, HideAsked
  <2>8. Answer(u, Emit(v, "Hide"), H, A)
    BY <2>3, <2>7 DEF Answer, Kin
  <2> QED BY <1>1, <1>7, <1>9, <2>1, <2>3, <2>5, <2>7, <2>8 DEF Step, Answer, Frame, Kin, KeptBy, SaveInv,
           Follower, Visual
<1> QED BY <1>11, <1>12, <1>13


\* The failure is reported to a user who is there.
LEMMA ReportFacts ==
  ASSUME NEW c, NEW H, NEW A, Between(c, H), ~c.dismissed, c.failed, Showable(c, A),
         Visual(c) => c.focusLost, c.focusLost \/ c.focus = 0
  PROVE  LET u == Enter(c, "FailureReport", "ReportFailure")
         IN /\ Answer(c, u, H, A) /\ Frame(c, u) /\ u.phase = "FailureReport"
            /\ u.pending = "ReportFailure"
<1> DEFINE u == Enter(c, "FailureReport", "ReportFailure")
<1>1. /\ c \in Transition /\ c.pending = None
      /\ "FailureReport" \in Phase \ {"Idle"} /\ "ReportFailure" \in EffectKind
  BY DEF Between, Sound, Phase, EffectKind
<1>2. /\ u \in Transition /\ Frame(c, u) /\ Counts(c, u)
      /\ u.phase = "FailureReport" /\ u.pending = "ReportFailure" /\ u.out = Awaiting(u)
  BY <1>1, EnterFacts
<1> HIDE DEF u
<1>3. Sound(u, H)
  BY <1>1, <1>2 DEF Between, Sound, Frame, Counts, Visual, Follower
<1>4. PendingInv(u) /\ \A p \in Piece : u.pending # MoveKind[p]
  BY <1>2 DEF Between, PendingInv, Frame, Piece, MoveKind, Awaits
<1>5. LastInv(u, A, u.pending)
  BY <1>2 DEF LastInv, Showable, Frame, Counts, AllThere, AllSettled, Settled, Visual, Follower
<1>6. TransitionInv(u, H, A)
  BY <1>2, <1>3, <1>4, <1>5 DEF TransitionInv, PhaseInv,
       Forward, Backward, TargetBack, PopupBack, SwitchBack, Last
<1> QED BY <1>2, <1>4, <1>6 DEF Answer, Kin, Frame, Between, u

\* All but what says how a transition went.
Renamed(c, u) ==
  /\ u \in Transition /\ u.phase = c.phase /\ Kin(c, u) /\ Counts(c, u)
  /\ u.lost = c.lost /\ u.cutoff = c.cutoff /\ u.hideDone = c.hideDone
  /\ u.focus = c.focus /\ u.pending = c.pending /\ u.ack = c.ack /\ u.out = c.out
  /\ c.failed => u.failed

LEMMA RenamedLast ==
  ASSUME NEW c, NEW u, NEW H, NEW A, NEW kind, Between(c, H), c.phase \in Last,
         LastInv(c, A, kind), Renamed(c, u),
         u.focusLost = c.focusLost \/ (c.phase = "FocusRestore" /\ u.failed)
  PROVE  /\ Between(u, H) /\ LastInv(u, A, kind) /\ (KeptBy(u) <=> KeptBy(c))
         /\ \A o, x : Step(u, o, x, H, A) => Step(c, o, x, H, A)
<1>1. u.failed => u.failed \in BOOLEAN
  OBVIOUS
<1>2. Sound(u, H)
  BY DEF Between, Sound, Renamed, Kin, Counts, Visual, Follower
<1>3. Between(u, H)
  BY <1>2 DEF Between, Renamed
<1>4. LastInv(u, A, kind)
  BY DEF LastInv, Between, Renamed, Kin, Counts, AllThere, AllSettled, Settled, Visual, Follower
<1>5. KeptBy(u) <=> KeptBy(c)
  BY DEF KeptBy, Between, Renamed, Kin, Visual
<1>6. ASSUME NEW o, NEW x, Step(u, o, x, H, A)
      PROVE  Step(c, o, x, H, A)
  BY <1>5, <1>6 DEF Step, Answer, Renamed, Kin
<1> QED BY <1>3, <1>4, <1>5, <1>6

LEMMA RefreshedStep ==
  ASSUME NEW c, NEW o, NEW H, NEW A, Answered(c, o, H, A), c.phase = "RefreshModel"
  PROVE  Step(c, o, Refreshed(c, o), H, A)
<1> DEFINE b == c.failed \/ ~o.ok
           u == [c EXCEPT !.failed = b]
<1>1. /\ Between(c, H) /\ c \in Transition /\ c.mode \in Mode /\ LastInv(c, A, o.kind)
      /\ o.kind = "Refresh" /\ c.phase \in Last /\ b \in BOOLEAN
  BY DEF Answered, Between, Sound, Transition, PhaseInv, Awaits, Last
<1>2. Renamed(c, u) /\ u.focusLost = c.focusLost /\ u.resume = c.resume /\ u.failed = b
        /\ u.refresh = c.refresh
  BY <1>1 DEF Transition, Renamed, Kin, Counts
<1>3. Refreshed(c, o) =
        CASE Row(c) /\ ~o.ok /\ c.refresh < Attempts
                  -> StartRefresh([u EXCEPT !.refresh = @ + 1])
          [] Visual(c) \/ (Row(c) /\ (o.ok \/ c.refresh >= Attempts))
                  -> AcknowledgeTerminal(u)
          [] c.mode = "MoveAndFollow" /\ c.dismissed
                  -> IF c.hideDone THEN AcknowledgeTerminal(u)
                     ELSE Emit([u EXCEPT !.resume = "RefreshModel"], "Hide")
          [] c.mode = "MoveAndFollow" /\ ~c.dismissed
                  -> IF u.failed THEN Enter(u, "FailureReport", "ReportFailure")
                     ELSE RestoreFocus(u)
  BY DEF Refreshed
<1> HIDE DEF u, b
<1>4. /\ Between(u, H) /\ LastInv(u, A, o.kind)
      /\ \A x : Step(u, o, x, H, A) => Step(c, o, x, H, A)
  BY <1>1, <1>2, RenamedLast
<1>5. u.mode = c.mode /\ u.phase = "RefreshModel" /\ u.dismissed = c.dismissed
        /\ u.hideDone = c.hideDone /\ ~u.focusLost /\ ~u.ack /\ u.focus = 0
  BY <1>1, <1>2, <1>4 DEF Renamed, Kin, LastInv, Between, Sound
<1>6. CASE Row(c) /\ ~o.ok /\ c.refresh < Attempts
  <2> DEFINE v == [u EXCEPT !.refresh = @ + 1]
  <2>1. Refreshed(c, o) = StartRefresh(v)
    <3>1. c.refresh \in Nat /\ Attempts \in Nat
      BY <1>1, PickerAssumption DEF Transition
    <3>2. ~(c.refresh >= Attempts) /\ ~Visual(c) /\ c.mode # "MoveAndFollow"
      BY <1>6, <3>1 DEF Visual, Row
    <3> HIDE DEF v
    <3>3. Refreshed(c, o) = StartRefresh([u EXCEPT !.refresh = @ + 1])
      BY <1>3, <1>6, <3>2
    <3> QED BY <3>3 DEF v
  <2>2. u.refresh + 1 \in 0..Attempts
    BY <1>1, <1>2, <1>6, PickerAssumption DEF Transition
  <2>3. Renamed(u, v) /\ v.focusLost = u.focusLost /\ v.failed = u.failed
    BY <1>2, <2>2 DEF Transition, Renamed, Kin, Counts
  <2> HIDE DEF v
  <2>4. /\ Between(v, H) /\ LastInv(v, A, o.kind)
        /\ \A x : Step(v, o, x, H, A) => Step(u, o, x, H, A)
    BY <1>4, <1>5, <2>3, RenamedLast DEF Last
  <2>5. v.phase = "RefreshModel" /\ v.mode = "RowMoveOnly"
    BY <1>5, <1>6, <2>3 DEF Renamed, Kin, Row
  <2>6. ~v.focusLost /\ (v.cutoff => ~Visual(v) /\ AllThere(v, A))
          /\ (~v.cutoff => v.failed /\ AllSettled(v))
    BY <2>4, <2>5 DEF LastInv, Visual
  <2>7. /\ Answer(v, StartRefresh(v), H, A) /\ Frame(v, StartRefresh(v))
        /\ StartRefresh(v).phase = "RefreshModel" /\ StartRefresh(v).pending = "Refresh"
    BY <2>4, <2>5, <2>6, RefreshOn
  <2> HIDE DEF v
  <2>8. Step(v, o, StartRefresh(v), H, A)
    BY <2>4, <2>5, <2>7 DEF Step, Frame, KeptBy, Visual, Between
  <2> QED BY <1>4, <2>1, <2>4, <2>8
<1>7. CASE \/ Visual(c) \/ (Row(c) /\ (o.ok \/ c.refresh >= Attempts))
           \/ (c.mode = "MoveAndFollow" /\ c.dismissed /\ c.hideDone)
  <2>1. Refreshed(c, o) = AcknowledgeTerminal(u)
    <3>1. c.refresh \in Nat /\ Attempts \in Nat
      BY <1>1, PickerAssumption DEF Transition
    <3> QED BY <1>3, <1>7, <3>1 DEF Visual, Row
  <2>2. u.mode = "MoveAndFollow" /\ u.dismissed => u.hideDone
    BY <1>5, <1>7 DEF Visual, Row
  <2>3. Answer(u, AcknowledgeTerminal(u), H, A)
    BY <1>4, <1>5, <2>2, AcknowledgeLast DEF Last
  <2>4. ~u.failed => ~Follower(u) /\ ~Visual(u)
    <3>1. CASE Visual(c)
      BY <1>4, <1>5, <3>1 DEF LastInv, Visual
    <3>2. CASE Row(c)
      BY <1>5, <3>2 DEF Row, Follower, Visual
    <3>3. CASE c.dismissed
      BY <1>4, <1>5, <3>3 DEF Between, Sound
    <3> QED BY <1>7, <3>1, <3>2, <3>3
  <2> QED BY <1>4, <2>1, <2>3, <2>4, AcknowledgeStep
<1>8. CASE c.mode = "MoveAndFollow" /\ c.dismissed /\ ~c.hideDone
  <2> DEFINE v == [u EXCEPT !.resume = "RefreshModel"]
             x == Emit(v, "Hide")
  <2>1. Refreshed(c, o) = x
    BY <1>3, <1>8 DEF Visual, Row
  <2>2. "RefreshModel" \in Phase
    BY DEF Phase
  <2>3. Renamed(u, v) /\ v.focusLost = u.focusLost /\ v.resume = "RefreshModel"
    BY <1>2, <2>2 DEF Transition, Renamed, Kin, Counts
  <2> HIDE DEF v
  <2>4. /\ Between(v, H) /\ LastInv(v, A, o.kind)
        /\ \A y : Step(v, o, y, H, A) => Step(u, o, y, H, A)
    BY <1>4, <1>5, <2>3, RenamedLast DEF Last
  <2>5. v.dismissed /\ v.resume = v.phase /\ v.phase = "RefreshModel" /\ v.failed
    BY <1>5, <1>8, <2>3, <2>4 DEF Renamed, Kin, Between, Sound
  <2>6. PhaseInv(v, A, o.kind)
    BY <2>4, <2>5 DEF PhaseInv, Forward, Backward, TargetBack, PopupBack, SwitchBack
  <2>7. /\ Answer(v, x, H, A) /\ Frame(v, x) /\ x.phase = v.phase /\ x.pending = "Hide"
    BY <2>4, <2>5, <2>6, HideAsked
  <2> HIDE DEF x
  <2>8. Step(v, o, x, H, A)
    BY <2>4, <2>5, <2>7 DEF Step, Frame, KeptBy, Visual, Between
  <2> QED BY <1>4, <2>1, <2>4, <2>8
<1>9. CASE c.mode = "MoveAndFollow" /\ ~c.dismissed
  <2>1. Refreshed(c, o) = IF u.failed THEN Enter(u, "FailureReport", "ReportFailure")
                          ELSE RestoreFocus(u)
    BY <1>3, <1>9 DEF Visual, Row
  <2>2. Showable(u, A) /\ ~Visual(u) /\ ~u.dismissed /\ u.mode = "MoveAndFollow"
    BY <1>4, <1>5, <1>9 DEF Showable, Visual, Follower, LastInv
  <2>3. CASE u.failed
    <3> DEFINE x == Enter(u, "FailureReport", "ReportFailure")
    <3>1. /\ Answer(u, x, H, A) /\ Frame(u, x) /\ x.phase = "FailureReport"
          /\ x.pending = "ReportFailure"
      BY <1>4, <1>5, <2>2, <2>3, ReportFacts
    <3> HIDE DEF x
    <3>2. Step(u, o, x, H, A)
      BY <1>5, <2>2, <2>3, <3>1 DEF Step, Frame, KeptBy, Visual
    <3> QED BY <1>4, <2>1, <2>3, <3>2 DEF x
  <2>4. CASE ~u.failed
    <3> DEFINE x == RestoreFocus(u)
    <3>1. u.focus < Attempts
      BY <1>5, PickerAssumption
    <3>2. /\ Answer(u, x, H, A) /\ x.failed = u.failed /\ x.cutoff = u.cutoff
          /\ x.hideDone = u.hideDone /\ ~x.ack /\ x.phase = "FocusRestore"
          /\ x.pending = "ShowAndFocus"
      BY <1>4, <2>2, <3>1, RestoreFocusFacts
    <3> HIDE DEF x
    <3>3. Step(u, o, x, H, A)
      BY <1>5, <2>2, <2>4, <3>2 DEF Step, Answer, Kin, KeptBy, Visual
    <3> QED BY <1>4, <2>1, <2>4, <3>3 DEF x
  <2> QED BY <2>3, <2>4
<1>10. c.mode \in {"MoveAndFollow", "RowMoveOnly"} \/ Visual(c)
  BY <1>1 DEF Mode, Visual
<1>11. c.refresh \in Nat /\ Attempts \in Nat /\ o.ok \in BOOLEAN
  BY <1>1, PickerAssumption DEF Transition, Answered
<1> QED BY <1>6, <1>7, <1>8, <1>9, <1>10, <1>11 DEF Row

LEMMA FailureReportedStep ==
  ASSUME NEW c, NEW o, NEW H, NEW A, Answered(c, o, H, A), c.phase = "FailureReport"
  PROVE  Step(c, o, FailureReported(c), H, A)
<1>1. /\ Between(c, H) /\ c \in Transition /\ LastInv(c, A, o.kind)
      /\ o.kind = "ReportFailure" /\ c.phase \in Last
  BY DEF Answered, Between, Sound, PhaseInv, Awaits, Last
<1>2. c.failed /\ ~c.dismissed /\ Follower(c) /\ (Visual(c) => c.focusLost)
  BY <1>1 DEF LastInv, Between
<1>3. CASE c.dismissed \/ c.focusLost \/ c.quiet
  <2>1. FailureReported(c) = AcknowledgeTerminal(c)
    BY <1>3 DEF FailureReported
  <2>2. Answer(c, AcknowledgeTerminal(c), H, A)
    BY <1>1, <1>2, AcknowledgeLast
  <2> QED BY <1>1, <1>2, <2>1, <2>2, AcknowledgeStep
<1>4. CASE ~(c.dismissed \/ c.focusLost \/ c.quiet)
  <2> DEFINE u == RestoreFocus(c)
  <2>1. FailureReported(c) = u
    BY <1>4 DEF FailureReported
  <2>2. c.focus < Attempts /\ ~Visual(c)
    BY <1>1, <1>2, <1>4, PickerAssumption DEF Between, Sound
  <2>3. Showable(c, A)
    BY <1>1, <1>2, <2>2 DEF Showable, LastInv
  <2>4. /\ Answer(c, u, H, A) /\ u.failed = c.failed /\ u.cutoff = c.cutoff
        /\ u.hideDone = c.hideDone /\ ~u.ack /\ u.phase = "FocusRestore"
        /\ u.pending = "ShowAndFocus"
    BY <1>1, <1>2, <2>2, <2>3, RestoreFocusFacts
  <2> HIDE DEF u
  <2> QED BY <1>1, <1>2, <2>1, <2>2, <2>4 DEF Step, Answer, Kin, KeptBy, Visual
<1> QED BY <1>3, <1>4

LEMMA FocusRestoredStep ==
  ASSUME NEW c, NEW o, NEW H, NEW A, Answered(c, o, H, A), c.phase = "FocusRestore"
  PROVE  Step(c, o, FocusRestored(c, o), H, A)
<1>1. /\ Between(c, H) /\ c \in Transition /\ LastInv(c, A, o.kind)
      /\ o.kind = "ShowAndFocus" /\ c.phase \in Last
  BY DEF Answered, Between, Sound, PhaseInv, Awaits, Last
<1>2. ~c.dismissed /\ Follower(c) /\ Showable(c, A)
  BY <1>1 DEF LastInv, Between, Showable
<1>3. CASE o.ok
  <2>1. FocusRestored(c, o) = AcknowledgeTerminal(c)
    BY <1>3 DEF FocusRestored
  <2>2. Answer(c, AcknowledgeTerminal(c), H, A)
    BY <1>1, <1>2, AcknowledgeLast
  <2> QED BY <1>1, <1>2, <1>3, <2>1, <2>2, AcknowledgeStep
<1>4. CASE ~o.ok /\ c.focus < Attempts
  <2> DEFINE u == RestoreFocus(c)
  <2>1. FocusRestored(c, o) = u
    BY <1>4 DEF FocusRestored
  <2>2. /\ Answer(c, u, H, A) /\ u.failed = c.failed /\ u.cutoff = c.cutoff
        /\ u.hideDone = c.hideDone /\ ~u.ack /\ u.phase = "FocusRestore"
        /\ u.pending = "ShowAndFocus"
    BY <1>1, <1>2, <1>4, RestoreFocusFacts
  <2> HIDE DEF u
  <2> QED BY <1>1, <1>2, <2>1, <2>2 DEF Step, Answer, Kin, KeptBy, Visual
<1>5. CASE ~o.ok /\ ~(c.focus < Attempts)
  <2> DEFINE v == [c EXCEPT !.failed = TRUE, !.focusLost = TRUE]
             x == Enter(v, "FailureReport", "ReportFailure")
  <2>1. FocusRestored(c, o) = x
    BY <1>5 DEF FocusRestored
  <2>2. Renamed(c, v) /\ v.focusLost /\ v.failed
    BY <1>1 DEF Transition, Renamed, Kin, Counts
  <2> HIDE DEF v
  <2>3. /\ Between(v, H) /\ LastInv(v, A, o.kind)
        /\ \A y : Step(v, o, y, H, A) => Step(c, o, y, H, A)
    BY <1>1, <2>2, RenamedLast
  <2>4. Showable(v, A) /\ ~v.dismissed /\ v.phase = "FocusRestore" /\ ~v.ack
    BY <1>1, <1>2, <2>2, <2>3 DEF LastInv, Showable, Renamed, Kin, Between
  <2>5. /\ Answer(v, x, H, A) /\ Frame(v, x) /\ x.phase = "FailureReport"
        /\ x.pending = "ReportFailure"
    BY <2>2, <2>3, <2>4, ReportFacts
  <2> HIDE DEF x
  <2>6. Step(v, o, x, H, A)
    BY <2>2, <2>4, <2>5 DEF Step, Frame, KeptBy, Visual
  <2> QED BY <2>1, <2>3, <2>6
<1> QED BY <1>3, <1>4, <1>5 DEF Answered


-----------------------------------------------------------------------------
(* The handlers that put back. *)

LEMMA TurnMovable ==
  ASSUME NEW c, NEW p \in Piece, Turn(c, p), c.mode \in Mode
  PROVE  Movable(c, p)
BY DEF Turn, Movable, Visual, Row, Follower, Mode, Piece

\* Only what was read, or what is known of the target, changes.
LEMMA NotedUndoing ==
  ASSUME NEW c, NEW u, NEW H, NEW A, Undoing(c, H), Noted(c, u, H)
  PROVE  Undoing(u, H) /\ \A x : Undone(u, x, H, A) => Undone(c, x, H, A)
<1>1. Between(u, H)
  BY NotedBetween DEF Undoing
<1>2. Kin(c, u) /\ u.hideDone = c.hideDone
  BY DEF Noted, Touched, Kin
<1> QED BY <1>1, <1>2 DEF Undoing, Noted, Touched, Undone, Answer, Kin

LEMMA UnusableUndoing ==
  ASSUME NEW c, NEW H, NEW A, Undoing(c, H), c.mode # "VisualOnly",
         c.tries["back"]["popup"] = 0, c.tries["back"]["current"] = 0
  PROVE  Undone(c, ContinueRollbackAfterTarget(Unusable(c)), H, A)
<1> DEFINE u == Unusable(c)
<1>1. c \in Transition /\ NoDesktop \in Places
  BY DEF Undoing, Between, Sound, Places
<1>2. [c.seen EXCEPT !["target"] = NoDesktop] \in [Piece -> Places]
  BY <1>1 DEF Transition
<1>3. u \in Transition /\ Touched(c, u) /\ u.moved = c.moved /\ u.lost = TRUE
  BY <1>1, <1>2 DEF Unusable, Transition, Touched
<1> HIDE DEF u
<1>4. Noted(c, u, H)
  BY <1>3 DEF Noted, Undoing, Between, Sound
<1>5. Undoing(u, H) /\ \A x : Undone(u, x, H, A) => Undone(c, x, H, A)
  BY <1>4, NotedUndoing
<1>6. Undone(u, ContinueRollbackAfterTarget(u), H, A)
  BY <1>3, <1>5, AfterTarget DEF Settled, Touched
<1> QED BY <1>5, <1>6 DEF u

LEMMA SawBack ==
  ASSUME NEW c, NEW H, NEW A, NEW p \in Piece, NEW s \in Places, NEW m \in BOOLEAN,
         Undoing(c, H), Turn(c, p), m \/ p \in H
  PROVE  LET u == Saw(c, p, s, m)
         IN /\ Undoing(u, H) /\ Turn(u, p) /\ Touched(c, u) /\ u.moved[p] = m
            /\ u.lost = c.lost
            /\ \A x \in Piece \ {p} : u.moved[x] = c.moved[x]
            /\ \A x : Undone(u, x, H, A) => Undone(c, x, H, A)
<1> DEFINE u == Saw(c, p, s, m)
<1>1. c \in Transition /\ c.mode \in Mode
  BY DEF Undoing, Between, Sound, Transition
<1>2. /\ [c.moved EXCEPT ![p] = m] \in [Piece -> BOOLEAN]
      /\ [c.seen EXCEPT ![p] = s] \in [Piece -> Places]
      /\ c.moved \in [Piece -> BOOLEAN]
  BY <1>1 DEF Transition
<1>3. u \in Transition /\ Touched(c, u) /\ u.lost = c.lost
        /\ u.moved = [c.moved EXCEPT ![p] = m]
  BY <1>1, <1>2 DEF Transition, Touched, Saw
<1> HIDE DEF u
<1>4. u.moved[p] = m /\ \A x \in Piece \ {p} : u.moved[x] = c.moved[x]
  BY <1>2, <1>3
<1>5. Movable(c, p)
  BY <1>1, TurnMovable
<1>6. Noted(c, u, H)
  BY <1>3, <1>4, <1>5 DEF Noted, Undoing, Between, Sound
<1>7. Undoing(u, H) /\ \A x : Undone(u, x, H, A) => Undone(c, x, H, A)
  BY <1>6, NotedUndoing
<1>8. Turn(u, p)
  BY <1>3, <1>4 DEF Turn, Touched, Settled, Row, Visual, Piece
<1> QED BY <1>3, <1>4, <1>7, <1>8 DEF u

\* What the handlers of the phases that put back may take for granted.
LEMMA BackwardPhases ==
  ASSUME NEW c, NEW o, NEW H, NEW A, Answered(c, o, H, A), c.phase \in Backward
  PROVE  /\ Undoing(c, H) /\ c \in Transition /\ c.mode \in Mode /\ ~KeptBy(c)
         /\ BackwardInv(c) /\ c.mode # "VisualOnly" /\ o.seen \in Places
         /\ c.phase \in TargetBack => Turn(c, "target") /\ c.tries["back"]["popup"] = 0
                                       /\ c.tries["back"]["current"] = 0
         /\ c.phase \in PopupBack => Turn(c, "popup") /\ Follower(c)
         /\ c.phase \in SwitchBack => Turn(c, "current") /\ Follower(c)
<1>1. /\ Between(c, H) /\ c \in Transition /\ c.mode \in Mode /\ BackwardInv(c)
      /\ o.seen \in Places
  BY DEF Answered, Between, Sound, Transition, PhaseInv
<1>2. Undoing(c, H) /\ ~KeptBy(c)
  BY <1>1 DEF Undoing, BackwardInv, KeptBy, Backward, TargetBack, PopupBack, SwitchBack
<1>3. c.phase \notin TargetBack => Follower(c)
  BY <1>1 DEF BackwardInv, Follower, Row, Mode
<1>4. c.phase \in TargetBack => c.phase \notin SwitchBack
  BY DEF TargetBack, SwitchBack
<1>5. c.phase \in PopupBack => c.phase \notin TargetBack /\ c.phase \notin SwitchBack
  BY DEF TargetBack, PopupBack, SwitchBack
<1>6. c.phase \in TargetBack => Turn(c, "target") /\ c.tries["back"]["popup"] = 0
                                 /\ c.tries["back"]["current"] = 0
  BY <1>1, <1>4 DEF BackwardInv, Turn
<1>7. c.phase \in PopupBack => Turn(c, "popup")
  BY <1>1, <1>5 DEF BackwardInv, Turn
<1>8. c.phase \in SwitchBack => Turn(c, "current")
  BY <1>1, <1>4, <1>5 DEF BackwardInv, Turn
<1> QED BY <1>1, <1>2, <1>3, <1>4, <1>5, <1>6, <1>7, <1>8 DEF BackwardInv

LEMMA RollbackTargetIssuedStep ==
  ASSUME NEW c, NEW o, NEW H, NEW A, Answered(c, o, H, A),
         c.phase = "RollbackTargetIssue"
  PROVE  Step(c, o, RollbackTargetIssued(c, o), H, A)
<1>1. /\ Undoing(c, H) /\ ~KeptBy(c) /\ c.mode # "VisualOnly" /\ Turn(c, "target")
      /\ c.tries["back"]["popup"] = 0 /\ c.tries["back"]["current"] = 0
      /\ "target" \in Piece
  BY BackwardPhases DEF Backward, TargetBack, Piece
<1>2. Undone(c, Verify(c, "target", "back"), H, A)
  BY <1>1, VerifyBack
<1>3. Undone(c, ContinueRollbackAfterTarget(Unusable(c)), H, A)
  BY <1>1, UnusableUndoing
<1> QED BY <1>1, <1>2, <1>3, ProceedsStep DEF RollbackTargetIssued, Proceeds

LEMMA RollbackPopupIssuedStep ==
  ASSUME NEW c, NEW o, NEW H, NEW A, Answered(c, o, H, A),
         c.phase = "RollbackPopupIssue"
  PROVE  Step(c, o, Verify(c, "popup", "back"), H, A)
<1>1. Undoing(c, H) /\ ~KeptBy(c) /\ Turn(c, "popup") /\ "popup" \in Piece
  BY BackwardPhases DEF Backward, PopupBack, Piece
<1>2. Undone(c, Verify(c, "popup", "back"), H, A)
  BY <1>1, VerifyBack
<1> QED BY <1>1, <1>2, ProceedsStep DEF Proceeds

LEMMA RollbackSwitchIssuedStep ==
  ASSUME NEW c, NEW o, NEW H, NEW A, Answered(c, o, H, A),
         c.phase = "RollbackSwitchIssue"
  PROVE  Step(c, o, Verify(c, "current", "back"), H, A)
<1>1. Undoing(c, H) /\ ~KeptBy(c) /\ Turn(c, "current") /\ "current" \in Piece
  BY BackwardPhases DEF Backward, SwitchBack, Piece
<1>2. Undone(c, Verify(c, "current", "back"), H, A)
  BY <1>1, VerifyBack
<1> QED BY <1>1, <1>2, ProceedsStep DEF Proceeds

LEMMA RollbackTargetReadStep ==
  ASSUME NEW c, NEW o, NEW H, NEW A, Answered(c, o, H, A),
         c.phase = "RollbackTargetVerify"
  PROVE  Step(c, o, RollbackTargetRead(c, o), H, A)
<1> DEFINE b == o.seen # c.origin["target"]
           u == Saw(c, "target", o.seen, b)
<1>1. /\ Undoing(c, H) /\ ~KeptBy(c) /\ c.mode # "VisualOnly" /\ Turn(c, "target")
      /\ c.tries["back"]["popup"] = 0 /\ c.tries["back"]["current"] = 0
      /\ "target" \in Piece /\ c \in Transition /\ o.seen \in Places /\ b \in BOOLEAN
  BY BackwardPhases DEF Backward, TargetBack, Piece
<1>2. o.kind = "ReadTarget" /\ (b \/ "target" \in H)
  BY <1>1 DEF Answered, Awaits, ReadKind, Piece
<1> HIDE DEF b
<1>3. /\ Undoing(u, H) /\ Turn(u, "target") /\ Touched(c, u) /\ u.moved["target"] = b
      /\ \A x : Undone(u, x, H, A) => Undone(c, x, H, A)
  BY <1>1, <1>2, SawBack
<1>4. RollbackTargetRead(c, o) =
        CASE ~o.match -> ContinueRollbackAfterTarget(Unusable(c))
          [] o.match /\ u.moved["target"] /\ c.tries["back"]["target"] < Attempts
               -> Issue(u, "target", "back")
          [] OTHER -> ContinueRollbackAfterTarget(u)
  BY DEF RollbackTargetRead, Saw, b
<1> HIDE DEF u
<1>5. CASE ~o.match
  <2>1. Undone(c, ContinueRollbackAfterTarget(Unusable(c)), H, A)
    BY <1>1, UnusableUndoing
  <2> QED BY <1>1, <1>4, <1>5, <2>1, ProceedsStep DEF Proceeds
<1>6. CASE o.match /\ u.moved["target"] /\ c.tries["back"]["target"] < Attempts
  <2>1. Undone(u, Issue(u, "target", "back"), H, A)
    BY <1>1, <1>3, <1>6, IssueBack DEF Touched
  <2> QED BY <1>1, <1>3, <1>4, <1>6, <2>1, ProceedsStep DEF Proceeds
<1>7. CASE o.match /\ ~(u.moved["target"] /\ c.tries["back"]["target"] < Attempts)
  <2>1. c.tries["back"]["target"] \in 0..Attempts
    BY <1>1 DEF Transition, Ways
  <2>2. Settled(u, "target")
    BY <1>3, <1>7, <2>1, PickerAssumption DEF Settled, Touched
  <2>3. Undone(u, ContinueRollbackAfterTarget(u), H, A)
    BY <1>1, <1>3, <2>2, AfterTarget DEF Touched
  <2> QED BY <1>1, <1>3, <1>4, <1>7, <2>3, ProceedsStep DEF Proceeds
<1> QED BY <1>5, <1>6, <1>7 DEF Answered

\* Giving up on a piece is noted, and changes nothing else.
LEMMA Quieted ==
  ASSUME NEW c, NEW H, NEW A, Undoing(c, H)
  PROVE  LET u == [c EXCEPT !.quiet = TRUE]
         IN /\ Undoing(u, H) /\ u.mode = c.mode /\ u.tries = c.tries /\ u.moved = c.moved
            /\ u.lost = c.lost
            /\ \A x : Undone(u, x, H, A) => Undone(c, x, H, A)
<1> DEFINE u == [c EXCEPT !.quiet = TRUE]
<1>1. c \in Transition
  BY DEF Undoing, Between, Sound
<1>2. u \in Transition /\ Touched(c, u) /\ u.moved = c.moved /\ u.lost = c.lost
  BY <1>1 DEF Transition, Touched
<1> HIDE DEF u
<1>3. Noted(c, u, H)
  BY <1>2 DEF Noted, Undoing, Between, Sound
<1> QED BY <1>2, <1>3, NotedUndoing DEF Touched, u

LEMMA RollbackPopupReadStep ==
  ASSUME NEW c, NEW o, NEW H, NEW A, Answered(c, o, H, A),
         c.phase = "RollbackPopupVerify"
  PROVE  Step(c, o, RollbackPopupRead(c, o), H, A)
<1> DEFINE b == o.seen # c.origin["current"]
           u == Saw(c, "popup", o.seen, b)
           v == [u EXCEPT !.quiet = TRUE]
<1>1. /\ Undoing(c, H) /\ ~KeptBy(c) /\ Turn(c, "popup") /\ Follower(c)
      /\ "popup" \in Piece /\ c \in Transition /\ o.seen \in Places /\ b \in BOOLEAN
  BY BackwardPhases DEF Backward, PopupBack, Piece
<1>2. o.kind = "ReadPopup" /\ (b \/ "popup" \in H)
  BY <1>1 DEF Answered, Awaits
<1> HIDE DEF b
<1>3. /\ Undoing(u, H) /\ Turn(u, "popup") /\ Touched(c, u) /\ u.moved["popup"] = b
      /\ \A x : Undone(u, x, H, A) => Undone(c, x, H, A)
  <2>1. ASSUME NEW s \in Places, s = o.seen
        PROVE  LET w == Saw(c, "popup", s, b)
               IN /\ Undoing(w, H) /\ Turn(w, "popup") /\ Touched(c, w) /\ w.moved["popup"] = b
                  /\ \A x : Undone(w, x, H, A) => Undone(c, x, H, A)
    BY <1>1, <1>2, SawBack
  <2> QED  BY <1>1, <2>1
<1>4. RollbackPopupRead(c, o) =
        CASE ~u.moved["popup"] -> ContinueRollbackAfterPopup(u)
          [] u.moved["popup"] /\ c.tries["back"]["popup"] < Attempts
               -> Issue(u, "popup", "back")
          [] OTHER -> ContinueRollbackAfterPopup(v)
  BY DEF RollbackPopupRead, Saw, b
<1> HIDE DEF u
<1>5. Follower(u) /\ Settled(u, "target") /\ u.tries["back"]["current"] = 0
  BY <1>1, <1>3 DEF Touched, Follower, Turn
<1>6. CASE ~u.moved["popup"]
  <2>1. Undone(u, ContinueRollbackAfterPopup(u), H, A)
    BY <1>3, <1>5, <1>6, AfterPopup DEF Settled
  <2> QED BY <1>1, <1>3, <1>4, <1>6, <2>1, ProceedsStep DEF Proceeds
<1>7. CASE u.moved["popup"] /\ c.tries["back"]["popup"] < Attempts
  <2>1. Undone(u, Issue(u, "popup", "back"), H, A)
    BY <1>1, <1>3, <1>7, IssueBack DEF Touched
  <2> QED BY <1>1, <1>3, <1>4, <1>7, <2>1, ProceedsStep DEF Proceeds
<1>8. CASE u.moved["popup"] /\ ~(c.tries["back"]["popup"] < Attempts)
  <2>1. c.tries["back"]["popup"] \in 0..Attempts
    BY <1>1 DEF Transition, Ways
  <2>2. u.tries["back"]["popup"] = Attempts
    BY <1>3, <1>8, <2>1, PickerAssumption DEF Touched
  <2>3. /\ Undoing(v, H) /\ v.mode = u.mode /\ v.tries = u.tries /\ v.moved = u.moved
        /\ v.lost = u.lost /\ \A x : Undone(v, x, H, A) => Undone(u, x, H, A)
    BY <1>3, Quieted
  <2> HIDE DEF v
  <2>4. Settled(v, "popup") /\ Settled(v, "target") /\ Follower(v)
          /\ v.tries["back"]["current"] = 0
    BY <1>5, <2>2, <2>3 DEF Settled, Follower
  <2>5. Undone(v, ContinueRollbackAfterPopup(v), H, A)
    BY <2>3, <2>4, AfterPopup
  <2> QED BY <1>1, <1>3, <1>4, <1>8, <2>3, <2>5, ProceedsStep DEF Proceeds
<1> QED BY <1>6, <1>7, <1>8

LEMMA OriginReadStep ==
  ASSUME NEW c, NEW o, NEW H, NEW A, Answered(c, o, H, A), c.phase = "OriginVerify"
  PROVE  Step(c, o, OriginRead(c, o), H, A)
<1> DEFINE b == o.seen # c.origin["current"]
           u == Saw(c, "current", o.seen, b)
           v == [u EXCEPT !.quiet = TRUE]
<1>1. /\ Undoing(c, H) /\ ~KeptBy(c) /\ Turn(c, "current") /\ c.mode # "VisualOnly"
      /\ "current" \in Piece /\ c \in Transition /\ o.seen \in Places /\ b \in BOOLEAN
  BY BackwardPhases DEF Backward, SwitchBack, Piece
<1>2. o.kind = "ReadCurrent" /\ (b \/ "current" \in H)
  BY <1>1 DEF Answered, Awaits, ReadKind, Piece
<1> HIDE DEF b
<1>3. /\ Undoing(u, H) /\ Turn(u, "current") /\ Touched(c, u) /\ u.moved["current"] = b
      /\ \A x : Undone(u, x, H, A) => Undone(c, x, H, A)
  BY <1>1, <1>2, SawBack
<1>4. OriginRead(c, o) =
        CASE ~u.moved["current"] -> StartRefresh(u)
          [] u.moved["current"] /\ c.tries["back"]["current"] < Attempts
               -> Issue(u, "current", "back")
          [] OTHER -> StartRefresh(v)
  BY DEF OriginRead, Saw, b
<1> HIDE DEF u
<1>5. Settled(u, "target") /\ Settled(u, "popup") /\ u.mode # "VisualOnly"
  BY <1>1, <1>3 DEF Touched, Turn
<1>6. CASE ~u.moved["current"]
  <2>1. AllSettled(u)
    BY <1>5, <1>6 DEF AllSettled, Settled, Piece
  <2>2. Undone(u, StartRefresh(u), H, A)
    BY <1>3, <1>5, <2>1, RefreshBack
  <2> QED BY <1>1, <1>3, <1>4, <1>6, <2>2, ProceedsStep DEF Proceeds
<1>7. CASE u.moved["current"] /\ c.tries["back"]["current"] < Attempts
  <2>1. Undone(u, Issue(u, "current", "back"), H, A)
    BY <1>1, <1>3, <1>7, IssueBack DEF Touched
  <2> QED BY <1>1, <1>3, <1>4, <1>7, <2>1, ProceedsStep DEF Proceeds
<1>8. CASE u.moved["current"] /\ ~(c.tries["back"]["current"] < Attempts)
  <2>1. c.tries["back"]["current"] \in 0..Attempts
    BY <1>1 DEF Transition, Ways
  <2>2. u.tries["back"]["current"] = Attempts
    BY <1>3, <1>8, <2>1, PickerAssumption DEF Touched
  <2>3. /\ Undoing(v, H) /\ v.mode = u.mode /\ v.tries = u.tries /\ v.moved = u.moved
        /\ v.lost = u.lost /\ \A x : Undone(v, x, H, A) => Undone(u, x, H, A)
    BY <1>3, Quieted
  <2> HIDE DEF v
  <2>4. AllSettled(v) /\ v.mode # "VisualOnly"
    BY <1>5, <2>2, <2>3 DEF AllSettled, Settled, Piece
  <2>5. Undone(v, StartRefresh(v), H, A)
    BY <2>3, <2>4, RefreshBack
  <2> QED BY <1>1, <1>3, <1>4, <1>8, <2>3, <2>5, ProceedsStep DEF Proceeds
<1> QED BY <1>6, <1>7, <1>8


LEMMA AnsweredStep ==
  ASSUME NEW c, NEW o, NEW H, NEW A, Answered(c, o, H, A),
         o.save \in {"Saved", "NotTracked", "FlushFailed", "Failed"}
  PROVE  Step(c, o, InPhase(c, o), H, A)
<1>1. c.phase \in Phase \ {"Idle"}
  BY DEF Answered, Between, Sound, Transition
<1>2. CASE c.phase = "TargetIssue"
  BY <1>2, TargetIssuedStep DEF InPhase
<1>3. CASE c.phase = "TargetVerify"
  BY <1>3, TargetReadStep DEF InPhase
<1>4. CASE c.phase = "IdentityVerifyBeforePopup"
  BY <1>4, ValidatedBeforePopupStep DEF InPhase
<1>5. CASE c.phase = "PopupIssue"
  BY <1>5, PopupIssuedStep DEF InPhase
<1>6. CASE c.phase = "PopupVerify"
  BY <1>6, PopupReadStep DEF InPhase
<1>7. CASE c.phase = "IdentityVerifyBeforeSwitch"
  BY <1>7, ValidatedBeforeSwitchStep DEF InPhase
<1>8. CASE c.phase = "SwitchIssue"
  BY <1>8, SwitchIssuedStep DEF InPhase
<1>9. CASE c.phase = "DestinationVerify"
  <2>1. InPhase(c, o) = IF o.kind = "ReadCurrent" THEN DestinationCurrentRead(c, o)
                        ELSE DestinationPopupRead(c, o)
    BY <1>9 DEF InPhase
  <2>2. o.kind \in {"ReadCurrent", "ReadPopup"}
    BY <1>9 DEF Answered, Awaits
  <2> QED BY <1>9, <2>1, <2>2, DestinationCurrentReadStep, DestinationPopupReadStep
<1>10. CASE c.phase = "PublishVisualAssignment"
  BY <1>10, PublishedStep DEF InPhase
<1>11. CASE c.phase = "RollbackTargetIssue"
  BY <1>11, RollbackTargetIssuedStep DEF InPhase
<1>12. CASE c.phase = "RollbackTargetVerify"
  BY <1>12, RollbackTargetReadStep DEF InPhase
<1>13. CASE c.phase = "RollbackPopupIssue"
  BY <1>13, RollbackPopupIssuedStep DEF InPhase
<1>14. CASE c.phase = "RollbackPopupVerify"
  BY <1>14, RollbackPopupReadStep DEF InPhase
<1>15. CASE c.phase = "RollbackSwitchIssue"
  BY <1>15, RollbackSwitchIssuedStep DEF InPhase
<1>16. CASE c.phase = "OriginVerify"
  BY <1>16, OriginReadStep DEF InPhase
<1>17. CASE c.phase = "SaveExactTarget"
  BY <1>17, ExactTargetSavedStep DEF InPhase
<1>18. CASE c.phase = "RefreshModel"
  BY <1>18, RefreshedStep DEF InPhase
<1>19. CASE c.phase = "FailureReport"
  BY <1>19, FailureReportedStep DEF InPhase
<1>20. CASE c.phase = "FocusRestore"
  BY <1>20, FocusRestoredStep DEF InPhase
<1> QED BY <1>1, <1>2, <1>3, <1>4, <1>5, <1>6, <1>7, <1>8, <1>9, <1>10, <1>11, <1>12, <1>13,
           <1>14, <1>15, <1>16, <1>17, <1>18, <1>19, <1>20
        DEF Phase, Piece, Issuing, Verifying

\* The popup is hidden in the middle of a phase that puts back.
LEMMA HiddenBackward ==
  ASSUME NEW c, NEW H, NEW A, Undoing(c, H), BackwardInv(c), c.phase \in Backward,
         c.resume = c.phase
  PROVE  Undone(c, ResumeAfterHide(c), H, A)
<1>1. c \in Transition /\ c.mode \in Mode /\ c.mode # "VisualOnly"
  BY DEF Undoing, Between, Sound, Transition, BackwardInv
<1>2. CASE c.phase \in TargetBack
  <2>1. Turn(c, "target") /\ "target" \in Piece /\ c.tries["back"]["popup"] = 0
          /\ c.tries["back"]["current"] = 0
    BY <1>1, <1>2 DEF BackwardInv, Turn, TargetBack, SwitchBack, Piece
  <2>2. ResumeAfterHide(c) = IF ~c.lost /\ (c.moved["target"] \/ c.verify)
                             THEN Verify(c, "target", "back")
                             ELSE ContinueRollbackAfterTarget(c)
    BY <1>2 DEF ResumeAfterHide, TargetBack
  <2>3. CASE ~c.lost /\ (c.moved["target"] \/ c.verify)
    BY <2>1, <2>2, <2>3, VerifyBack
  <2>4. CASE ~(~c.lost /\ (c.moved["target"] \/ c.verify))
    BY <1>1, <2>1, <2>2, <2>4, AfterTarget DEF Settled
  <2> QED BY <2>3, <2>4
<1>3. CASE c.phase \in PopupBack
  <2>1. Turn(c, "popup") /\ "popup" \in Piece /\ Follower(c) /\ Settled(c, "target")
          /\ c.tries["back"]["current"] = 0
    BY <1>1, <1>3 DEF BackwardInv, Turn, TargetBack, PopupBack, SwitchBack, Piece, Follower,
         Row, Mode
  <2>2. ResumeAfterHide(c) = IF ~c.sticky /\ (c.moved["popup"] \/ c.verify)
                             THEN Verify(c, "popup", "back")
                             ELSE ContinueRollbackAfterPopup(c)
    BY <1>3 DEF ResumeAfterHide, PopupBack
  <2>3. CASE ~c.sticky /\ (c.moved["popup"] \/ c.verify)
    BY <2>1, <2>2, <2>3, VerifyBack
  <2>4. CASE ~(~c.sticky /\ (c.moved["popup"] \/ c.verify))
    <3>1. Settled(c, "popup")
      BY <2>4 DEF Settled, Undoing, Between, Sound
    <3> QED BY <2>1, <2>2, <2>4, <3>1, AfterPopup
  <2> QED BY <2>3, <2>4
<1>4. CASE c.phase \in SwitchBack
  <2>1. Turn(c, "current") /\ "current" \in Piece /\ Settled(c, "target")
          /\ Settled(c, "popup")
    BY <1>1, <1>4 DEF BackwardInv, Turn, TargetBack, PopupBack, SwitchBack, Piece
  <2>2. ResumeAfterHide(c) = IF c.moved["current"] \/ c.verify
                             THEN Verify(c, "current", "back") ELSE StartRefresh(c)
    BY <1>4 DEF ResumeAfterHide, SwitchBack
  <2>3. CASE c.moved["current"] \/ c.verify
    BY <2>1, <2>2, <2>3, VerifyBack
  <2>4. CASE ~(c.moved["current"] \/ c.verify)
    <3>1. AllSettled(c)
      BY <2>1, <2>4 DEF AllSettled, Settled, Piece
    <3> QED BY <1>1, <2>2, <2>4, <3>1, RefreshBack
  <2> QED BY <2>3, <2>4
<1> QED BY <1>2, <1>3, <1>4 DEF Backward

LEMMA HiddenStep ==
  ASSUME NEW c, NEW o, NEW H, NEW A, Between(c, H), c.dismissed, c.resume = c.phase,
         PhaseInv(c, A, "Hide"), o.kind = "Hide"
  PROVE  Step(c, o, Hidden(c), H, A)
<1> DEFINE u == [c EXCEPT !.hideDone = TRUE]
<1>1. c \in Transition /\ c.failed /\ c.cancelled /\ Follower(c) /\ c.phase \in Phase \ {"Idle"}
  BY DEF Between, Sound, Transition
<1>2. /\ u \in Transition /\ Kin(c, u) /\ Counts(c, u) /\ u.seen = c.seen /\ u.phase = c.phase
      /\ u.lost = c.lost /\ u.cutoff = c.cutoff /\ u.hideDone = TRUE /\ u.failed = c.failed
      /\ u.focusLost = c.focusLost /\ u.focus = c.focus /\ u.pending = c.pending
      /\ u.ack = c.ack /\ u.out = c.out /\ u.resume = c.resume
  BY <1>1 DEF Transition, Kin, Counts
<1>3. Hidden(c) = IF c.cutoff /\ c.resume \notin {"RefreshModel", "FailureReport", "FocusRestore"}
                  THEN StartRefresh(u) ELSE ResumeAfterHide(u)
  BY DEF Hidden
<1> HIDE DEF u
<1>4. Sound(u, H)
  BY <1>1, <1>2 DEF Between, Sound, Kin, Counts, Visual, Follower
<1>5. Between(u, H) /\ Follower(u) /\ u.dismissed /\ u.failed /\ u.resume = u.phase
  BY <1>1, <1>2, <1>4 DEF Between, Kin, Follower
<1>6. KeptBy(u) <=> KeptBy(c)
  BY <1>2 DEF KeptBy, Kin, Visual
<1>7. ASSUME NEW x, Step(u, o, x, H, A)
      PROVE  Step(c, o, x, H, A)
  BY <1>2, <1>6, <1>7 DEF Step, Answer, Kin
<1>8. /\ c.phase \in Forward => ForwardInv(u, A, "Hide")
      /\ c.phase \in Backward => BackwardInv(u)
  BY <1>2 DEF PhaseInv, ForwardInv, BackwardInv, Kin, Counts, Visual, Row, Follower, Settled
<1>9. /\ c.phase = "SaveExactTarget" => SaveInv(u, A)
      /\ c.phase \in Last => LastInv(u, A, "Hide")
  BY <1>2 DEF PhaseInv, SaveInv, LastInv, Kin, Counts, Visual, Follower, AllThere, AllSettled,
       Settled
<1>10. CASE c.phase \in Forward
  <2>1. ~u.cutoff /\ Hidden(c) = BeginRollback(u)
    BY <1>2, <1>3, <1>8, <1>10 DEF ForwardInv, Forward, ResumeAfterHide
  <2>2. Noted(u, u, H) /\ \A p \in Piece : u.seen[p] = u.dest => p \in A
    BY <1>2, <1>4, <1>8, <1>10 DEF Noted, Touched, Sound, ForwardInv
  <2>3. Undone(u, BeginRollback(u), H, A) /\ ~KeptBy(u)
    BY <1>2, <1>5, <1>8, <1>10, <2>2, ForwardAgain
  <2> QED BY <1>7, <2>1, <2>3, ProceedsStep DEF Proceeds
<1>11. CASE c.phase \in Backward
  <2>1. ~u.cutoff /\ Hidden(c) = ResumeAfterHide(u)
    BY <1>2, <1>3, <1>8, <1>11 DEF BackwardInv
  <2>2. Undoing(u, H) /\ ~KeptBy(u)
    BY <1>2, <1>5, <1>8, <1>11 DEF Undoing, BackwardInv, KeptBy, Backward, TargetBack,
         PopupBack, SwitchBack
  <2>3. Undone(u, ResumeAfterHide(u), H, A)
    BY <1>2, <1>5, <1>8, <1>11, <2>2, HiddenBackward
  <2> QED BY <1>7, <2>1, <2>2, <2>3, ProceedsStep DEF Proceeds
<1>12. CASE c.phase = "SaveExactTarget"
  <2>1. SaveInv(u, A) /\ u.cutoff /\ Hidden(c) = StartRefresh(u)
    BY <1>2, <1>3, <1>9, <1>12 DEF SaveInv
  <2>2. u.phase # "FocusRestore" /\ ~u.focusLost /\ u.mode # "VisualOnly"
    BY <1>2, <1>12, <2>1 DEF SaveInv, Visual
  <2>3. /\ Answer(u, StartRefresh(u), H, A) /\ Frame(u, StartRefresh(u))
        /\ StartRefresh(u).phase = "RefreshModel" /\ StartRefresh(u).pending = "Refresh"
    BY <1>5, <2>1, <2>2, RefreshOn DEF SaveInv
  <2>4. Step(u, o, StartRefresh(u), H, A)
    BY <1>5, <2>1, <2>3 DEF Step, Frame, KeptBy, Between
  <2> QED BY <1>7, <2>1, <2>4
<1>13. CASE c.phase \in Last
  <2>1. Hidden(c) = AcknowledgeTerminal(u)
    BY <1>2, <1>3, <1>13 DEF Last, ResumeAfterHide
  <2>2. Answer(u, AcknowledgeTerminal(u), H, A)
    BY <1>2, <1>5, <1>9, <1>13, AcknowledgeLast
  <2> QED BY <1>5, <1>7, <2>1, <2>2, AcknowledgeStep
<1> QED BY <1>1, <1>10, <1>11, <1>12, <1>13 DEF Phase, Piece, Issuing, Verifying, Forward,
        Backward, TargetBack, PopupBack, SwitchBack, Last

-----------------------------------------------------------------------------
(* An observation is given to the reducer. *)

\* What an observation of the awaited effect may say.
Truthful(c, o, H, A) ==
  /\ o.seen \in Places /\ o.match \in BOOLEAN /\ o.invoked \in BOOLEAN /\ o.ok \in BOOLEAN
  /\ o.save \in {"Saved", "NotTracked", "FlushFailed", "Failed"}
  /\ \A p \in Piece :
       /\ o.kind = MoveKind[p] => o.invoked \/ c.before[p] \/ p \in H
       /\ o.kind = ReadKind[p] /\ o.seen = c.dest => p \in A
       /\ o.kind = ReadKind[p] /\ o.seen = c.origin[p] => p \in H
  /\ o.kind = "ReadPopup" /\ o.seen = c.origin["current"] => "popup" \in H
  /\ o.kind \in {"MoveTarget", "SwitchDesktop"} /\ o.invoked => o.match

\* Only the effect last returned, and the one awaited, differ.
Same(c, u) ==
  /\ u \in Transition /\ Frame(c, u) /\ Counts(c, u) /\ u.phase = c.phase

LEMMA SameKeeps ==
  ASSUME NEW c, NEW u, NEW H, NEW A, NEW kind, Same(c, u), Sound(c, H), PhaseInv(c, A, kind)
  PROVE  Sound(u, H) /\ PhaseInv(u, A, kind) /\ (KeptBy(u) <=> KeptBy(c)) /\ Kin(c, u)
<1>1. Sound(u, H)
  BY DEF Same, Sound, Frame, Counts, Visual, Follower
<1>2. u.phase \in Forward => ForwardInv(u, A, kind)
  BY DEF Same, PhaseInv, ForwardInv, Frame, Counts, Visual, Row, Follower
<1>3. u.phase \in Backward => BackwardInv(u)
  BY DEF Same, PhaseInv, BackwardInv, Frame, Counts, Visual, Row, Follower, Settled
<1>4. u.phase = "SaveExactTarget" => SaveInv(u, A)
  BY DEF Same, PhaseInv, SaveInv, Frame, Counts, Visual, AllThere, Follower
<1>5. u.phase \in Last => LastInv(u, A, kind)
  BY DEF Same, PhaseInv, LastInv, Frame, Counts, Visual, AllThere, AllSettled, Settled, Follower
<1>6. (KeptBy(u) <=> KeptBy(c)) /\ Kin(c, u)
  BY DEF Same, KeptBy, Kin, Frame, Visual
<1> QED BY <1>1, <1>2, <1>3, <1>4, <1>5, <1>6 DEF PhaseInv

Ignored(c) == [c EXCEPT !.out = NoEffect]

LEMMA IgnoredFacts ==
  ASSUME NEW c, NEW H, NEW A, TransitionInv(c, H, A)
  PROVE  LET u == Ignored(c)
         IN /\ TransitionInv(u, H, A) /\ Same(c, u) /\ u.pending = c.pending
            /\ u.out = NoEffect /\ (KeptBy(u) <=> KeptBy(c)) /\ Kin(c, u)
<1> DEFINE u == Ignored(c)
<1>1. c \in Transition /\ NoEffect \in [kind : EffectKind, to : Places]
  BY DEF TransitionInv, Sound, NoEffect, EffectKind, Places
<1>2. Same(c, u) /\ u.pending = c.pending /\ u.out = NoEffect
  BY <1>1 DEF Transition, Same, Frame, Counts, Ignored
<1> HIDE DEF u
<1>3. Sound(u, H) /\ PhaseInv(u, A, c.pending) /\ (KeptBy(u) <=> KeptBy(c)) /\ Kin(c, u)
  BY <1>2, SameKeeps DEF TransitionInv
<1>4. PendingInv(u)
  BY <1>2 DEF TransitionInv, PendingInv, Same, Frame, Counts, Visual, Follower
<1> QED BY <1>2, <1>3, <1>4 DEF TransitionInv, u

LEMMA AdvanceIgnores ==
  ASSUME NEW c, NEW o, c.ack \/ ~o.fresh \/ o.kind # c.pending
  PROVE  Advance(c, o) = Ignored(c)
BY DEF Advance, Ignored

LEMMA AdvanceStep ==
  ASSUME NEW c, NEW o, NEW H, NEW A, TransitionInv(c, H, A), ~c.ack, o.fresh,
         o.kind = c.pending, Truthful(c, o, H, A)
  PROVE  Step(c, o, Advance(c, o), H, A)
<1> DEFINE v == [Ignored(c) EXCEPT !.pending = None]
<1>1. /\ TransitionInv(Ignored(c), H, A) /\ Same(c, Ignored(c))
      /\ Ignored(c).pending = c.pending /\ Ignored(c).out = NoEffect
  BY IgnoredFacts
<1>2. c \in Transition /\ None \in EffectKind
  BY DEF TransitionInv, Sound, EffectKind
<1>3. Same(c, v) /\ v.pending = None /\ v.out = NoEffect
  BY <1>1, <1>2 DEF Same, Transition, Frame, Counts
<1>4. Advance(c, o) = IF o.kind = "Hide" THEN Hidden(v) ELSE InPhase(v, o)
  BY DEF Advance, Ignored
<1> HIDE DEF v
<1>5. Sound(v, H) /\ PhaseInv(v, A, o.kind) /\ (KeptBy(v) <=> KeptBy(c)) /\ Kin(c, v)
  BY <1>3, SameKeeps DEF TransitionInv
<1>6. Between(v, H)
  BY <1>3, <1>5 DEF Between, Same, Frame
<1>7. ASSUME NEW x, Step(v, o, x, H, A)
      PROVE  Step(c, o, x, H, A)
  BY <1>3, <1>5, <1>7 DEF Step, Answer, Kin, Same, Frame
<1>8. CASE o.kind = "Hide"
  <2>1. v.dismissed /\ v.resume = v.phase
    <3>1. "Hide" \notin Awaits(c.phase)
      BY DEF Awaits
    <3> QED BY <1>3, <1>8, <3>1 DEF TransitionInv, PendingInv, Same, Frame
  <2>2. Step(v, o, Hidden(v), H, A)
    BY <1>5, <1>6, <1>8, <2>1, HiddenStep
  <2> QED BY <1>4, <1>7, <1>8, <2>2
<1>9. CASE o.kind # "Hide"
  <2>1. o.kind \in Awaits(v.phase) /\ \A p \in Piece : o.kind = MoveKind[p] => v.moved[p]
    BY <1>3, <1>9 DEF TransitionInv, PendingInv, Same, Counts
  <2>2. v.dest = c.dest /\ v.origin = c.origin /\ v.before = c.before
    BY <1>3 DEF Same, Frame, Counts
  <2>3. Answered(v, o, H, A)
    BY <1>5, <1>6, <2>1, <2>2 DEF Answered, Truthful
  <2>4. Step(v, o, InPhase(v, o), H, A)
    BY <2>3, AnsweredStep DEF Truthful
  <2> QED BY <1>4, <1>7, <1>9, <2>4
<1> QED BY <1>8, <1>9


-----------------------------------------------------------------------------
(* A cancellation. *)

\* When the awaited effect may be taken back.
Retractable(c) ==
  /\ ~c.ack /\ ~c.dismissed /\ ~c.cancelled /\ c.phase # "RefreshModel"
  /\ ~(c.phase = "SaveExactTarget" /\ c.cutoff)

\* What a cancellation leaves as it was.
Sibling(c, u) ==
  /\ u.mode = c.mode /\ u.sticky = c.sticky /\ u.dest = c.dest /\ u.origin = c.origin
  /\ u.hideDone = c.hideDone /\ (u.cutoff <=> c.cutoff) /\ (c.failed => u.failed)

\* The awaited effect goes on.
Waits(c, u) ==
  /\ u.out = NoEffect /\ u.phase = c.phase /\ u.pending = c.pending
  /\ u.moved = c.moved /\ u.before = c.before /\ u.ack = c.ack
  /\ u.failed \/ (c.ack /\ u.failed = c.failed)

\* Another effect is awaited, or none.
Turns(c, u, unissued, H) ==
  /\ u.failed /\ ~c.ack /\ u.out = IF u.ack THEN NoEffect ELSE Awaiting(u)
  /\ u.pending # "SaveExactTarget"
  /\ \A p \in Piece : u.pending = MoveKind[p] => u.before[p] \/ p \in H
  /\ ~unissued => /\ u.pending = "Hide" /\ u.dismissed /\ u.phase = c.phase
                  /\ u.moved = c.moved /\ u.before = c.before /\ ~u.ack
                  /\ ~c.cancelled /\ ~c.dismissed
                  /\ c.phase \notin {"SaveExactTarget", "RefreshModel"}

CancelStep(c, u, unissued, H, A) ==
  /\ TransitionInv(u, H, A) /\ Sibling(c, u) /\ (KeptBy(u) <=> KeptBy(c))
  /\ (Waits(c, u) /\ ~unissued) \/ Turns(c, u, unissued, H)

\* The marks of a cancellation.
Marked(c, u) ==
  /\ u \in Transition /\ Counts(c, u) /\ u.phase = c.phase /\ Sibling(c, u)
  /\ u.seen = c.seen /\ u.cutoff = c.cutoff /\ u.focusLost = c.focusLost
  /\ u.lost = c.lost /\ u.focus = c.focus /\ u.ack = c.ack /\ u.out = c.out
  /\ u.cancelled = TRUE /\ u.failed = TRUE

LEMMA CancelsAgain ==
  ASSUME NEW c, NEW H, NEW A, TransitionInv(c, H, A),
         c.ack \/ c.cancelled, c.out = NoEffect
  PROVE  CancelStep(c, c, FALSE, H, A)
BY DEF CancelStep, Sibling, Waits, TransitionInv, Sound

\* A transition that does not take the popup along.
LEMMA MarkedAlone ==
  ASSUME NEW c, NEW u, NEW H, NEW A, NEW kind, Sound(c, H), PhaseInv(c, A, kind),
         ~Follower(c), ~c.ack, Marked(c, u), u.dismissed = c.dismissed
  PROVE  Sound(u, H) /\ PhaseInv(u, A, kind) /\ (KeptBy(u) <=> KeptBy(c))
<1>1. Sound(u, H)
  BY DEF Marked, Sibling, Sound, Counts, Visual, Follower
<1>2. u.phase \in Forward => ForwardInv(u, A, kind)
  BY DEF Marked, Sibling, PhaseInv, ForwardInv, Sound, Counts, Visual, Row, Follower
<1>3. u.phase \in Backward => BackwardInv(u)
  BY DEF Marked, Sibling, PhaseInv, BackwardInv, Sound, Counts, Visual, Row, Follower, Settled
<1>4. u.phase = "SaveExactTarget" => SaveInv(u, A)
  BY DEF Marked, Sibling, PhaseInv, SaveInv, Sound, Counts, Visual, AllThere, Follower
<1>5. u.phase \in Last => LastInv(u, A, kind)
  BY DEF Marked, Sibling, PhaseInv, LastInv, Sound, Counts, Visual, AllThere, AllSettled,
         Settled, Follower
<1>6. KeptBy(u) <=> KeptBy(c)
  BY DEF Marked, Sibling, KeptBy, Visual
<1> QED BY <1>1, <1>2, <1>3, <1>4, <1>5, <1>6 DEF PhaseInv

LEMMA CancelVisualStep ==
  ASSUME NEW c, NEW H, NEW A, NEW unissued \in BOOLEAN, TransitionInv(c, H, A),
         c.mode = "VisualOnly", ~c.ack, c.out = NoEffect, unissued => Retractable(c)
  PROVE  CancelStep(c, CancelVisual(c, unissued), unissued, H, A)
<1> DEFINE u == [c EXCEPT !.cancelled = TRUE, !.failed = TRUE]
           v == AcknowledgeTerminal(u)
<1>1. /\ c \in Transition /\ Sound(c, H) /\ PhaseInv(c, A, c.pending) /\ PendingInv(c)
      /\ ~Follower(c) /\ ~c.dismissed
  BY DEF TransitionInv, Sound, Follower
<1>2. Marked(c, u) /\ u.dismissed = c.dismissed /\ u.pending = c.pending
  BY <1>1 DEF Transition, Marked, Sibling, Counts
<1>3. CASE c.cancelled
  <2>1. CancelVisual(c, unissued) = c /\ ~unissued
    BY <1>3 DEF CancelVisual, Retractable
  <2> QED BY <1>3, <2>1, CancelsAgain
<1>4. CASE ~c.cancelled
  <2>1. CancelVisual(c, unissued) = IF unissued \/ c.pending = None THEN v ELSE u
    BY <1>4 DEF CancelVisual
  <2> HIDE DEF u
  <2>2. Sound(u, H) /\ PhaseInv(u, A, c.pending) /\ (KeptBy(u) <=> KeptBy(c))
    BY <1>1, <1>2, MarkedAlone
  <2>3. c.pending # None
    BY <1>1 DEF PendingInv, Awaits, None
  <2>4. c.phase \in Forward
    BY <1>1 DEF PhaseInv, BackwardInv, SaveInv, LastInv, Visual, Sound, Transition, Phase,
       Forward, Backward, TargetBack, PopupBack, SwitchBack, Last, Piece, Issuing, Verifying
  <2>5. CASE ~unissued
    <3>1. PendingInv(u)
      BY <1>1, <1>2 DEF PendingInv, Marked, Sibling, Counts, Follower
    <3>2. TransitionInv(u, H, A)
      BY <1>2, <2>2, <3>1 DEF TransitionInv
    <3>3. Sibling(c, u) /\ Waits(c, u)
      BY <1>2 DEF Marked, Waits, Counts
    <3> QED BY <2>1, <2>2, <2>3, <2>5, <3>2, <3>3 DEF CancelStep
  <2>6. CASE unissued
    <3>1. v \in Transition /\ Counts(u, v) /\ Acknowledged(u, v)
      BY <1>2, AcknowledgeFacts DEF Marked
    <3> HIDE DEF v
    <3>2. Sound(v, H)
      BY <2>2, <3>1 DEF Sound, Counts, Acknowledged, Visual, Follower
    <3>3. PendingInv(v) /\ \A p \in Piece : v.pending # MoveKind[p]
      BY <1>1, <1>2, <3>1 DEF PendingInv, Acknowledged, Follower, Marked, Sibling, Piece, MoveKind, None
    <3>4. ForwardInv(u, A, c.pending)
      BY <1>2, <2>2, <2>4 DEF PhaseInv, Marked
    <3>5. v.mode = "VisualOnly" /\ ~v.dismissed /\ ~v.sticky /\ v.phase \in Forward
            /\ v.failed /\ v.ack
      BY <1>1, <1>2, <2>4, <3>1 DEF Acknowledged, Marked, Sibling, Sound
    <3>6. ForwardInv(v, A, v.pending)
      BY <3>1, <3>4, <3>5 DEF ForwardInv, Acknowledged, Counts, Visual, Row, Follower
    <3>7. TransitionInv(v, H, A)
      BY <3>2, <3>3, <3>5, <3>6 DEF TransitionInv, PhaseInv,
         Forward, Backward, TargetBack, PopupBack, SwitchBack, Last
    <3>8. (KeptBy(v) <=> KeptBy(c)) /\ Sibling(c, v)
      BY <1>2, <2>2, <2>4, <3>1, <3>4, <3>5 DEF KeptBy, Acknowledged, Marked, Sibling, Visual,
           ForwardInv, Forward
    <3>9. Turns(c, v, unissued, H)
      BY <1>2, <2>6, <3>1, <3>3, <3>5 DEF Turns, Acknowledged, Marked, None
    <3> QED BY <2>1, <2>6, <3>7, <3>8, <3>9 DEF CancelStep
  <2> QED BY <2>5, <2>6
<1> QED BY <1>3, <1>4

\* What a call that was taken back would have moved is where it was.
LEMMA TakenBackFacts ==
  ASSUME NEW c, NEW H, NEW unissued \in BOOLEAN, Sound(c, H),
         unissued => \A p \in Piece : c.pending = MoveKind[p] => c.before[p] \/ p \in H
  PROVE  LET u == TakenBack(c, unissued)
         IN /\ u \in Transition /\ u.tries = c.tries /\ u.before = c.before
            /\ Frame(c, u) /\ u.phase = c.phase /\ u.pending = c.pending /\ u.out = c.out
            /\ Sound(u, H) /\ (~unissued => u = c)
            /\ (\A p \in Piece : c.pending = MoveKind[p] => c.moved[p])
                 => \A p \in Piece : u.moved[p] => c.moved[p]
<1> DEFINE u == TakenBack(c, unissued)
           m == [p \in Piece |-> IF c.pending = MoveKind[p] THEN c.before[p] ELSE c.moved[p]]
<1>1. c \in Transition
  BY DEF Sound
<1>2. CASE ~unissued
  BY <1>1, <1>2 DEF TakenBack, Frame, Sound
<1>3. CASE unissued
  <2>1. u = [c EXCEPT !.moved = m]
    BY <1>3 DEF TakenBack
  <2>2. m \in [Piece -> BOOLEAN]
    BY <1>1 DEF Transition
  <2>3. \A p \in Piece : m[p] <=> IF c.pending = MoveKind[p] THEN c.before[p] ELSE c.moved[p]
    BY <1>1 DEF Transition
  <2> HIDE DEF m, u
  <2>4. /\ u \in Transition /\ u.tries = c.tries /\ u.before = c.before
        /\ Frame(c, u) /\ u.phase = c.phase /\ u.pending = c.pending /\ u.out = c.out
        /\ u.moved = m
    BY <1>1, <2>1, <2>2 DEF Transition, Frame
  <2>5. \A p \in Piece : u.moved[p] => c.moved[p] \/ c.before[p]
    BY <2>3, <2>4
  <2>6. \A p \in Piece : u.moved[p] \/ p \in H
    BY <1>3, <2>3, <2>4 DEF Sound
  <2>7. Sound(u, H)
    BY <2>4, <2>5, <2>6 DEF Sound, Frame, Visual, Follower, Piece
  <2> QED BY <1>3, <2>3, <2>4, <2>5, <2>7 DEF u
<1> QED BY <1>2, <1>3


LEMMA CancelRowStep ==
  ASSUME NEW c, NEW H, NEW A, NEW unissued \in BOOLEAN, TransitionInv(c, H, A),
         Row(c), ~c.ack, c.out = NoEffect,
         unissued => /\ Retractable(c)
                     /\ \A p \in Piece : c.pending = MoveKind[p] => c.before[p] \/ p \in H
  PROVE  CancelStep(c, CancelRow(c, unissued), unissued, H, A)
<1> DEFINE u == [c EXCEPT !.cancelled = TRUE, !.failed = TRUE]
           v == TakenBack(u, unissued)
           w == [v EXCEPT !.pending = None]
<1>1. /\ c \in Transition /\ Sound(c, H) /\ PhaseInv(c, A, c.pending) /\ PendingInv(c)
      /\ ~Follower(c) /\ ~c.dismissed /\ ~Visual(c)
  BY DEF TransitionInv, Sound, Follower, Row, Visual
<1>2. Marked(c, u) /\ u.dismissed = c.dismissed /\ u.pending = c.pending
  BY <1>1 DEF Transition, Marked, Sibling, Counts
<1>3. CASE c.cancelled
  <2>1. CancelRow(c, unissued) = c /\ ~unissued
    BY <1>3 DEF CancelRow, Retractable
  <2> QED BY <1>3, <2>1, CancelsAgain
<1>4. CASE ~c.cancelled
  <2>1. CancelRow(c, unissued) =
          IF c.phase \in {"SaveExactTarget", "RefreshModel"}
             \/ (~unissued /\ c.pending # None)
          THEN u ELSE BeginRollback(w)
    BY <1>4 DEF CancelRow
  <2>2. c.pending # None
    BY <1>1 DEF PendingInv, Awaits, None
  <2>3. unissued => c.phase \notin {"SaveExactTarget", "RefreshModel"}
    BY <1>1 DEF Retractable, PhaseInv, SaveInv
  <2> HIDE DEF u, v, w
  <2>4. Sound(u, H) /\ PhaseInv(u, A, c.pending) /\ (KeptBy(u) <=> KeptBy(c))
    BY <1>1, <1>2, MarkedAlone
  <2>5. CASE ~unissued
    <3>1. PendingInv(u)
      BY <1>1, <1>2 DEF PendingInv, Marked, Sibling, Counts, Follower
    <3>2. TransitionInv(u, H, A)
      BY <1>2, <2>4, <3>1 DEF TransitionInv
    <3>3. Sibling(c, u) /\ Waits(c, u)
      BY <1>2 DEF Marked, Waits, Counts
    <3> QED BY <2>1, <2>2, <2>4, <2>5, <3>2, <3>3 DEF CancelStep
  <2>6. CASE unissued
    <3>1. CancelRow(c, unissued) = BeginRollback(w)
      BY <2>1, <2>2, <2>3, <2>6
    <3>2. \A p \in Piece : u.pending = MoveKind[p] => u.before[p] \/ p \in H
      BY <1>2, <2>6 DEF Marked, Counts
    <3>3. /\ v \in Transition /\ v.tries = u.tries /\ v.before = u.before
          /\ Frame(u, v) /\ v.phase = u.phase /\ v.out = u.out /\ Sound(v, H)
      BY <2>4, <2>6, <3>2, TakenBackFacts DEF v
    <3>4. None \in EffectKind
      BY DEF EffectKind
    <3>5. /\ w \in Transition /\ Same(v, w) /\ w.pending = None /\ w.out = v.out
      BY <3>3, <3>4 DEF w, Transition, Same, Frame, Counts
    <3>6. Sound(w, H)
      BY <3>3, <3>5 DEF Same, Sound, Frame, Counts, Visual, Follower
    <3>7. Between(w, H)
      BY <1>2, <3>3, <3>5, <3>6 DEF Between, Same, Frame, Marked
    <3>8. w.phase = c.phase /\ w.tries = c.tries /\ w.mode = c.mode /\ w.sticky = c.sticky
            /\ w.dest = c.dest /\ w.origin = c.origin /\ w.hideDone = c.hideDone
            /\ w.cutoff = c.cutoff /\ w.focusLost = c.focusLost
      BY <1>2, <3>3, <3>5 DEF Same, Frame, Counts, Marked, Sibling
    <3>9. c.phase \in Forward \/ c.phase \in Backward
      BY <1>1, <2>3, <2>6 DEF PhaseInv, LastInv, Transition, Phase,
         Forward, Backward, TargetBack, PopupBack, SwitchBack, Last, Piece, Issuing, Verifying
    <3>10. ~c.cutoff /\ ~c.focusLost /\ c.phase # "FocusRestore"
            /\ c.tries["back"]["popup"] = 0 /\ c.tries["back"]["current"] = 0
      BY <1>1, <3>9 DEF PhaseInv, ForwardInv, BackwardInv, Forward, Backward, TargetBack,
         PopupBack, SwitchBack, Piece
    <3>11. Undoable(w, H, A)
      BY <3>7, <3>8, <3>10 DEF Undoable, Row
    <3>12. Undone(w, BeginRollback(w), H, A)
      BY <3>11, BeginRollbackFacts
    <3> DEFINE x == BeginRollback(w)
    <3> HIDE DEF x
    <3>13. Undone(w, x, H, A)
      BY <3>12 DEF x
    <3>14. Sibling(c, x) /\ ~KeptBy(c) /\ ~KeptBy(x)
      BY <1>1, <3>8, <3>10, <3>13 DEF Undone, Answer, Kin, Sibling, KeptBy
    <3>15. x.pending # "SaveExactTarget"
      BY <3>13 DEF Undone, Answer, TransitionInv, PendingInv, PhaseInv, SaveInv, Awaits, None
    <3>16. Turns(c, x, unissued, H)
      BY <2>6, <3>13, <3>15 DEF Undone, Answer, Turns
    <3> QED BY <3>1, <3>13, <3>14, <3>16 DEF CancelStep, Undone, Answer, x
  <2> QED BY <2>5, <2>6
<1> QED BY <1>3, <1>4

LEMMA CancelFollowStep ==
  ASSUME NEW c, NEW H, NEW A, NEW unissued \in BOOLEAN, TransitionInv(c, H, A),
         Follower(c), ~c.ack, ~c.dismissed, c.out = NoEffect,
         unissued => /\ Retractable(c)
                     /\ \A p \in Piece : c.pending = MoveKind[p] => c.before[p] \/ p \in H
  PROVE  CancelStep(c, CancelFollow(c, unissued), unissued, H, A)
<1> DEFINE v == TakenBack(c, unissued)
           u == [v EXCEPT !.resume = c.phase, !.cancelled = TRUE, !.dismissed = TRUE,
                          !.failed = TRUE]
           w == [u EXCEPT !.pending = None]
<1>1. /\ c \in Transition /\ Sound(c, H) /\ PhaseInv(c, A, c.pending) /\ PendingInv(c)
      /\ c.pending \in Awaits(c.phase) /\ ~c.cancelled
      /\ c.phase \in Phase \ {"Idle"}
  BY DEF TransitionInv, Sound, PendingInv, Transition
<1>2. /\ v \in Transition /\ v.tries = c.tries /\ v.before = c.before
      /\ Frame(c, v) /\ v.phase = c.phase /\ v.pending = c.pending /\ v.out = c.out
      /\ Sound(v, H) /\ (~unissued => v = c)
      /\ \A p \in Piece : v.moved[p] => c.moved[p]
  BY <1>1, TakenBackFacts DEF PendingInv
<1>3. CancelFollow(c, unissued) = IF Awaited(c, unissued) THEN u ELSE Emit(w, "Hide")
  BY DEF CancelFollow
<1> HIDE DEF v
<1>4. /\ Marked(v, u) /\ u.dismissed = TRUE /\ u.resume = c.phase
      /\ u.pending = c.pending
  BY <1>1, <1>2 DEF Transition, Marked, Sibling, Counts
<1> HIDE DEF u
<1>5. Follower(v) /\ Follower(u) /\ (Visual(u) <=> Visual(c)) /\ (Row(u) <=> Row(c))
        /\ u.mode = c.mode /\ u.sticky = c.sticky /\ u.dest = c.dest
        /\ u.origin = c.origin /\ u.hideDone = c.hideDone /\ u.cutoff = c.cutoff
        /\ u.seen = c.seen /\ u.tries = c.tries /\ u.lost = c.lost /\ u.phase = c.phase
        /\ u.focusLost = c.focusLost /\ u.ack = FALSE /\ u.failed = TRUE
        /\ u.before = c.before /\ u.out = NoEffect /\ u.cancelled = TRUE
        /\ u.moved = v.moved /\ c.ack = FALSE
  BY <1>1, <1>2, <1>4 DEF Frame, Marked, Sibling, Follower, Visual, Row, Counts, Transition
<1>6. Sound(u, H)
  BY <1>2, <1>4, <1>5 DEF Marked, Sibling, Sound, Counts, Visual, Follower
<1>7. \A p \in Piece : Settled(c, p) => Settled(u, p)
  BY <1>2, <1>5 DEF Settled
<1>8. KeptBy(u) <=> KeptBy(c)
  BY <1>5 DEF KeptBy
<1>9. Sibling(c, u)
  BY <1>5 DEF Sibling
<1>10. ASSUME NEW kind, kind = "Hide" \/ (kind = c.pending /\ Awaited(c, unissued))
       PROVE  PhaseInv(u, A, kind)
  <2>1. u.phase \in Forward => ForwardInv(u, A, kind)
    <3>1. c.phase \in Forward /\ kind # "Hide" => kind = "PublishVisualAssignment"
      BY <1>10 DEF Awaited, Forward
    <3>2. c.phase \in Forward => ForwardInv(c, A, c.pending)
      BY <1>1 DEF PhaseInv
    <3> QED BY <1>5, <1>10, <3>1, <3>2 DEF ForwardInv, Follower
  <2>2. u.phase \in Backward => BackwardInv(u)
    BY <1>1, <1>5, <1>7 DEF PhaseInv, BackwardInv, Piece
  <2>3. u.phase = "SaveExactTarget" => SaveInv(u, A)
    BY <1>1, <1>5 DEF PhaseInv, SaveInv, AllThere, Follower
  <2>4. u.phase \in Last => LastInv(u, A, kind)
    <3>1. c.phase \in Last /\ kind # "Hide" => c.phase = "RefreshModel"
      BY <1>1, <1>10 DEF Awaited, Last, Awaits
    <3>2. AllSettled(c) => AllSettled(u)
      BY <1>7 DEF AllSettled
    <3>3. AllThere(c, A) => AllThere(u, A)
      BY <1>5 DEF AllThere, Follower
    <3> QED BY <1>1, <1>5, <1>10, <3>1, <3>2, <3>3 DEF PhaseInv, LastInv
  <2> QED BY <2>1, <2>2, <2>3, <2>4 DEF PhaseInv
<1>11. CASE Awaited(c, unissued)
  <2>1. ~unissued
    BY <1>1, <1>11 DEF Awaited, Retractable
  <2>2. u.moved = c.moved
    BY <1>2, <1>5, <2>1
  <2>3. PendingInv(u)
    BY <1>1, <1>4, <1>5, <2>2 DEF PendingInv
  <2>4. TransitionInv(u, H, A)
    BY <1>4, <1>6, <1>10, <1>11, <2>3 DEF TransitionInv
  <2>5. Waits(c, u)
    BY <1>4, <1>5, <1>6, <2>2 DEF Waits, Sound
  <2> QED BY <1>3, <1>8, <1>9, <1>11, <2>1, <2>4, <2>5 DEF CancelStep
<1>12. CASE ~Awaited(c, unissued)
  <2> DEFINE x == Emit(w, "Hide")
  <2>1. None \in EffectKind
    BY DEF EffectKind
  <2>2. w \in Transition /\ Same(u, w) /\ w.pending = None /\ w.out = u.out
          /\ w.resume = u.resume
    BY <1>4, <2>1 DEF Marked, Transition, Same, Frame, Counts
  <2> HIDE DEF w
  <2>3. Sound(w, H) /\ PhaseInv(w, A, "Hide") /\ (KeptBy(w) <=> KeptBy(u)) /\ Kin(u, w)
    BY <1>6, <1>10, <2>2, SameKeeps
  <2>4. Between(w, H) /\ w.dismissed /\ w.resume = w.phase
    BY <1>4, <1>5, <2>2, <2>3 DEF Between, Same, Frame
  <2>5. /\ Answer(w, x, H, A) /\ Frame(w, x) /\ Counts(w, x) /\ x.phase = w.phase
        /\ x.pending = "Hide"
    BY <2>3, <2>4, HideAsked
  <2> HIDE DEF x
  <2>6. x.mode = c.mode /\ x.sticky = c.sticky /\ x.dest = c.dest
        /\ x.origin = c.origin /\ x.hideDone = c.hideDone /\ x.cutoff = c.cutoff
        /\ x.phase = c.phase /\ x.focusLost = c.focusLost /\ x.ack = FALSE
        /\ x.failed = TRUE /\ x.before = c.before /\ x.moved = v.moved /\ x.dismissed = TRUE
    BY <1>4, <1>5, <2>2, <2>5 DEF Same, Frame, Counts
  <2>7. Sibling(c, x) /\ (KeptBy(x) <=> KeptBy(c))
    BY <2>6 DEF Sibling, KeptBy, Visual
  <2>8. ~unissued => c.phase \notin {"SaveExactTarget", "RefreshModel"}
    BY <1>1, <1>12 DEF Awaited, Awaits, PhaseInv, SaveInv
  <2>9. Turns(c, x, unissued, H)
    BY <1>1, <1>2, <2>5, <2>6, <2>8 DEF Turns, Answer
  <2> QED BY <1>3, <1>12, <2>5, <2>7, <2>9 DEF CancelStep, Answer, x
<1> QED BY <1>11, <1>12

\* Whatever the transition is in the middle of.
LEMMA CancelRequestedStep ==
  ASSUME NEW c, NEW H, NEW A, NEW unissued \in BOOLEAN, TransitionInv(c, H, A),
         unissued => /\ Retractable(c)
                     /\ \A p \in Piece : c.pending = MoveKind[p] => c.before[p] \/ p \in H
  PROVE  CancelStep(c, CancelRequested(c, unissued), unissued, H, A)
<1> DEFINE u == Ignored(c)
           x == CancelRequested(c, unissued)
<1>1. /\ TransitionInv(u, H, A) /\ Same(c, u) /\ u.pending = c.pending
      /\ u.out = NoEffect /\ (KeptBy(u) <=> KeptBy(c)) /\ Kin(c, u)
  BY IgnoredFacts
<1>2. x = Cancel(u, unissued)
  BY DEF CancelRequested, Ignored
<1> HIDE DEF u, x
<1>3. /\ u.ack = c.ack /\ u.dismissed = c.dismissed /\ u.cancelled = c.cancelled
      /\ u.phase = c.phase /\ u.cutoff = c.cutoff /\ u.before = c.before
      /\ u.moved = c.moved /\ u.failed = c.failed /\ u.hideDone = c.hideDone
      /\ u.mode \in Mode /\ u.phase # "Idle"
  BY <1>1 DEF Same, Frame, Counts, Transition
<1>4. unissued => /\ Retractable(u)
                  /\ \A p \in Piece : u.pending = MoveKind[p] => u.before[p] \/ p \in H
  BY <1>1, <1>3 DEF Retractable
<1>5. CancelStep(u, x, unissued, H, A)
  <2>1. CASE u.ack \/ u.dismissed
    <3>1. x = u /\ ~unissued /\ (u.ack \/ u.cancelled)
      BY <1>1, <1>2, <1>4, <2>1 DEF Cancel, Retractable, TransitionInv, Sound
    <3> QED BY <1>1, <3>1, CancelsAgain
  <2>2. CASE ~u.ack /\ ~u.dismissed /\ u.mode = "VisualOnly"
    <3>1. x = CancelVisual(u, unissued)
      BY <1>2, <1>3, <2>2 DEF Cancel, Row
    <3> QED BY <1>1, <1>4, <2>2, <3>1, CancelVisualStep
  <2>3. CASE ~u.ack /\ ~u.dismissed /\ Row(u)
    <3>1. x = CancelRow(u, unissued)
      BY <1>2, <1>3, <2>3 DEF Cancel, Row
    <3> QED BY <1>1, <1>4, <2>3, <3>1, CancelRowStep
  <2>4. CASE ~u.ack /\ ~u.dismissed /\ Follower(u)
    <3>1. x = CancelFollow(u, unissued)
      BY <1>2, <1>3, <2>4 DEF Cancel, Row, Follower
    <3> QED BY <1>1, <1>4, <2>4, <3>1, CancelFollowStep
  <2> QED BY <1>3, <2>1, <2>2, <2>3, <2>4 DEF Mode, Row, Follower
<1>6. Sibling(c, x) /\ (KeptBy(x) <=> KeptBy(c))
  BY <1>1, <1>3, <1>5 DEF CancelStep, Sibling, Kin
<1>7. Waits(u, x) => Waits(c, x)
  BY <1>1, <1>3 DEF Waits
<1>8. Turns(u, x, unissued, H) => Turns(c, x, unissued, H)
  BY <1>1, <1>3 DEF Turns
<1> QED BY <1>5, <1>6, <1>7, <1>8 DEF CancelStep, x

-----------------------------------------------------------------------------
(* A transition begins, and its pieces are moved. *)

Begun(u) ==
  /\ ~u.failed /\ ~u.ack /\ ~u.cutoff /\ ~u.dismissed /\ ~u.hideDone /\ ~KeptBy(u)
  /\ u.phase \in {"IdentityVerifyBeforePopup", "TargetIssue"} /\ u.out = Awaiting(u)

\* A transition whose phase is still to be set.
Draft ==
  [phase : Phase, mode : Mode, sticky : BOOLEAN, dest : Desktops,
   origin : [Piece -> Desktops], seen : [Piece -> Places],
   tries : [Ways -> [Piece -> 0..Attempts]],
   moved : [Piece -> BOOLEAN], before : [Piece -> BOOLEAN],
   verify : BOOLEAN, repair : BOOLEAN, cancelled : BOOLEAN, dismissed : BOOLEAN,
   failed : BOOLEAN, pending : EffectKind, hideDone : BOOLEAN,
   focusLost : BOOLEAN, lost : BOOLEAN, cutoff : BOOLEAN, quiet : BOOLEAN,
   ack : BOOLEAN, resume : Phase, focus : 0..Attempts, refresh : 0..Attempts,
   out : [kind : EffectKind, to : Places]]

\* The phase a draft has does not matter: entering a phase, or issuing the first
\* move, sets it.
LEMMA DraftEntered ==
  ASSUME NEW c \in Draft, NEW phase, NEW kind
  PROVE  Enter(c, phase, kind) = Enter([c EXCEPT !.phase = "TargetIssue"], phase, kind)
<1>1. [[c EXCEPT !.phase = "TargetIssue"] EXCEPT !.phase = phase]
        = [c EXCEPT !.phase = phase]
  BY DEF Draft
<1> QED BY <1>1 DEF Enter

FirstMove(c, n, m) ==
  [[c EXCEPT !.tries["there"]["target"] = n, !.before["target"] = m,
             !.moved["target"] = TRUE] EXCEPT !.phase = "TargetIssue"]

LEMMA DraftMoved ==
  ASSUME NEW c \in Draft, NEW n, NEW m
  PROVE  FirstMove([c EXCEPT !.phase = "TargetIssue"], n, m) = FirstMove(c, n, m)
BY DEF Draft, FirstMove

LEMMA FirstIssue ==
  ASSUME NEW c, ~(c.tries["there"]["target"] >= Attempts)
  PROVE  Issue(c, "target", "there")
           = Emit(FirstMove(c, c.tries["there"]["target"] + 1, c.moved["target"]),
                  "MoveTarget")
BY DEF Issue, Issuing, MoveKind, Enter, FirstMove

LEMMA DraftIssued ==
  ASSUME NEW c \in Draft, c.tries["there"]["target"] < Attempts
  PROVE  Issue(c, "target", "there")
           = Issue([c EXCEPT !.phase = "TargetIssue"], "target", "there")
<1> DEFINE r == [c EXCEPT !.phase = "TargetIssue"]
<1>1. r.tries = c.tries /\ r.moved = c.moved
  BY DEF Draft
<1>2. ~(c.tries["there"]["target"] >= Attempts)
  <2>1. c.tries["there"]["target"] \in Nat
    BY PickerAssumption DEF Draft, Ways, Piece
  <2> QED BY <2>1, PickerAssumption
<1>3. FirstMove(r, c.tries["there"]["target"] + 1, c.moved["target"])
        = FirstMove(c, c.tries["there"]["target"] + 1, c.moved["target"])
  BY DraftMoved
<1> HIDE DEF r
<1>4. Issue(r, "target", "there")
        = Emit(FirstMove(r, c.tries["there"]["target"] + 1, c.moved["target"]),
               "MoveTarget")
  BY <1>1, <1>2, FirstIssue
<1> QED BY <1>2, <1>3, <1>4, FirstIssue DEF r

LEMMA BeginFacts ==
  ASSUME NEW mode \in Mode, NEW sticky \in BOOLEAN, NEW place \in [Piece -> Desktops],
         NEW dest \in Desktops, NEW H, NEW A, Piece \subseteq H,
         \A p \in Piece : place[p] = dest => p \in A,
         sticky => mode \in {"MoveAndFollow", "VisualAndFollow"}
  PROVE  LET u == Begin(mode, sticky, place, dest)
         IN /\ TransitionInv(u, H, A) /\ Begun(u) /\ u.mode = mode /\ u.dest = dest
            /\ u.origin = place /\ u.sticky = sticky
            /\ \A p \in Piece : u.pending = MoveKind[p] => u.before[p] \/ p \in H
<1> DEFINE s == [place EXCEPT !["popup"] = IF sticky THEN NoDesktop ELSE @]
           c == [Idle EXCEPT !.mode = mode, !.sticky = sticky, !.dest = dest,
                   !.origin = place, !.seen = s]
           u == Begin(mode, sticky, place, dest)
<1>1. u = IF Visual(c) THEN Enter(c, "IdentityVerifyBeforePopup", "ValidateTarget")
          ELSE Issue(c, "target", "there")
  BY DEF Begin
<1>2. s \in [Piece -> Places] /\ \A p \in Piece : s[p] = dest => p \in A
  <2>1. dest # NoDesktop
    BY PickerAssumption
  <2> QED BY <2>1 DEF Places, Piece
<1> HIDE DEF s
<1>3. /\ c.mode = mode /\ c.sticky = sticky /\ c.dest = dest /\ c.origin = place /\ c.seen = s
      /\ c.phase = "Idle" /\ c.pending = None /\ c.out = NoEffect /\ c.resume = "Idle"
      /\ c.tries = [there |-> None3(0), back |-> None3(0)]
      /\ c.moved = None3(FALSE) /\ c.before = None3(FALSE)
      /\ c.verify = FALSE /\ c.repair = FALSE /\ c.cancelled = FALSE /\ c.dismissed = FALSE
      /\ c.failed = FALSE /\ c.hideDone = FALSE /\ c.focusLost = FALSE /\ c.lost = FALSE
      /\ c.cutoff = FALSE /\ c.quiet = FALSE /\ c.ack = FALSE /\ c.focus = 0 /\ c.refresh = 0
  BY DEF Idle
<1> DEFINE r == [c EXCEPT !.phase = "TargetIssue"]
<1>4. None3(0) \in [Piece -> 0..Attempts] /\ None3(FALSE) \in [Piece -> BOOLEAN]
        /\ c.tries \in [Ways -> [Piece -> 0..Attempts]]
        /\ \A w \in Ways, p \in Piece : c.tries[w][p] = 0
  BY <1>3, PickerAssumption DEF None3, Ways
<1>5. /\ "TargetIssue" \in Phase \ {"Idle"} /\ "Idle" \in Phase /\ None \in EffectKind
      /\ NoEffect \in [kind : EffectKind, to : Places] /\ place \in [Piece -> Desktops]
      /\ 0 \in 0..Attempts
  BY PickerAssumption DEF Phase, Issuing, Piece, EffectKind, NoEffect, Places
<1>6. r \in Transition /\ Frame(c, r) /\ Counts(c, r) /\ r.phase = "TargetIssue"
        /\ r.pending = None /\ r.out = NoEffect
  BY <1>2, <1>3, <1>4, <1>5 DEF Idle, Transition, Frame, Counts
<1>7. /\ Enter(c, "IdentityVerifyBeforePopup", "ValidateTarget")
           = Enter(r, "IdentityVerifyBeforePopup", "ValidateTarget")
      /\ Issue(c, "target", "there") = Issue(r, "target", "there")
  <2>1. c \in Draft
    BY <1>2, <1>3, <1>4, <1>5 DEF Idle, Draft
  <2>2. c.tries["there"]["target"] < Attempts
    BY <1>4, PickerAssumption DEF Ways, Piece
  <2> HIDE DEF c
  <2> QED BY <2>1, <2>2, DraftEntered, DraftIssued
<1>8. (Visual(c) <=> Visual(r)) /\ c.mode = r.mode
  BY <1>6 DEF Visual, Frame
<1>9. u = IF Visual(r) THEN Enter(r, "IdentityVerifyBeforePopup", "ValidateTarget")
          ELSE Issue(r, "target", "there")
  BY <1>1, <1>7, <1>8
<1> HIDE DEF u, c
<1>10. \A p \in Piece : ~r.moved[p] /\ ~r.before[p]
  BY <1>3, <1>6 DEF Counts, None3
<1>11. Sound(r, H)
  BY <1>3, <1>6, <1>10 DEF Sound, Frame, Visual, Follower, Piece
<1>12. Onward(r, H, A)
  BY <1>2, <1>3, <1>4, <1>6, <1>11 DEF Onward, Between, Frame, Counts, Ways, Last
<1> HIDE DEF r
<1>13. Gone(r, u, H, A) /\ u.phase \in {"IdentityVerifyBeforePopup", "TargetIssue"}
  <2>1. CASE Visual(r)
    <3>1. Ahead(r, "current") \/ ~Follower(r)
      BY <2>1 DEF Ahead, Visual
    <3>2. ~Row(r) /\ (Follower(r) => Ahead(r, "current"))
            /\ r.tries["there"]["popup"] < Attempts
      BY <1>4, <1>6, <2>1, <3>1, PickerAssumption DEF Row, Visual, Ways, Piece, Counts
    <3>3. Gone(r, Enter(r, "IdentityVerifyBeforePopup", "ValidateTarget"), H, A)
      BY <1>12, <3>2, ValidateBeforePopup
    <3>4. Enter(r, "IdentityVerifyBeforePopup", "ValidateTarget").phase
            = "IdentityVerifyBeforePopup"
      BY <1>6, EnterFacts DEF Phase, EffectKind
    <3> QED BY <1>9, <2>1, <3>3, <3>4
  <2>2. CASE ~Visual(r)
    <3>1. Ahead(r, "target") /\ r.tries["there"]["target"] < Attempts /\ "target" \in Piece
      BY <1>4, <1>6, <2>2, PickerAssumption DEF Ahead, Ways, Piece, Counts
    <3>2. Gone(r, Issue(r, "target", "there"), H, A)
      BY <1>12, <3>1, IssueThere
    <3>3. Issue(r, "target", "there").phase = "TargetIssue"
      BY <1>6, <3>1, IssueFacts DEF Ways, Issuing
    <3> QED BY <1>9, <2>2, <3>2, <3>3
  <2> QED BY <2>1, <2>2
<1>14. TransitionInv(u, H, A) /\ Kin(r, u) /\ u.failed = r.failed /\ u.hideDone = r.hideDone /\ ~u.ack
         /\ u.out = Awaiting(u)
         /\ \A p \in Piece : u.pending = MoveKind[p] => u.before[p] \/ p \in H
  BY <1>13 DEF Gone, Answer
<1>15. ForwardInv(u, A, u.pending)
  BY <1>13, <1>14 DEF TransitionInv, PhaseInv, Forward
<1>16. Begun(u)
  BY <1>3, <1>6, <1>13, <1>14, <1>15 DEF Begun, Frame, Kin, KeptBy, ForwardInv
<1> QED BY <1>3, <1>6, <1>14, <1>16 DEF Kin, Frame, u

LEMMA PlacesChange ==
  ASSUME NEW c, NEW H, NEW A, NEW I, NEW B, TransitionInv(c, H, A),
         \A p \in Piece : p \in H => p \in I \/ c.moved[p],
         c.phase \in Backward \/ \A p \in Piece : p \in A => p \in B
  PROVE  TransitionInv(c, I, B)
<1>1. Sound(c, I)
  BY DEF TransitionInv, Sound
<1>2. CASE c.phase \in Backward
  BY <1>1, <1>2 DEF TransitionInv, PhaseInv, Forward, Backward, TargetBack, PopupBack, SwitchBack, Last
<1>3. CASE \A p \in Piece : p \in A => p \in B
  <2>1. AllThere(c, A) => AllThere(c, B)
    BY <1>3 DEF AllThere, Piece
  <2>2. c.phase \in Forward => ForwardInv(c, B, c.pending)
    BY <1>3 DEF TransitionInv, PhaseInv, ForwardInv
  <2>3. c.phase = "SaveExactTarget" => SaveInv(c, B)
    BY <2>1 DEF TransitionInv, PhaseInv, SaveInv
  <2>4. c.phase \in Last => LastInv(c, B, c.pending)
    BY <2>1 DEF TransitionInv, PhaseInv, LastInv
  <2> QED BY <1>1, <2>2, <2>3, <2>4 DEF TransitionInv, PhaseInv
<1> QED BY <1>2, <1>3

-----------------------------------------------------------------------------
(* The pieces and the work of a transition. *)

\* What a piece that nobody else moved may be reckoned to.
Homes == {p \in Piece : calm => at[p] \in Home(p)}
Theres == {p \in Piece : calm => at[p] = t.dest}

-----------------------------------------------------------------------------
(* The inductive invariant. *)

Effect == [kind : EffectKind, to : Places, fresh : BOOLEAN]
Saves == {"Saved", "NotTracked", "FlushFailed", "Failed"}
Seen == [kind : EffectKind \ {None}, fresh : BOOLEAN, match : BOOLEAN, invoked : BOOLEAN,
         seen : Places, ok : BOOLEAN, save : Saves]
Blank == [kind : {None}, fresh : {FALSE}]
Works == [sched : Effect, due : BOOLEAN, call : Effect,
          kick : Seen \cup Blank, terminal : BOOLEAN]
Queues == [posted : 0..PostCap, timer : BOOLEAN, durable : BOOLEAN]

Types ==
  /\ work \in Works /\ q \in Queues
  /\ pump \in {"off", "run", "call"} /\ drain \in 0..Passes + 1
  /\ quit \in {"no", "ask", "end", "ended"}
  /\ at \in [Piece -> Desktops] /\ alive \in BOOLEAN /\ calm \in BOOLEAN
  /\ shown \in BOOLEAN /\ badge \in BOOLEAN /\ saved \in BOOLEAN
  /\ pump = "call" <=> work.call.kind # None

\* A call, whether or not it still is waited for.
CallFits(u, c) ==
  /\ c.kind \in Moves => c.to = EffectDesktop(u, c.kind) /\ c.kind \in Awaits(u.phase)
  /\ \A p \in Piece : c.kind = MoveKind[p] => u.moved[p]
  /\ c.kind = "Hide" => u.dismissed
  /\ c.kind = "SaveExactTarget" => c.fresh

\* What is scheduled, called or observed is what the transition u waits for,
\* except that a call may go on that a cancellation no longer waits for.
WorkFits(u, w) ==
  /\ w.terminal => u.ack
  /\ w.sched.kind # None
       => /\ w.sched.fresh /\ w.sched.kind = u.pending /\ ~u.ack
          /\ w.sched.to = EffectDesktop(u, w.sched.kind)
  /\ w.call.kind # None => w.kick.kind = None
  /\ w.call.kind # None /\ w.call.fresh
       => w.call.kind = u.pending /\ w.sched.kind = None /\ ~u.ack
  /\ w.call.kind # None /\ ~w.call.fresh
       => u.dismissed /\ u.pending = "Hide" /\ w.sched.kind = "Hide"
  /\ CallFits(u, w.call)
  /\ w.kick.kind # None /\ w.kick.fresh
       => w.kick.kind = u.pending /\ w.sched.kind = None /\ ~u.ack

\* One of the three is what is waited for.
Carried(u, w) ==
  ~u.ack => \/ w.sched.kind # None
            \/ w.call.kind # None /\ w.call.fresh
            \/ w.kick.kind # None /\ w.kick.fresh

\* A move that was not made yet has not changed the place of its piece.
NotYet(u, w, H) ==
  w.sched.kind # None \/ w.call.kind # None =>
    \A p \in Piece : u.pending = MoveKind[p] => u.before[p] \/ p \in H

\* What was observed is so.  V is what can be seen: the popup, the badge and
\* the record.
Observed(u, o, H, A, V) ==
  o.kind # None /\ o.fresh =>
    /\ Truthful(u, o, H, A)
    /\ o.kind = "ShowAndFocus" /\ o.ok => V.shown \/ u.failed
    /\ o.kind = "PublishVisualAssignment" /\ o.ok => V.badge \/ u.failed
    /\ o.kind = "Hide" => ~V.shown
    /\ o.kind = "SaveExactTarget" /\ V.saved => RowMoveSaveCommits(o.save)

Visible(u, w, V) ==
  /\ u.hideDone => ~V.shown
  /\ u.ack /\ ~u.failed /\ Follower(u) => V.shown
  /\ Visual(u) /\ ~u.failed /\ (u.phase = "FocusRestore" \/ u.ack) => V.badge
  /\ V.saved => /\ u.cutoff /\ w.call.kind # "SaveExactTarget"
                /\ w.sched.kind # "SaveExactTarget"

Busy(u, w, H, A, V) ==
  /\ TransitionInv(u, H, A) /\ WorkFits(u, w) /\ NotYet(u, w, H)
  /\ Observed(u, w.kick, H, A, V) /\ Visible(u, w, V)

Views == [shown : BOOLEAN, badge : BOOLEAN, saved : BOOLEAN]
View == [shown |-> shown, badge |-> badge, saved |-> saved]

AtRest(w) == ~Pending(w) /\ w.call.kind = None

Transitions ==
  IF Idling THEN t = Idle /\ AtRest(work)
  ELSE /\ Busy(t, work, Homes, Theres, View)
       /\ drain # 0 => t.ack \/ t.failed
       /\ IF Stopped THEN AtRest(work) ELSE Carried(t, work)

IInv == Types /\ Transitions /\ WorkIsDelivered

-----------------------------------------------------------------------------
(* What starts the pump again. *)

Wakes(r) == r.posted > 0 \/ r.timer \/ r.durable

LEMMA PostingFacts ==
  ASSUME NEW r \in Queues
  PROVE  \A x \in Posting(r) : x.q \in Queues /\ x.ok \in BOOLEAN
                                 /\ (x.ok => x.q.posted > 0 \/ x.q.timer)
<1>1. r.posted \in 0..PostCap /\ r.timer \in BOOLEAN /\ r.durable \in BOOLEAN
        /\ PostCap \in Nat /\ PostCap > 0
  BY PickerMoveAssumption DEF Queues
<1> DEFINE n == IF r.posted < PostCap THEN r.posted + 1 ELSE r.posted
           y == [r EXCEPT !.posted = IF @ < PostCap THEN @ + 1 ELSE @]
           z == [r EXCEPT !.timer = TRUE]
<1>2. n \in 0..PostCap /\ n > 0
  BY <1>1
<1>3. y = [r EXCEPT !.posted = n]
  OBVIOUS
<1> HIDE DEF n
<1>4. y \in Queues /\ y.posted > 0
  BY <1>2, <1>3 DEF Queues
<1>5. z \in Queues /\ z.timer
  BY DEF Queues
<1> HIDE DEF y, z
<1>6. \A x \in Posting(r) : x = Route(y, 0, TRUE) \/ x = Route(z, 1, TRUE)
                              \/ x = Route(r, 1, FALSE)
  BY DEF Posting, y, z
<1>7. \A x \in Posting(r) :
        \/ x.q = y /\ x.ok = TRUE
        \/ x.q = z /\ x.ok = TRUE
        \/ x.q = r /\ x.ok = FALSE
  BY <1>6 DEF Route
<1> QED BY <1>4, <1>5, <1>7

LEMMA DeferralFacts ==
  ASSUME NEW r \in Queues, NEW draining \in BOOLEAN, NEW delayed \in BOOLEAN
  PROVE  \A x \in Deferral(r, draining, delayed) :
           /\ x.q \in Queues /\ x.ok \in BOOLEAN /\ (x.ok => Wakes(x.q))
           /\ ~draining /\ delayed => x.ok
<1>1. CASE draining
  <2>1. Deferral(r, draining, delayed) = {Route(r, 0, FALSE)}
    BY <1>1 DEF Deferral
  <2>2. \A x \in Deferral(r, draining, delayed) : x.q = r /\ x.ok = FALSE
    BY <2>1 DEF Route
  <2> QED BY <1>1, <2>2
<1>2. CASE ~draining /\ delayed
  <2> DEFINE y == [r EXCEPT !.timer = TRUE, !.durable = FALSE]
             z == [r EXCEPT !.durable = TRUE]
  <2>1. y \in Queues /\ y.timer /\ z \in Queues /\ z.durable
    BY DEF Queues
  <2>2. Deferral(r, draining, delayed) = {Route(y, 0, TRUE), Route(z, 1, TRUE)}
    BY <1>2 DEF Deferral
  <2> HIDE DEF y, z
  <2>3. \A x \in Deferral(r, draining, delayed) : (x.q = y \/ x.q = z) /\ x.ok = TRUE
    BY <2>2 DEF Route
  <2> QED BY <1>2, <2>1, <2>3 DEF Wakes
<1>3. CASE ~draining /\ ~delayed
  <2>1. Deferral(r, draining, delayed)
          = {Route(IF x.ok THEN [x.q EXCEPT !.durable = FALSE] ELSE x.q, x.cost, x.ok)
               : x \in Posting(r)}
    BY <1>3 DEF Deferral
  <2> SUFFICES ASSUME NEW x \in Posting(r)
               PROVE  LET y == Route(IF x.ok THEN [x.q EXCEPT !.durable = FALSE] ELSE x.q,
                                     x.cost, x.ok)
                      IN y.q \in Queues /\ y.ok \in BOOLEAN /\ (y.ok => Wakes(y.q))
    BY <1>3, <2>1
  <2>2. x.q \in Queues /\ x.ok \in BOOLEAN /\ (x.ok => x.q.posted > 0 \/ x.q.timer)
    BY PostingFacts
  <2> DEFINE z == [x.q EXCEPT !.durable = FALSE]
  <2>3. z \in Queues /\ z.posted = x.q.posted /\ z.timer = x.q.timer
    BY <2>2 DEF Queues
  <2> HIDE DEF z
  <2> QED BY <2>2, <2>3 DEF Route, Wakes, z
<1> QED BY <1>1, <1>2, <1>3

LEMMA LeavesFacts ==
  ASSUME NEW r, NEW held \in BOOLEAN, NEW spent, r.q \in Queues, held => Wakes(r.q),
         Leaves(r, held, spent)
  PROVE  pump' = "off" /\ q' \in Queues /\ Wakes(q')
<1>1. PICK again \in IF held THEN {Route(r.q, 0, TRUE)} ELSE Deferral(r.q, drain # 0, FALSE) :
        /\ pump' = "off"
        /\ q' = IF again.ok THEN again.q ELSE [again.q EXCEPT !.durable = TRUE]
  BY DEF Leaves, Route
<1>2. again.q \in Queues /\ (again.ok => Wakes(again.q))
  <2>1. CASE held
    BY <1>1, <2>1 DEF Route
  <2>2. CASE ~held
    BY <1>1, <2>2, DeferralFacts
  <2> QED BY <2>1, <2>2
<1> DEFINE z == [again.q EXCEPT !.durable = TRUE]
<1>3. z \in Queues /\ Wakes(z)
  BY <1>2 DEF Queues, Wakes
<1> HIDE DEF z
<1> QED BY <1>1, <1>2, <1>3 DEF z

LEMMA DeferOrGoOnFacts ==
  ASSUME NEW held \in BOOLEAN, q \in Queues, DeferOrGoOn(held)
  PROVE  q' \in Queues /\ (pump' = "run" \/ (pump' = "off" /\ Wakes(q')))
<1>1. PICK r \in Deferral(q, drain # 0, held) :
        IF r.ok THEN Leaves(r, held, left) ELSE q' = r.q /\ pump' = "run"
  BY DEF DeferOrGoOn
<1>2. r.q \in Queues /\ (r.ok => Wakes(r.q))
  BY DeferralFacts
<1>3. r.ok => pump' = "off" /\ q' \in Queues /\ Wakes(q')
  BY <1>1, <1>2, LeavesFacts
<1> QED BY <1>1, <1>2, <1>3

LEMMA StartPumpType ==
  ASSUME NEW r \in Queues
  PROVE  StartPump(r) \in Queues
BY DEF StartPump, Queues

LEMMA DeferOrRunFacts ==
  ASSUME NEW delayed \in BOOLEAN, NEW spent, q \in Queues, DeferOrRun(delayed, spent)
  PROVE  /\ q' \in Queues /\ (pump' = pump \/ (pump = "off" /\ pump' = "run"))
         /\ pump' = "off" => Wakes(q')
<1>1. PICK r \in Deferral(q, drain # 0, delayed) :
        /\ q' = IF ~r.ok /\ pump = "off" THEN StartPump(r.q) ELSE r.q
        /\ pump' = IF ~r.ok /\ pump = "off" THEN "run" ELSE pump
  BY DEF DeferOrRun
<1>2. r.q \in Queues /\ (r.ok => Wakes(r.q)) /\ StartPump(r.q) \in Queues
  BY DeferralFacts, StartPumpType
<1> QED BY <1>1, <1>2

-----------------------------------------------------------------------------
(* What the pump and the user do to a transition and its work. *)

LEMMA Kinds ==
  /\ \A p \in Piece : /\ MoveKind[p] \in Moves /\ ReadKind[p] \in Reads
                      /\ MoveKind[p] \notin {None, "Hide", "SaveExactTarget"}
                      /\ ReadKind[p] \notin {None, "Hide", "SaveExactTarget"}
  /\ \A k \in Moves : \E p \in Piece : k = MoveKind[p]
  /\ "Hide" \notin Moves /\ "SaveExactTarget" \notin Moves /\ None \notin Moves
  /\ None \in EffectKind /\ None # "Hide" /\ None # "SaveExactTarget"
  /\ \A phase : "Hide" \notin Awaits(phase) /\ None \notin Awaits(phase)
  /\ \A phase : "SaveExactTarget" \in Awaits(phase) => phase = "SaveExactTarget"
BY DEF Piece, MoveKind, ReadKind, Moves, Reads, None, EffectKind, Awaits

LEMMA NothingType == Nothing \in Effect /\ Nothing.kind = None /\ Nothing.fresh = FALSE
                       /\ NoObservation \in Blank
                       /\ NoObservation.kind = None /\ NoObservation.fresh = FALSE
BY Kinds DEF Nothing, Effect, Places, NoObservation, Blank

LEMMA KickFields ==
  ASSUME NEW w \in Works
  PROVE  /\ w.kick.fresh \in BOOLEAN /\ w.kick.kind \in EffectKind
         /\ w.kick.fresh => w.kick.kind # None
BY Kinds DEF Works, Seen, Blank

LEMMA StagedFields ==
  ASSUME NEW w \in Works, NEW e \in [kind : EffectKind, to : Places]
  PROVE  LET x == Staged(w, e)
         IN /\ x \in Works /\ x.sched.kind = e.kind /\ x.sched.to = e.to
            /\ x.sched.fresh = TRUE /\ x.call = w.call /\ x.kick = w.kick
            /\ x.terminal = w.terminal
<1> DEFINE s == [kind |-> e.kind, to |-> e.to, fresh |-> TRUE]
           b == e.kind \notin Reads
           x == [w EXCEPT !.sched = s, !.due = b]
<1>1. s \in Effect /\ b \in BOOLEAN
  BY DEF Effect
<1>2. s.kind = e.kind /\ s.to = e.to /\ s.fresh = TRUE
  OBVIOUS
<1>3. Staged(w, e) = x
  BY DEF Staged
<1> HIDE DEF s, b
<1>4. x \in Works /\ x.sched = s /\ x.call = w.call /\ x.kick = w.kick
        /\ x.terminal = w.terminal
  BY <1>1 DEF Works
<1> QED BY <1>2, <1>3, <1>4

\* What the transition waits for now is scheduled.
LEMMA StagedFits ==
  ASSUME NEW u, NEW w \in Works, NEW H, NEW A, NEW V, TransitionInv(u, H, A),
         ~u.ack, u.out = Awaiting(u), ~w.terminal,
         \A p \in Piece : u.pending = MoveKind[p] => u.before[p] \/ p \in H,
         ~w.kick.fresh, CallFits(u, w.call),
         w.call.kind # None => /\ w.kick.kind = None /\ ~w.call.fresh
                               /\ u.dismissed /\ u.pending = "Hide",
         Visible(u, [w EXCEPT !.sched = Nothing], V),
         u.pending = "SaveExactTarget" => ~V.saved
  PROVE  LET x == Staged(w, u.out)
         IN /\ x \in Works /\ x.call = w.call
            /\ Busy(u, x, H, A, V) /\ Carried(u, x)
<1> DEFINE x == Staged(w, u.out)
<1>1. /\ u \in Transition /\ u.pending # None
      /\ u.pending = "SaveExactTarget" => u.phase = "SaveExactTarget"
  BY Kinds DEF TransitionInv, Sound, PendingInv
<1>2. u.out \in [kind : EffectKind, to : Places]
  BY <1>1 DEF Transition
<1>3. u.out.kind = u.pending /\ u.out.to = EffectDesktop(u, u.pending)
  BY DEF Awaiting
<1>4. /\ x \in Works /\ x.sched.kind = u.pending
      /\ x.sched.to = EffectDesktop(u, u.pending)
      /\ x.sched.fresh = TRUE /\ x.call = w.call /\ x.kick = w.kick
      /\ x.terminal = w.terminal
  BY <1>2, <1>3, StagedFields
<1>5. [w EXCEPT !.sched = Nothing].call = w.call
  BY DEF Works
<1> HIDE DEF x
<1>6. WorkFits(u, x)
  BY <1>1, <1>4 DEF WorkFits
<1>7. NotYet(u, x, H) /\ Carried(u, x)
  BY <1>1, <1>4 DEF NotYet, Carried
<1>8. Observed(u, x.kick, H, A, V)
  BY <1>4 DEF Observed
<1>9. Visible(u, x, V)
  BY <1>4, <1>5 DEF Visible
<1> QED BY <1>4, <1>6, <1>7, <1>8, <1>9 DEF Busy, x

\* The transition is over, but for its reservation.
LEMMA TerminalFits ==
  ASSUME NEW u, NEW w \in Works, NEW H, NEW A, NEW V, TransitionInv(u, H, A),
         u.ack, w.sched.kind = None, w.call.kind = None, ~w.kick.fresh, Visible(u, w, V)
  PROVE  LET x == [w EXCEPT !.terminal = TRUE]
         IN /\ x \in Works /\ x.call = w.call /\ Busy(u, x, H, A, V) /\ Carried(u, x)
<1> DEFINE x == [w EXCEPT !.terminal = TRUE]
<1>1. x \in Works /\ x.call = w.call /\ x.sched = w.sched /\ x.kick = w.kick
  BY DEF Works
<1> HIDE DEF x
<1>2. WorkFits(u, x)
  BY <1>1, Kinds DEF WorkFits, CallFits
<1>3. NotYet(u, x, H) /\ Carried(u, x) /\ Observed(u, x.kick, H, A, V) /\ Visible(u, x, V)
  BY <1>1 DEF NotYet, Carried, Observed, Visible
<1> QED BY <1>1, <1>2, <1>3 DEF Busy, x

\* Nothing that the work depends on has changed.
Alike(x, u) ==
  /\ u.phase = x.phase /\ u.pending = x.pending /\ u.moved = x.moved
  /\ u.before = x.before /\ u.ack = x.ack /\ u.mode = x.mode /\ u.dest = x.dest
  /\ u.origin = x.origin /\ u.hideDone = x.hideDone /\ (u.cutoff <=> x.cutoff)
  /\ (x.failed => u.failed) /\ (x.dismissed => u.dismissed)

LEMMA AlikeBusy ==
  ASSUME NEW x, NEW u, NEW w, NEW H, NEW A, NEW V, Busy(x, w, H, A, V),
         TransitionInv(u, H, A), Alike(x, u)
  PROVE  Busy(u, w, H, A, V) /\ (Carried(x, w) => Carried(u, w))
<1>1. \A k : EffectDesktop(u, k) = EffectDesktop(x, k)
  BY DEF Alike, EffectDesktop
<1>2. WorkFits(u, w)
  BY <1>1 DEF Busy, Alike, WorkFits, CallFits
<1>3. NotYet(u, w, H) /\ (Carried(x, w) => Carried(u, w))
  BY DEF Busy, Alike, NotYet, Carried
<1>4. Observed(u, w.kick, H, A, V)
  BY DEF Busy, Alike, Observed, Truthful
<1>5. Visible(u, w, V)
  BY DEF Busy, Alike, Visible, Follower, Visual
<1> QED BY <1>2, <1>3, <1>4, <1>5 DEF Busy

\* What the user and the layout may see of a step of the reducer.
Promised(x, u, recorded) ==
  /\ KeptBy(x) => KeptBy(u) \/ (u.failed /\ ~recorded)
  /\ ~KeptBy(x) /\ x.failed => ~KeptBy(u) /\ u.failed

Scheduled(u, w) ==
  CASE u.out.kind # None -> Staged(w, u.out)
    [] u.out.kind = None /\ u.ack -> [w EXCEPT !.terminal = TRUE]
    [] OTHER -> w

Consumed(w) == [w EXCEPT !.kick = NoObservation]

LEMMA ConsumedFields ==
  ASSUME NEW w \in Works
  PROVE  LET x == Consumed(w)
         IN /\ x \in Works /\ x.sched = w.sched /\ x.call = w.call
            /\ x.terminal = w.terminal /\ x.kick = NoObservation /\ x.due = w.due
BY NothingType DEF Works, Consumed

LEMMA ConsumeFacts ==
  ASSUME NEW x, NEW w \in Works, NEW H, NEW A, NEW V, Busy(x, w, H, A, V), Carried(x, w),
         w.kick.kind # None
  PROVE  LET u == Advance(x, w.kick)
             y == Scheduled(u, Consumed(w))
         IN /\ y \in Works /\ y.call.kind = None /\ Busy(u, y, H, A, V) /\ Carried(u, y)
            /\ (x.ack \/ x.failed => u.ack \/ u.failed) /\ Kin(x, u)
            /\ Promised(x, u, V.saved)
<1> DEFINE o == w.kick
           u == Advance(x, o)
           v == Consumed(w)
<1>1. /\ TransitionInv(x, H, A) /\ WorkFits(x, w) /\ NotYet(x, w, H)
      /\ Observed(x, w.kick, H, A, V) /\ Visible(x, w, V) /\ w.call.kind = None
  BY DEF Busy, WorkFits
<1>2. /\ v \in Works /\ v.sched = w.sched /\ v.call = w.call
      /\ v.terminal = w.terminal /\ v.kick = NoObservation
  BY ConsumedFields
<1> HIDE DEF v
<1>3. CASE o.fresh
  <2>1. o.kind = x.pending /\ w.sched.kind = None /\ ~x.ack /\ ~w.terminal
    BY <1>1, <1>3 DEF WorkFits
  <2>2. Truthful(x, o, H, A)
    BY <1>1, <1>3 DEF Observed
  <2>3. Step(x, o, u, H, A)
    BY <1>1, <1>3, <2>1, <2>2, AdvanceStep
  <2> HIDE DEF u
  <2>4. /\ TransitionInv(u, H, A) /\ Kin(x, u) /\ u.out = IF u.ack THEN NoEffect ELSE Awaiting(u)
        /\ \A p \in Piece : u.pending = MoveKind[p] => u.before[p] \/ p \in H
    BY <2>3 DEF Step, Answer
  <2>5. V.saved => ~SaveRefused(o)
    BY <1>1, <1>3 DEF Observed, SaveRefused
  <2>6. V.saved => u.cutoff /\ u.pending # "SaveExactTarget"
    BY <1>1, <2>3, <2>5 DEF Step, Visible
  <2>7. ASSUME NEW z, z.call.kind = None, z.sched.kind = None
        PROVE  Visible(u, z, V)
    <3>1. u.hideDone => ~V.shown
      BY <1>1, <1>3, <2>3 DEF Step, Visible, Observed
    <3>2. u.ack /\ ~u.failed /\ Follower(u) => V.shown
      BY <1>1, <1>3, <2>3 DEF Step, Observed
    <3>3. Visual(u) /\ ~u.failed /\ (u.phase = "FocusRestore" \/ u.ack) => V.badge
      <4>1. Visual(u) <=> Visual(x)
        BY <2>4 DEF Kin, Visual
      <4> QED BY <1>1, <1>3, <2>3, <4>1 DEF Step, Observed, Visible
    <3> QED BY <2>6, <2>7, <3>1, <3>2, <3>3, Kinds DEF Visible
  <2>8. Promised(x, u, V.saved)
    BY <2>3, <2>5 DEF Step, Promised
  <2>9. /\ Scheduled(u, v) \in Works /\ Scheduled(u, v).call.kind = None
        /\ Busy(u, Scheduled(u, v), H, A, V) /\ Carried(u, Scheduled(u, v))
    <3>1. CASE u.ack
      <4>1. Scheduled(u, v) = [v EXCEPT !.terminal = TRUE]
        BY <2>4, <3>1 DEF Scheduled, NoEffect
      <4>2. Visible(u, v, V)
        BY <1>1, <1>2, <2>1, <2>7
      <4> QED BY <1>1, <1>2, <2>1, <2>4, <3>1, <4>1, <4>2, NothingType, TerminalFits
    <3>2. CASE ~u.ack
      <4>1. u.out.kind = u.pending /\ u.pending # None
        BY <2>4, <3>2, Kinds DEF Awaiting, TransitionInv, PendingInv
      <4>2. Scheduled(u, v) = Staged(v, u.out)
        BY <4>1 DEF Scheduled
      <4>3. CallFits(u, v.call)
        BY <1>1, <1>2, Kinds DEF CallFits
      <4>4. [v EXCEPT !.sched = Nothing].call = v.call
              /\ [v EXCEPT !.sched = Nothing].sched = Nothing
        BY <1>2 DEF Works
      <4>5. Visible(u, [v EXCEPT !.sched = Nothing], V)
        BY <1>1, <1>2, <2>7, <4>4, NothingType
      <4> QED BY <1>1, <1>2, <2>1, <2>4, <2>6, <3>2, <4>2, <4>3, <4>5, NothingType, StagedFits
    <3> QED BY <3>1, <3>2
  <2>10. x.failed => u.failed
    BY <2>3 DEF Step
  <2> QED BY <2>1, <2>4, <2>8, <2>9, <2>10 DEF u, v
<1>4. CASE ~o.fresh
  <2>1. u = Ignored(x)
    BY <1>4, AdvanceIgnores
  <2> HIDE DEF u
  <2>2. /\ TransitionInv(u, H, A) /\ Same(x, u) /\ u.pending = x.pending
        /\ u.out = NoEffect /\ (KeptBy(u) <=> KeptBy(x)) /\ Kin(x, u)
    BY <1>1, <2>1, IgnoredFacts
  <2>3. Alike(x, u)
    BY <2>2 DEF Same, Frame, Counts, Alike
  <2>4. Busy(u, w, H, A, V) /\ Carried(u, w)
    BY <2>2, <2>3, AlikeBusy
  <2>5. Busy(u, v, H, A, V) /\ Carried(u, v)
    BY <1>1, <1>2, <1>4, <2>4, NothingType DEF Busy, WorkFits, NotYet, Observed, Visible, Carried
  <2>6. Promised(x, u, V.saved) /\ (x.ack \/ x.failed => u.ack \/ u.failed)
    BY <2>2 DEF Promised, Same, Frame
  <2>7. u.out.kind = None
    BY <2>2 DEF NoEffect
  <2>8. CASE u.ack
    <3>1. Scheduled(u, v) = [v EXCEPT !.terminal = TRUE]
      BY <2>7, <2>8 DEF Scheduled
    <3>2. v.sched.kind = None /\ ~v.kick.fresh /\ Visible(u, v, V) /\ v.call.kind = None
      BY <1>1, <1>2, <2>5, <2>8, NothingType DEF Busy, WorkFits
    <3> QED BY <1>2, <2>2, <2>6, <2>8, <3>1, <3>2, TerminalFits DEF u, v
  <2>9. CASE ~u.ack
    <3>1. Scheduled(u, v) = v
      BY <2>7, <2>9 DEF Scheduled
    <3> QED BY <1>1, <1>2, <2>2, <2>5, <2>6, <3>1 DEF u, v
  <2> QED BY <2>8, <2>9
<1>5. o.fresh \in BOOLEAN
  BY KickFields
<1> QED BY <1>3, <1>4, <1>5

\* The same as Discards and Cancelled, of any transition and work.
DiscardsOf(x, w) ==
  /\ w.sched.fresh /\ w.sched.kind \notin {None, "Hide"}
  /\ ~x.dismissed /\ ~x.cancelled
  /\ ~(x.phase = "SaveExactTarget" /\ x.cutoff) /\ x.phase # "RefreshModel"

Cleared(w) == [w EXCEPT !.sched = Nothing, !.due = FALSE]

CancelledOf(x, w) ==
  LET u == CancelRequested(x, DiscardsOf(x, w))
  IN Queued(u, Superseded(IF DiscardsOf(x, w) THEN Cleared(w) ELSE w, u))

LEMMA CancelledIs == Cancelled = CancelledOf(t, work)
BY DEF Cancelled, CancelledOf, Discards, DiscardsOf, Cleared

LEMMA ClearedFields ==
  ASSUME NEW w \in Works
  PROVE  LET x == Cleared(w)
         IN /\ x \in Works /\ x.sched = Nothing /\ x.call = w.call
            /\ x.terminal = w.terminal /\ x.kick = w.kick
BY NothingType DEF Works, Cleared

Stale(w) == [w EXCEPT !.call.fresh = FALSE, !.kick.fresh = FALSE, !.sched.fresh = FALSE]

LEMMA StaleFields ==
  ASSUME NEW w \in Works
  PROVE  LET x == Stale(w)
         IN /\ x \in Works /\ x.sched.kind = w.sched.kind /\ x.call.kind = w.call.kind
            /\ x.call.to = w.call.to /\ x.kick.kind = w.kick.kind
            /\ x.terminal = w.terminal /\ x.call.fresh = FALSE /\ x.kick.fresh = FALSE
<1> DEFINE x == Stale(w)
           s == [w.sched EXCEPT !.fresh = FALSE]
           c == [w.call EXCEPT !.fresh = FALSE]
           k == [w.kick EXCEPT !.fresh = FALSE]
<1>1. w.sched \in Effect /\ w.call \in Effect /\ w.kick \in Seen \cup Blank
  BY DEF Works
<1>2. /\ s \in Effect /\ c \in Effect /\ s.kind = w.sched.kind /\ c.kind = w.call.kind
      /\ c.to = w.call.to /\ c.fresh = FALSE
  BY <1>1 DEF Effect
<1>3. k \in Seen \cup Blank /\ k.kind = w.kick.kind /\ k.fresh = FALSE
  <2>1. CASE w.kick \in Seen
    BY <2>1 DEF Seen
  <2>2. CASE w.kick \in Blank
    BY <2>2 DEF Blank
  <2> QED BY <1>1, <2>1, <2>2
<1>4. x = [w EXCEPT !.call = c, !.kick = k, !.sched = s]
  BY DEF Stale, Works
<1> HIDE DEF x, s, c, k
<1>5. x \in Works /\ x.call = c /\ x.kick = k /\ x.sched = s /\ x.terminal = w.terminal
  BY <1>1, <1>2, <1>3, <1>4 DEF Works
<1> QED BY <1>2, <1>3, <1>5 DEF x

LEMMA QueuedIs ==
  ASSUME NEW u, NEW w, w.sched.kind = None \/ u.out.kind = None
  PROVE  /\ Queued(u, w).t = u /\ Queued(u, w).work = Scheduled(u, w)
         /\ Queued(u, w).post = CASE u.out.kind # None /\ u.out.kind \in Reads -> "later"
                                  [] u.out.kind # None /\ u.out.kind \notin Reads -> "now"
                                  [] u.out.kind = None /\ u.ack -> "now"
                                  [] OTHER -> "no"
<1>1. CASE u.out.kind # None
  BY <1>1 DEF Queued, Scheduled
<1>2. CASE u.out.kind = None /\ u.ack
  BY <1>2 DEF Queued, Scheduled
<1>3. CASE u.out.kind = None /\ ~u.ack
  BY <1>3 DEF Queued, Scheduled
<1> QED BY <1>1, <1>2, <1>3

LEMMA CancelFacts ==
  ASSUME NEW x, NEW w \in Works, NEW H, NEW A, NEW V, Busy(x, w, H, A, V), Carried(x, w),
         ~x.dismissed
  PROVE  LET c == CancelledOf(x, w)
         IN /\ c.work \in Works /\ c.work.call.kind = w.call.kind
            /\ Busy(c.t, c.work, H, A, V) /\ Carried(c.t, c.work)
            /\ c.t.ack \/ c.t.failed
            /\ Sibling(x, c.t) /\ Promised(x, c.t, V.saved)
            /\ c.post \in {"no", "now", "later"}
            /\ c.post = "no" => c.work = w
<1> DEFINE d == DiscardsOf(x, w)
           u == CancelRequested(x, d)
           v == IF d THEN Cleared(w) ELSE w
           z == Superseded(v, u)
           c == CancelledOf(x, w)
<1>1. /\ TransitionInv(x, H, A) /\ WorkFits(x, w) /\ NotYet(x, w, H)
      /\ Observed(x, w.kick, H, A, V) /\ Visible(x, w, V)
  BY DEF Busy
<1>2. c = Queued(u, z)
  BY DEF CancelledOf
<1>3. z = IF u.out.kind = None THEN v ELSE Stale(v)
  BY DEF Superseded, Stale
<1>4. d \in BOOLEAN
  BY DEF DiscardsOf
<1>5. d => /\ Retractable(x) /\ w.sched.kind = x.pending /\ w.call.kind = None
           /\ ~x.ack /\ w.sched.kind # None
           /\ \A p \in Piece : x.pending = MoveKind[p] => x.before[p] \/ p \in H
  BY <1>1 DEF DiscardsOf, Retractable, WorkFits, NotYet
<1>6. ~d /\ w.sched.kind # None
        => x.pending = "Hide" \/ x.cancelled \/ x.phase \in {"SaveExactTarget", "RefreshModel"}
  BY <1>1 DEF DiscardsOf, WorkFits
<1>7. x.pending = "Hide" => x.dismissed
  BY <1>1, Kinds DEF TransitionInv, PendingInv
<1>8. w.call.kind # None => w.call.fresh /\ w.kick.kind = None
  BY <1>1 DEF WorkFits
<1>9. w.terminal => x.ack
  BY <1>1 DEF WorkFits
<1> HIDE DEF d
<1>10. CancelStep(x, u, d, H, A)
  BY <1>1, <1>4, <1>5, CancelRequestedStep
<1>11. v \in Works /\ v.call = w.call /\ v.kick = w.kick /\ v.terminal = w.terminal
         /\ v.sched = IF d THEN Nothing ELSE w.sched
  BY ClearedFields
<1>12. /\ Stale(v) \in Works /\ Stale(v).sched.kind = v.sched.kind
       /\ Stale(v).call.kind = v.call.kind /\ Stale(v).call.to = v.call.to
       /\ Stale(v).kick.kind = v.kick.kind /\ Stale(v).terminal = v.terminal
       /\ Stale(v).call.fresh = FALSE /\ Stale(v).kick.fresh = FALSE
  BY <1>11, StaleFields
<1> HIDE DEF u, v, z, c
<1>13. TransitionInv(u, H, A) /\ Sibling(x, u) /\ (KeptBy(u) <=> KeptBy(x))
  BY <1>10 DEF CancelStep
<1>14. Promised(x, u, V.saved)
  BY <1>13 DEF Promised, Sibling
<1>15. CASE Waits(x, u) /\ ~d
  <2>1. Alike(x, u)
    BY <1>13, <1>15 DEF Waits, Sibling, Alike
  <2>2. Busy(u, w, H, A, V) /\ Carried(u, w)
    BY <1>13, <2>1, AlikeBusy
  <2>3. u.out.kind = None /\ z = w
    BY <1>3, <1>15 DEF Waits, NoEffect, v
  <2>4. c.t = u /\ c.work = Scheduled(u, w) /\ c.post = IF u.ack THEN "now" ELSE "no"
    BY <1>2, <2>3, QueuedIs
  <2>5. u.ack \/ u.failed
    BY <1>15 DEF Waits
  <2>6. CASE u.ack
    <3>1. Scheduled(u, w) = [w EXCEPT !.terminal = TRUE]
      BY <2>3, <2>6 DEF Scheduled
    <3>2. w.sched.kind = None /\ w.call.kind = None /\ ~w.kick.fresh /\ Visible(u, w, V)
      <4>1. w.kick.kind = None => ~w.kick.fresh
        BY KickFields
      <4> QED BY <1>8, <2>2, <2>6, <4>1 DEF Busy, WorkFits
    <3>3. /\ c.work \in Works /\ c.work.call = w.call
          /\ Busy(u, c.work, H, A, V) /\ Carried(u, c.work)
      BY <1>13, <2>4, <2>6, <3>1, <3>2, TerminalFits
    <3> QED BY <1>13, <1>14, <2>4, <2>5, <2>6, <3>3 DEF c
  <2>7. CASE ~u.ack
    <3>1. Scheduled(u, w) = w
      BY <2>3, <2>7 DEF Scheduled
    <3> QED BY <1>13, <1>14, <2>2, <2>4, <2>5, <2>7, <3>1 DEF c
  <2> QED BY <2>6, <2>7
<1>16. CASE Turns(x, u, d, H)
  <2>1. /\ u.failed /\ ~x.ack /\ u.out = IF u.ack THEN NoEffect ELSE Awaiting(u)
        /\ u.pending # "SaveExactTarget"
        /\ \A p \in Piece : u.pending = MoveKind[p] => u.before[p] \/ p \in H
        /\ ~d => /\ u.pending = "Hide" /\ u.dismissed /\ u.phase = x.phase
                 /\ u.moved = x.moved /\ u.before = x.before /\ ~u.ack
                 /\ ~x.cancelled /\ ~x.dismissed
                 /\ x.phase \notin {"SaveExactTarget", "RefreshModel"}
    BY <1>16 DEF Turns
  <2>2. v.sched.kind = None
    BY <1>6, <1>7, <1>11, <2>1, NothingType
  <2>3. ~w.terminal
    BY <1>9, <2>1
  <2>4. u.ack <=> u.out.kind = None
    BY <1>13, <2>1, Kinds DEF NoEffect, Awaiting, TransitionInv, PendingInv
  <2>5. ASSUME NEW y, y.call.kind = w.call.kind, y.sched.kind = None
        PROVE  Visible(u, y, V)
    BY <1>1, <1>13, <2>1, <2>5, Kinds DEF Visible, Sibling
  <2>6. /\ z \in Works /\ z.sched.kind = None /\ ~z.terminal /\ z.call.kind = w.call.kind
        /\ z.call.to = w.call.to /\ z.kick.kind = w.kick.kind
        /\ ~u.ack => z.call.fresh = FALSE /\ z.kick.fresh = FALSE
    BY <1>3, <1>11, <1>12, <2>2, <2>3, <2>4
  <2>7. /\ c.t = u /\ c.work = Scheduled(u, z) /\ c.post \in {"now", "later"}
    BY <1>2, <2>4, <2>6, QueuedIs
  <2>8. CASE u.ack
    <3>1. d /\ z = v
      BY <1>3, <2>1, <2>4, <2>8
    <3>2. ~z.kick.fresh
      BY <1>1, <1>5, <1>11, <3>1, KickFields DEF WorkFits
    <3>3. Visible(u, z, V)
      BY <2>5, <2>6
    <3>4. Scheduled(u, z) = [z EXCEPT !.terminal = TRUE]
      BY <2>4, <2>8 DEF Scheduled
    <3>5. z.call.kind = None
      BY <1>5, <2>6, <3>1
    <3> QED BY <1>13, <1>14, <2>1, <2>6, <2>7, <2>8, <3>2, <3>3, <3>4, <3>5, TerminalFits DEF c
  <2>9. CASE ~u.ack
    <3>1. Scheduled(u, z) = Staged(z, u.out)
      BY <2>4, <2>9 DEF Scheduled
    <3>2. [z EXCEPT !.sched = Nothing].call = z.call
            /\ [z EXCEPT !.sched = Nothing].sched = Nothing
      BY <2>6 DEF Works
    <3>3. Visible(u, [z EXCEPT !.sched = Nothing], V)
      BY <2>5, <2>6, <3>2, NothingType
    <3>4. w.call.kind # None => ~d
      BY <1>5
    <3>5. CallFits(u, z.call)
      <4>1. CASE w.call.kind = None
        BY <2>6, <4>1, Kinds DEF CallFits
      <4>2. CASE w.call.kind # None
        <5>1. ~d /\ w.call.kind = x.pending
          BY <1>1, <1>8, <3>4, <4>2 DEF WorkFits
        <5>2. w.call.kind # "SaveExactTarget" /\ u.dismissed
          BY <1>1, <2>1, <5>1, Kinds DEF TransitionInv, PendingInv
        <5>3. \A k : EffectDesktop(u, k) = EffectDesktop(x, k)
          BY <1>13, <2>1, <5>1 DEF Sibling, EffectDesktop
        <5> QED BY <1>1, <2>1, <2>6, <5>1, <5>2, <5>3 DEF CallFits, WorkFits
      <4> QED BY <4>1, <4>2
    <3>6. z.call.kind # None => /\ z.kick.kind = None /\ ~z.call.fresh
                                /\ u.dismissed /\ u.pending = "Hide"
      BY <1>8, <2>1, <2>6, <2>9, <3>4
    <3> QED BY <1>13, <1>14, <2>1, <2>6, <2>7, <2>9, <3>1, <3>3, <3>5, <3>6, StagedFits DEF c
  <2> QED BY <2>8, <2>9
<1> QED BY <1>10, <1>15, <1>16 DEF CancelStep

Executing(w) == [w EXCEPT !.sched = Nothing, !.due = FALSE, !.call = w.sched]

LEMMA ExecuteFacts ==
  ASSUME NEW x, NEW w \in Works, NEW H, NEW A, NEW V, Busy(x, w, H, A, V),
         w.call.kind = None, w.kick.kind = None, w.sched.kind # None
  PROVE  LET y == Executing(w)
         IN y \in Works /\ y.call.kind # None /\ Busy(x, y, H, A, V) /\ Carried(x, y)
<1> DEFINE y == Executing(w)
<1>1. /\ TransitionInv(x, H, A) /\ WorkFits(x, w) /\ NotYet(x, w, H)
      /\ Observed(x, w.kick, H, A, V) /\ Visible(x, w, V)
  BY DEF Busy
<1>2. /\ y \in Works /\ y.sched = Nothing /\ y.call = w.sched /\ y.kick = w.kick
      /\ y.terminal = w.terminal
  BY NothingType DEF Executing, Works
<1> HIDE DEF y
<1>3. /\ w.sched.fresh /\ w.sched.kind = x.pending /\ ~x.ack
      /\ w.sched.to = EffectDesktop(x, w.sched.kind)
  BY <1>1 DEF WorkFits
<1>4. CallFits(x, w.sched)
  BY <1>1, <1>3, Kinds DEF CallFits, TransitionInv, PendingInv
<1>5. WorkFits(x, y) /\ Carried(x, y)
  BY <1>1, <1>2, <1>3, <1>4, NothingType DEF WorkFits, Carried
<1>6. NotYet(x, y, H) /\ Observed(x, y.kick, H, A, V) /\ Visible(x, y, V)
  BY <1>1, <1>2, NothingType, Kinds DEF NotYet, Observed, Visible
<1> QED BY <1>1, <1>2, <1>5, <1>6 DEF Busy, y

Reported(w, o) == [w EXCEPT !.call = Nothing, !.kick = o]

LEMMA ReportedFields ==
  ASSUME NEW w \in Works, NEW o \in Seen
  PROVE  LET y == Reported(w, o)
         IN /\ y \in Works /\ y.sched = w.sched /\ y.call = Nothing /\ y.kick = o
            /\ y.terminal = w.terminal
BY NothingType DEF Reported, Works

LEMMA ReturnFacts ==
  ASSUME NEW x, NEW w \in Works, NEW H, NEW A, NEW V, NEW o \in Seen, NEW I, NEW B,
         NEW S, NEW y, y = Reported(w, o),
         Busy(x, w, H, A, V), Carried(x, w), o.kind = w.call.kind,
         o.fresh = w.call.fresh, w.call.kind # None, TransitionInv(x, I, B),
         Observed(x, o, I, B, S), Visible(x, y, S)
  PROVE  y \in Works /\ y.call.kind = None /\ Busy(x, y, I, B, S) /\ Carried(x, y)
<1>1. WorkFits(x, w) /\ o.kind # None
  BY DEF Busy, Seen
<1>2. /\ y \in Works /\ y.sched = w.sched /\ y.call = Nothing /\ y.kick = o
      /\ y.terminal = w.terminal
  BY ReportedFields
<1>3. WorkFits(x, y) /\ Carried(x, y)
  BY <1>1, <1>2, NothingType, Kinds DEF WorkFits, Carried, CallFits
<1>4. NotYet(x, y, I)
  BY <1>1, <1>2, NothingType, Kinds DEF NotYet, WorkFits
<1>5. Busy(x, y, I, B, S)
  BY <1>2, <1>3, <1>4 DEF Busy
<1> QED BY <1>2, <1>3, <1>5, NothingType

LEMMA ObservationType ==
  ASSUME NEW e \in Effect, e.kind # None
  PROVE  LET o == Observation(e)
         IN /\ o \in Seen /\ o.kind = e.kind /\ o.fresh = e.fresh /\ o.match = FALSE
            /\ o.invoked = FALSE /\ o.seen = NoDesktop /\ o.ok = FALSE /\ o.save = "Failed"
BY DEF Effect, Observation, Seen, Saves, Places

Assumed(w) ==
  [w EXCEPT !.sched = Nothing, !.due = FALSE,
            !.kick = [Observation(w.sched) EXCEPT !.ok = TRUE]]

LEMMA AcknowledgeFactsWithoutUi ==
  ASSUME NEW x, NEW w \in Works, NEW H, NEW A, NEW V, Busy(x, w, H, A, V),
         w.call.kind = None, w.kick.kind = None, w.sched.kind \in WithoutUi, x.ack \/ x.failed
  PROVE  LET y == Assumed(w)
         IN y \in Works /\ y.call.kind = None /\ Busy(x, y, H, A, V) /\ Carried(x, y)
<1> DEFINE y == Assumed(w)
           o == [Observation(w.sched) EXCEPT !.ok = TRUE]
<1>1. /\ TransitionInv(x, H, A) /\ WorkFits(x, w) /\ NotYet(x, w, H)
      /\ Observed(x, w.kick, H, A, V) /\ Visible(x, w, V)
  BY DEF Busy
<1>2. w.sched.kind # None /\ w.sched.kind \notin Moves /\ w.sched.kind \notin Reads
        /\ w.sched.kind \notin {"Hide", "SaveExactTarget"} /\ w.sched \in Effect
  BY DEF WithoutUi, None, Moves, Reads, Piece, MoveKind, ReadKind, Works
<1>3. /\ o \in Seen /\ o.kind = w.sched.kind /\ o.fresh = w.sched.fresh
      /\ o.seen = NoDesktop
  BY <1>2, ObservationType DEF Seen
<1> HIDE DEF o
<1>4. y = [w EXCEPT !.sched = Nothing, !.due = FALSE, !.kick = o]
  BY DEF Assumed, o
<1>5. /\ y \in Works /\ y.sched = Nothing /\ y.call = w.call /\ y.kick = o
      /\ y.terminal = w.terminal
  BY <1>3, <1>4, NothingType DEF Works
<1> HIDE DEF y
<1>6. w.sched.fresh /\ w.sched.kind = x.pending /\ ~x.ack /\ x.failed
  BY <1>1, <1>2 DEF WorkFits
<1>7. WorkFits(x, y) /\ Carried(x, y)
  BY <1>1, <1>2, <1>3, <1>5, <1>6, NothingType, Kinds DEF WorkFits, Carried, CallFits
<1>8. NotYet(x, y, H) /\ Visible(x, y, V)
  BY <1>1, <1>5, NothingType, Kinds DEF NotYet, Visible
<1>9. Truthful(x, o, H, A)
  <2>1. o.kind \notin Moves /\ o.kind \notin Reads
    BY <1>2, <1>3
  <2>2. o.kind # "ReadPopup" /\ o.kind \notin {"MoveTarget", "SwitchDesktop"}
    BY <2>1 DEF Moves, Reads, Piece, MoveKind, ReadKind
  <2> QED BY <1>3, <2>1, <2>2, Kinds DEF Truthful, Seen, Saves
<1>10. Observed(x, o, H, A, V)
  BY <1>2, <1>3, <1>6, <1>9 DEF Observed
<1> QED BY <1>1, <1>5, <1>7, <1>8, <1>10 DEF Busy, y

\* What others do to the places only leaves more out of account.
LEMMA DisturbedBusy ==
  ASSUME NEW x, NEW w, NEW H, NEW A, NEW V, Busy(x, w, H, A, V), NEW I, NEW B,
         \A p \in Piece : (p \in H => p \in I) /\ (p \in A => p \in B)
  PROVE  Busy(x, w, I, B, V)
<1>1. TransitionInv(x, I, B)
  BY PlacesChange DEF Busy
<1>2. NotYet(x, w, I)
  BY DEF Busy, NotYet
<1>3. Observed(x, w.kick, I, B, V)
  <2>1. "popup" \in Piece
    BY DEF Piece
  <2>2. Truthful(x, w.kick, H, A) => Truthful(x, w.kick, I, B)
    BY <2>1 DEF Truthful
  <2> QED BY <2>2 DEF Busy, Observed
<1> QED BY <1>1, <1>2, <1>3 DEF Busy

\* A call that moves a piece moves one that is not counted as being home, and
\* in a phase that goes forward moves it to the destination.
LEMMA MovedTo ==
  ASSUME NEW x, NEW w, NEW H, NEW A, NEW V, Busy(x, w, H, A, V), NEW p \in Piece,
         w.call.kind = MoveKind[p]
  PROVE  /\ w.call.to \in Desktops /\ x.moved[p]
         /\ x.phase \in Backward \/ w.call.to = x.dest
<1>1. /\ x \in Transition /\ x.moved[p] /\ w.call.to = EffectDesktop(x, MoveKind[p])
      /\ MoveKind[p] \in Awaits(x.phase)
  BY Kinds DEF Busy, WorkFits, CallFits, TransitionInv, Sound
<1>2. x.dest \in Desktops /\ \A r \in Piece : x.origin[r] \in Desktops
  BY <1>1 DEF Transition
<1>3. EffectDesktop(x, MoveKind[p]) \in Desktops
  BY <1>2 DEF EffectDesktop, Moves, MoveKind, Piece
<1>4. x.phase \in Backward \/ EffectDesktop(x, MoveKind[p]) = x.dest
  BY DEF EffectDesktop, Moves, MoveKind, Piece, Backward, TargetBack, PopupBack, SwitchBack
<1> QED BY <1>1, <1>3, <1>4

-----------------------------------------------------------------------------
(* The steps that leave the transition and its work alone. *)

LEMMA Facts ==
  ASSUME IInv
  PROVE  /\ Types
         /\ ~Idling => /\ Busy(t, work, Homes, Theres, View) /\ t \in Transition
                       /\ drain # 0 => t.ack \/ t.failed
                       /\ ~Stopped => Carried(t, work)
         /\ Idling \/ Stopped => AtRest(work)
         /\ Idling => t = Idle
BY DEF IInv, Transitions, Busy, TransitionInv, Sound

LEMMA SamePlaces ==
  ASSUME at' = at, calm' = calm, t'.origin = t.origin, t'.dest = t.dest
  PROVE  Homes' = Homes /\ Theres' = Theres
BY DEF Homes, Theres, Home

LEMMA PumpOnly ==
  ASSUME IInv, UNCHANGED <<t, work, world>>, q' \in Queues,
         drain' \in 0..Passes + 1, drain' # 0 => drain # 0,
         quit' \in {"no", "ask", "end", "ended"}, quit' = "ended" <=> quit = "ended",
         pump' \in {"off", "run", "call"}, pump' = "call" <=> pump = "call",
         pump' = "off" /\ drain' = 0 /\ Pending(work) => Wakes(q')
  PROVE  IInv'
<1>1. t' = t /\ work' = work /\ at' = at /\ alive' = alive /\ calm' = calm
        /\ shown' = shown /\ badge' = badge /\ saved' = saved
  BY DEF world
<1>2. Types'
  BY <1>1 DEF IInv, Types
<1>3. Homes' = Homes /\ Theres' = Theres /\ View' = View
  BY <1>1, SamePlaces DEF View
<1>4. Transitions'
  BY <1>1, <1>3 DEF IInv, Transitions, Idling, Stopped
<1>5. WorkIsDelivered'
  BY <1>1 DEF WorkIsDelivered, Wakes, Pending
<1> QED BY <1>2, <1>4, <1>5 DEF IInv

LEMMA MessageKeeps ==
  ASSUME IInv, Message
  PROVE  IInv'
<1>1. q \in Queues /\ drain \in 0..Passes + 1 /\ quit \in {"no", "ask", "end", "ended"}
  BY DEF IInv, Types
<1>2. ASSUME NEW r \in Queues, Starts(r)
      PROVE  IInv'
  BY <1>1, <1>2, StartPumpType, PumpOnly DEF Starts
<1>3. q.posted > 0 => [q EXCEPT !.posted = @ - 1] \in Queues
  <2>1. q.posted \in 0..PostCap /\ PostCap \in Nat
    BY <1>1, PickerMoveAssumption DEF Queues
  <2>2. q.posted > 0 => q.posted - 1 \in 0..PostCap
    BY <2>1
  <2> QED BY <1>1, <2>2 DEF Queues
<1> QED BY <1>1, <1>2, <1>3 DEF Message, PostedMessage, TransitionTimer, OtherMessage

LEMMA PostedInVainKeeps ==
  ASSUME IInv, PostedInVain
  PROVE  IInv'
<1>1. q \in Queues /\ drain \in 0..Passes + 1 /\ quit \in {"no", "ask", "end", "ended"}
  BY DEF IInv, Types
<1>2. q.posted \in 0..PostCap /\ PostCap \in Nat
  BY <1>1, PickerMoveAssumption DEF Queues
<1>3. q.posted - 1 \in 0..PostCap
  BY <1>2 DEF PostedInVain
<1>4. q' \in Queues
  BY <1>1, <1>3 DEF PostedInVain, Queues
<1> QED BY <1>1, <1>4, PumpOnly DEF PostedInVain

LEMMA HoldReadingKeeps ==
  ASSUME IInv, HoldReading
  PROVE  IInv'
<1>1. q \in Queues /\ drain \in 0..Passes + 1 /\ quit \in {"no", "ask", "end", "ended"}
  BY DEF IInv, Types
<1>2. PICK r \in IF drain # 0 THEN {Route(q, 0, TRUE)} ELSE Deferral(q, FALSE, TRUE) : q' = r.q
  BY DEF HoldReading
<1>3. r.q \in Queues /\ (drain = 0 => Wakes(r.q))
  <2>1. CASE drain # 0
    BY <1>1, <1>2, <2>1 DEF Route
  <2>2. CASE drain = 0
    BY <1>1, <1>2, <2>2, DeferralFacts
  <2> QED BY <2>1, <2>2
<1> QED BY <1>1, <1>2, <1>3, PumpOnly DEF HoldReading, Ready

LEMMA FinalizeFailsKeeps ==
  ASSUME IInv, FinalizeFails
  PROVE  IInv'
<1>1. q \in Queues /\ drain \in 0..Passes + 1 /\ quit \in {"no", "ask", "end", "ended"}
  BY DEF IInv, Types
<1> DEFINE y == [q EXCEPT !.durable = TRUE]
           z == [q EXCEPT !.timer = TRUE]
<1>2. y \in Queues /\ z \in Queues /\ y.durable /\ z.timer
  BY <1>1 DEF Queues
<1>3. PICK r \in IF drain # 0 THEN {Route(y, 0, TRUE)}
                 ELSE {Route(z, 0, TRUE), Route(y, 1, TRUE)} : q' = r.q
  BY DEF FinalizeFails
<1> HIDE DEF y, z
<1>4. q' = y \/ q' = z
  BY <1>3 DEF Route
<1>5. q' \in Queues /\ Wakes(q')
  BY <1>2, <1>4 DEF Wakes
<1> QED BY <1>1, <1>5, PumpOnly DEF FinalizeFails

LEMMA NothingLeftKeeps ==
  ASSUME IInv, NothingLeft
  PROVE  IInv'
<1>1. q \in Queues /\ drain \in 0..Passes + 1 /\ quit \in {"no", "ask", "end", "ended"}
  BY DEF IInv, Types
<1> QED BY <1>1, PumpOnly DEF NothingLeft

LEMMA DrainPassKeeps ==
  ASSUME IInv, DrainPass
  PROVE  IInv'
<1>1. q \in Queues /\ drain \in 0..Passes + 1 /\ quit \in {"no", "ask", "end", "ended"}
  BY DEF IInv, Types
<1>2. drain' \in 0..Passes + 1 /\ drain # 0
  BY <1>1 DEF DrainPass, Passes
<1> QED BY <1>1, <1>2, StartPumpType, PumpOnly DEF DrainPass

LEMMA DrainEndsKeeps ==
  ASSUME IInv, DrainEnds
  PROVE  IInv'
<1>1. q \in Queues /\ drain \in 0..Passes + 1
  BY DEF IInv, Types
<1>2. Idling => ~Pending(work)
  BY Facts DEF AtRest
<1>3. q' \in Queues /\ (Pending(work) => Wakes(q'))
  <2>1. CASE ~Idling /\ Pending(work)
    <3> DEFINE b == work.sched.kind \in Reads /\ ~work.due
    <3>1. PICK r \in Deferral(q, FALSE, b) :
            q' = IF r.ok THEN r.q ELSE [r.q EXCEPT !.durable = TRUE]
      BY <2>1 DEF DrainEnds
    <3>2. b \in BOOLEAN
      OBVIOUS
    <3> HIDE DEF b
    <3>3. r.q \in Queues /\ (r.ok => Wakes(r.q))
      BY <1>1, <3>1, <3>2, DeferralFacts
    <3> DEFINE z == [r.q EXCEPT !.durable = TRUE]
    <3>4. z \in Queues /\ Wakes(z)
      BY <3>3 DEF Queues, Wakes
    <3> HIDE DEF z
    <3> QED BY <3>1, <3>3, <3>4 DEF z
  <2>2. CASE Idling \/ ~Pending(work)
    BY <1>1, <1>2, <2>2 DEF DrainEnds
  <2> QED BY <2>1, <2>2
<1>4. 0 \in 0..Passes + 1
  BY DEF Passes
<1> QED BY <1>1, <1>3, <1>4, PumpOnly DEF DrainEnds, DrainOver

-----------------------------------------------------------------------------
(* The steps of the pump. *)

\* A step after which a transition is under way.
LEMMA GoesOn ==
  ASSUME Types', Busy(t', work', Homes', Theres', View'),
         drain' # 0 => t'.ack \/ t'.failed,
         IF quit' = "ended" THEN AtRest(work') ELSE Carried(t', work'),
         pump' = "off" /\ drain' = 0 /\ Pending(work') => Wakes(q')
  PROVE  IInv' /\ t'.phase # "Idle"
<1>1. t'.phase # "Idle"
  BY DEF Busy, TransitionInv, Sound, Transition
<1>2. Transitions'
  BY <1>1 DEF Transitions, Idling, Stopped
<1>3. WorkIsDelivered'
  BY DEF WorkIsDelivered, Wakes
<1> QED BY <1>1, <1>2, <1>3 DEF IInv

LEMMA SettleKeeps ==
  ASSUME IInv, Settle
  PROVE  IInv'
<1>1. /\ Types /\ ~Idling /\ ~Stopped /\ Busy(t, work, Homes, Theres, View)
      /\ Carried(t, work) /\ (drain # 0 => t.ack \/ t.failed)
  BY Facts DEF Settle, AtRest, Pending
<1>2. /\ work' \in Works /\ work'.sched = work.sched /\ work'.call = work.call
      /\ work'.kick = work.kick /\ work'.terminal = work.terminal
  BY <1>1 DEF Types, Works, Settle
<1>3. t' = t /\ at' = at /\ alive' = alive /\ calm' = calm /\ q' = q /\ pump' = pump
        /\ shown' = shown /\ badge' = badge /\ saved' = saved /\ drain' = drain /\ quit' = quit
  BY DEF Settle, world
<1>4. Types'
  BY <1>1, <1>2, <1>3 DEF Types
<1>5. Homes' = Homes /\ Theres' = Theres /\ View' = View
  BY <1>3, SamePlaces DEF View
<1>6. Busy(t, work', Homes, Theres, View) /\ Carried(t, work')
  BY <1>1, <1>2 DEF Busy, WorkFits, NotYet, Visible, Carried
<1>7. pump' = "off" /\ drain' = 0 /\ Pending(work') => Wakes(q')
  BY <1>2, <1>3 DEF IInv, WorkIsDelivered, Wakes, Pending
<1> QED BY <1>1, <1>3, <1>4, <1>5, <1>6, <1>7, GoesOn DEF Stopped

LEMMA ExecuteKeeps ==
  ASSUME IInv, Execute
  PROVE  IInv'
<1>1. /\ Types /\ ~Idling /\ ~Stopped /\ Busy(t, work, Homes, Theres, View)
      /\ Carried(t, work) /\ (drain # 0 => t.ack \/ t.failed)
  BY Facts DEF Execute, Ready, AtRest, Pending
<1>2. t' = t /\ at' = at /\ alive' = alive /\ calm' = calm /\ q' = q /\ pump' = "call"
        /\ shown' = shown /\ badge' = badge /\ saved' = saved /\ drain' = drain /\ quit' = quit
  BY DEF Execute, world
<1>3. work' = Executing(work)
  BY DEF Execute, Executing
<1>4. work \in Works /\ work.call.kind = None /\ work.kick.kind = None /\ work.sched.kind # None
  BY <1>1 DEF Execute, Ready, Types
<1>5. /\ work' \in Works /\ work'.call.kind # None
      /\ Busy(t, work', Homes, Theres, View) /\ Carried(t, work')
  BY <1>1, <1>3, <1>4, ExecuteFacts
<1>6. Homes' = Homes /\ Theres' = Theres /\ View' = View
  BY <1>2, SamePlaces DEF View
<1>7. Types'
  BY <1>1, <1>2, <1>5 DEF Types
<1> QED BY <1>1, <1>2, <1>5, <1>6, <1>7, GoesOn DEF Stopped

LEMMA AcknowledgeWithoutUiKeeps ==
  ASSUME IInv, AcknowledgeWithoutUi
  PROVE  IInv'
<1>1. /\ Types /\ ~Idling /\ ~Stopped /\ Busy(t, work, Homes, Theres, View)
      /\ Carried(t, work) /\ (t.ack \/ t.failed)
  BY Facts DEF AcknowledgeWithoutUi, Ready, AtRest, Pending, WithoutUi, None
<1>2. t' = t /\ at' = at /\ alive' = alive /\ calm' = calm /\ q' = q /\ pump' = "run"
        /\ shown' = shown /\ badge' = badge /\ saved' = saved /\ drain' = drain /\ quit' = quit
  BY DEF AcknowledgeWithoutUi, Ready, world
<1>3. work' = Assumed(work)
  BY DEF AcknowledgeWithoutUi, Assumed
<1>4. work \in Works /\ work.call.kind = None /\ work.kick.kind = None /\ work.sched.kind \in WithoutUi
  BY <1>1 DEF AcknowledgeWithoutUi, Ready, Types
<1>5. /\ work' \in Works /\ work'.call.kind = None
      /\ Busy(t, work', Homes, Theres, View) /\ Carried(t, work')
  BY <1>1, <1>3, <1>4, AcknowledgeFactsWithoutUi
<1>6. Homes' = Homes /\ Theres' = Theres /\ View' = View
  BY <1>2, SamePlaces DEF View
<1>7. Types'
  BY <1>1, <1>2, <1>5 DEF Types
<1> QED BY <1>1, <1>2, <1>5, <1>6, <1>7, GoesOn DEF Stopped

LEMMA FinalizeKeeps ==
  ASSUME IInv, Finalize
  PROVE  IInv'
<1>1. Types /\ work \in Works /\ q \in Queues /\ shown \in BOOLEAN /\ work.call.kind = None
  BY DEF IInv, Types, Finalize
<1>2. /\ work' \in Works /\ work'.sched = work.sched /\ work'.call = work.call
      /\ work'.kick = work.kick /\ work'.terminal = FALSE /\ q' \in Queues
  BY <1>1 DEF Works, Queues, Finalize
<1>3. ~Pending(work') /\ work'.call.kind = None
  BY <1>1, <1>2 DEF Finalize, Pending
<1>4. Types'
  BY <1>1, <1>2 DEF Types, Finalize, world
<1>5. Transitions'
  BY <1>3 DEF Transitions, Idling, Idle, Finalize, AtRest
<1> QED BY <1>3, <1>4, <1>5 DEF IInv, WorkIsDelivered

LEMMA SessionEndsKeeps ==
  ASSUME IInv, SessionEnds
  PROVE  IInv'
<1>1. Types /\ work \in Works /\ work.call.kind = None /\ pump = "off"
  BY DEF IInv, Types, SessionEnds, DrainOver
<1>2. /\ work' \in Works /\ work'.sched = Nothing /\ work'.call = work.call
      /\ work'.kick = NoObservation /\ work'.terminal = FALSE
  BY <1>1, NothingType DEF Works, Rest, SessionEnds
<1>3. AtRest(work')
  BY <1>1, <1>2, NothingType DEF AtRest, Pending
<1>4. t' = t /\ at' = at /\ alive' = alive /\ calm' = calm /\ pump' = pump
        /\ shown' = shown /\ badge' = badge /\ saved' = saved /\ drain' = 0 /\ quit' = "ended"
  BY DEF SessionEnds, world
<1>5. q' \in Queues /\ 0 \in 0..Passes + 1
  BY PickerMoveAssumption DEF Queues, SessionEnds, Passes
<1>6. Types'
  BY <1>1, <1>2, <1>4, <1>5 DEF Types
<1>7. Homes' = Homes /\ Theres' = Theres /\ View' = View
  BY <1>4, SamePlaces DEF View
<1>8. ~Idling => Busy(t, work', Homes, Theres, View)
  <2>1. CASE ~Idling
    <3>1. Busy(t, work, Homes, Theres, View)
      BY <2>1, Facts
    <3>2. WorkFits(t, work') /\ NotYet(t, work', Homes)
      BY <1>1, <1>2, NothingType, Kinds DEF WorkFits, CallFits, NotYet
    <3>3. Observed(t, work'.kick, Homes, Theres, View) /\ Visible(t, work', View)
      BY <1>1, <1>2, <3>1, NothingType, Kinds DEF Busy, Observed, Visible
    <3> QED BY <3>1, <3>2, <3>3 DEF Busy
  <2> QED BY <2>1
<1>9. Transitions'
  BY <1>3, <1>4, <1>7, <1>8, Facts DEF Transitions, Idling, Stopped
<1> QED BY <1>3, <1>6, <1>9 DEF IInv, WorkIsDelivered, AtRest

-----------------------------------------------------------------------------
(* What others do. *)

LEMMA DisturbKeeps ==
  ASSUME IInv, NEW p \in Piece, NEW d \in Desktops, Disturb(p, d)
  PROVE  IInv'
<1>1. /\ Types /\ ~Idling /\ ~Stopped /\ Busy(t, work, Homes, Theres, View)
      /\ Carried(t, work) /\ (drain # 0 => t.ack \/ t.failed)
  BY Facts DEF Disturb
<1>2. t' = t /\ work' = work /\ alive' = alive /\ calm' = FALSE /\ q' = q /\ pump' = pump
        /\ shown' = shown /\ badge' = badge /\ saved' = saved /\ drain' = drain /\ quit' = quit
  BY DEF Disturb
<1>3. at' \in [Piece -> Desktops]
  BY <1>1 DEF Disturb, Types
<1>4. Types'
  BY <1>1, <1>2, <1>3 DEF Types
<1>5. View' = View /\ Homes' = Piece /\ Theres' = Piece
  BY <1>2 DEF View, Homes, Theres
<1>6. Busy(t, work, Homes', Theres', View)
  BY <1>1, <1>5, DisturbedBusy
<1>7. pump' = "off" /\ drain' = 0 /\ Pending(work') => Wakes(q')
  BY <1>2 DEF IInv, WorkIsDelivered, Wakes
<1> QED BY <1>1, <1>2, <1>4, <1>5, <1>6, <1>7, GoesOn DEF Stopped

LEMMA TargetClosesKeeps ==
  ASSUME IInv, TargetCloses
  PROVE  IInv'
<1>1. /\ Types /\ ~Idling /\ ~Stopped /\ Busy(t, work, Homes, Theres, View)
      /\ Carried(t, work) /\ (drain # 0 => t.ack \/ t.failed)
  BY Facts DEF TargetCloses
<1>2. t' = t /\ work' = work /\ alive' = FALSE /\ calm' = calm /\ q' = q /\ pump' = pump
        /\ shown' = shown /\ badge' = badge /\ saved' = saved /\ drain' = drain
        /\ quit' = quit /\ at' = at
  BY DEF TargetCloses
<1>3. Types'
  BY <1>1, <1>2 DEF Types
<1>4. Homes' = Homes /\ Theres' = Theres /\ View' = View
  BY <1>2, SamePlaces DEF View
<1>5. pump' = "off" /\ drain' = 0 /\ Pending(work') => Wakes(q')
  BY <1>2 DEF IInv, WorkIsDelivered, Wakes
<1> QED BY <1>1, <1>2, <1>3, <1>4, <1>5, GoesOn DEF Stopped

\* A request is taken up from rest, with every piece where it is.
LEMMA BeginPickerActionKeeps ==
  ASSUME IInv, NEW mode \in Modes, NEW sticky \in BOOLEAN, NEW dest \in Desktops,
         BeginPickerAction(mode, sticky, dest)
  PROVE  IInv' /\ t'.phase # "Idle" /\ ~KeptBy(t') /\ ~t'.failed
<1> DEFINE u == Begin(mode, sticky, at', dest)
           c == Queued(u, work)
<1>1. /\ Types /\ Idling /\ ~Stopped /\ AtRest(work) /\ pump = "off" /\ drain = 0
      /\ work \in Works /\ q \in Queues
  BY Facts DEF BeginPickerAction, MayBegin, Stopped, Types
<1>2. t' = c.t /\ work' = c.work /\ Queue(c, [left EXCEPT !.moves = @ - 1])
  BY DEF BeginPickerAction, Queue
<1>3. calm' = TRUE /\ saved' = FALSE /\ drain' = drain /\ quit' = quit /\ alive' = alive
        /\ shown' = shown /\ badge' = badge
  BY DEF BeginPickerAction
<1>4. at' \in [Piece -> Desktops] /\ mode \in Mode
        /\ (sticky => mode \in {"MoveAndFollow", "VisualAndFollow"})
  BY <1>1, PickerMoveAssumption
  DEF BeginPickerAction, MayBegin, Follows, PopupBound, Types, Piece
<1>5. u.origin = at' /\ u.dest = dest
  BY <1>4, BeginFacts
<1> HIDE DEF u
<1>6. c.t = u /\ c.work = Scheduled(u, work)
  BY <1>1, QueuedIs DEF AtRest, Pending
<1>7. t'.origin = at' /\ t'.dest = dest
  BY <1>2, <1>5, <1>6
<1>8. Piece \subseteq Homes' /\ \A p \in Piece : at'[p] = dest => p \in Theres'
  BY <1>7 DEF Homes, Theres, Home, Piece
<1>9. /\ TransitionInv(u, Homes', Theres') /\ Begun(u)
      /\ \A p \in Piece : u.pending = MoveKind[p] => u.before[p] \/ p \in Homes'
  BY <1>4, <1>8, BeginFacts DEF u
<1>10. ~u.ack /\ u.out = Awaiting(u) /\ u.out.kind # None
  BY <1>9, Kinds DEF Begun, Awaiting, TransitionInv, PendingInv
<1>11. c.work = Staged(work, u.out) /\ c.post \in {"now", "later"}
  <2>1. c.work = Staged(work, u.out)
    BY <1>6, <1>10 DEF Scheduled
  <2>2. c.post = "later" \/ c.post = "now"
    BY <1>1, <1>10 DEF Queued, AtRest, Pending
  <2> QED BY <2>1, <2>2
<1>12. ~work.terminal /\ ~work.kick.fresh /\ work.call.kind = None
  BY <1>1, KickFields DEF AtRest, Pending
<1>13. CallFits(u, work.call)
  BY <1>12, Kinds DEF CallFits
<1>14. View'.saved = FALSE
  BY <1>3 DEF View
<1>15. Visible(u, [work EXCEPT !.sched = Nothing], View')
  BY <1>9, <1>14 DEF Visible, Begun
<1>16. /\ c.work \in Works /\ c.work.call = work.call
       /\ Busy(u, c.work, Homes', Theres', View') /\ Carried(u, c.work)
  BY <1>1, <1>9, <1>10, <1>11, <1>12, <1>13, <1>14, <1>15, StagedFits
<1>17. DeferOrRun(c.post = "later", [left EXCEPT !.moves = @ - 1])
  BY <1>2, <1>11 DEF Queue
<1> HIDE DEF c
<1>18. q' \in Queues /\ (pump' = "off" \/ pump' = "run") /\ (pump' = "off" => Wakes(q'))
  BY <1>1, <1>17, DeferOrRunFacts
<1>19. Types'
  BY <1>1, <1>2, <1>3, <1>4, <1>12, <1>16, <1>18 DEF Types
<1>20. IInv'
  BY <1>1, <1>2, <1>3, <1>6, <1>16, <1>18, <1>19, GoesOn DEF Stopped
<1>21. u.phase # "Idle"
  BY <1>9 DEF Begun
<1> QED BY <1>2, <1>6, <1>9, <1>20, <1>21 DEF Begun

LEMMA CancelledFacts ==
  ASSUME IInv, ~Idling, ~Stopped, ~t.dismissed
  PROVE  LET c == Cancelled
         IN /\ c.work \in Works /\ c.work.call.kind = work.call.kind
            /\ Busy(c.t, c.work, Homes, Theres, View) /\ Carried(c.t, c.work)
            /\ c.t.ack \/ c.t.failed
            /\ c.t.origin = t.origin /\ c.t.dest = t.dest
            /\ Promised(t, c.t, saved)
            /\ c.post \in {"no", "now", "later"}
            /\ c.post = "no" => c.work = work
<1>1. work \in Works /\ Busy(t, work, Homes, Theres, View) /\ Carried(t, work)
  BY Facts DEF Types
<1>2. View.saved = saved
  BY DEF View
<1> QED BY <1>1, <1>2, CancelledIs, CancelFacts DEF Sibling

LEMMA RequestPickerCancellationKeeps ==
  ASSUME IInv, RequestPickerCancellation
  PROVE  IInv' /\ ~Idling /\ t'.phase # "Idle" /\ Promised(t, t', saved)
<1> DEFINE c == Cancelled
<1>1. /\ Types /\ ~Idling /\ ~Stopped /\ ~t.dismissed /\ drain = 0
      /\ q \in Queues
  BY Facts DEF RequestPickerCancellation, Types
<1>2. /\ c.work \in Works /\ c.work.call.kind = work.call.kind
      /\ Busy(c.t, c.work, Homes, Theres, View) /\ Carried(c.t, c.work)
      /\ c.t.origin = t.origin /\ c.t.dest = t.dest /\ Promised(t, c.t, saved)
      /\ c.post \in {"no", "now", "later"} /\ (c.post = "no" => c.work = work)
  BY <1>1, CancelledFacts
<1>3. /\ at' = at /\ alive' = alive /\ calm' = calm /\ shown' = shown /\ badge' = badge
      /\ saved' = saved /\ drain' = drain /\ quit' = quit
      /\ Queue(c, [left EXCEPT !.cancels = @ - 1])
  BY DEF RequestPickerCancellation, world
<1> HIDE DEF c
<1>4. t' = c.t /\ work' = c.work
  BY <1>3 DEF Queue
<1>5. /\ q' \in Queues /\ (pump' = pump \/ (pump = "off" /\ pump' = "run"))
      /\ pump' = "off" /\ Pending(work') => Wakes(q')
  <2>1. CASE c.post = "no"
    BY <1>1, <1>2, <1>3, <1>4, <2>1 DEF Queue, IInv, WorkIsDelivered, Wakes
  <2>2. CASE c.post # "no"
    BY <1>1, <1>3, <2>2, DeferOrRunFacts DEF Queue
  <2> QED BY <2>1, <2>2
<1>6. Types'
  BY <1>1, <1>2, <1>3, <1>4, <1>5 DEF Types
<1>7. Homes' = Homes /\ Theres' = Theres /\ View' = View
  BY <1>2, <1>3, <1>4, SamePlaces DEF View
<1>8. IInv' /\ t'.phase # "Idle"
  BY <1>1, <1>2, <1>3, <1>4, <1>5, <1>6, <1>7, GoesOn DEF Stopped
<1> QED BY <1>1, <1>2, <1>4, <1>8

LEMMA AskedInsideCallKeeps ==
  ASSUME IInv, AskedInsideCall
  PROVE  IInv' /\ ~Idling /\ t'.phase # "Idle" /\ (t' = t \/ Promised(t, t', saved))
<1> DEFINE c == IF t.dismissed THEN [t |-> t, work |-> work] ELSE Cancelled
<1>1. /\ Types /\ q \in Queues /\ work \in Works /\ pump = "call" /\ drain = 0
      /\ work.call.kind # None
  BY Facts DEF AskedInsideCall, Types
<1>2. /\ ~Idling /\ ~Stopped /\ Busy(t, work, Homes, Theres, View) /\ Carried(t, work)
  BY <1>1, Facts DEF AtRest
<1>3. /\ c.work \in Works /\ c.work.call.kind = work.call.kind
      /\ Busy(c.t, c.work, Homes, Theres, View) /\ Carried(c.t, c.work)
      /\ c.t.origin = t.origin /\ c.t.dest = t.dest
      /\ (c.t = t \/ Promised(t, c.t, saved))
  <2>1. CASE t.dismissed
    <3>1. c.t = t /\ c.work = work
      BY <2>1
    <3> QED BY <1>1, <1>2, <3>1
  <2>2. CASE ~t.dismissed
    BY <1>2, <2>2, CancelledFacts
  <2> QED BY <2>1, <2>2
<1>4. /\ at' = at /\ alive' = alive /\ calm' = calm /\ shown' = shown /\ badge' = badge
      /\ saved' = saved /\ drain' = drain /\ quit' = quit /\ pump' = pump
  BY DEF AskedInsideCall, world
<1> DEFINE b == c.work.sched.kind \in Reads /\ ~c.work.due
<1>5. /\ t' = c.t /\ work' = c.work
      /\ IF Pending(c.work)
         THEN \E r \in Deferral(q, FALSE, b) :
                q' = IF r.ok THEN r.q ELSE [r.q EXCEPT !.durable = TRUE]
         ELSE q' = q
  BY DEF AskedInsideCall
<1>6. b \in BOOLEAN
  OBVIOUS
<1> HIDE DEF b, c
<1>7. q' \in Queues
  <2>1. ASSUME NEW r \in Deferral(q, FALSE, b),
               q' = IF r.ok THEN r.q ELSE [r.q EXCEPT !.durable = TRUE]
        PROVE  q' \in Queues
    <3>1. r.q \in Queues
      BY <1>1, <1>6, DeferralFacts
    <3> QED BY <2>1, <3>1 DEF Queues
  <2> QED BY <1>1, <1>5, <2>1
<1>8. Types'
  BY <1>1, <1>3, <1>4, <1>5, <1>7 DEF Types
<1>9. Homes' = Homes /\ Theres' = Theres /\ View' = View
  BY <1>3, <1>4, <1>5, SamePlaces DEF View
<1>10. IInv' /\ t'.phase # "Idle"
  BY <1>1, <1>2, <1>3, <1>4, <1>5, <1>8, <1>9, GoesOn DEF Stopped
<1> QED BY <1>2, <1>3, <1>5, <1>10

LEMMA DrainBeginsKeeps ==
  ASSUME IInv, NEW why \in {"ask", "end"}, DrainBegins(why)
  PROVE  IInv' /\ ~Idling /\ t'.phase # "Idle" /\ (t' = t \/ Promised(t, t', saved))
<1>1. /\ Types /\ ~Idling /\ ~Stopped /\ q \in Queues /\ work \in Works /\ pump = "off"
      /\ Busy(t, work, Homes, Theres, View) /\ Carried(t, work)
  BY Facts DEF DrainBegins, Types
<1>2. /\ at' = at /\ alive' = alive /\ calm' = calm /\ shown' = shown /\ badge' = badge
      /\ saved' = saved /\ drain' = Passes + 1 /\ quit' = why
  BY DEF DrainBegins, world
<1>3. drain' \in 0..Passes + 1 /\ drain' # 0 /\ quit' \in {"ask", "end"}
  BY <1>2 DEF Passes
<1>4. q' \in Queues /\ (pump' = "off" \/ pump' = "run")
  BY <1>1, StartPumpType DEF DrainBegins
<1>5. /\ work' \in Works /\ work'.call.kind = work.call.kind
      /\ Busy(t', work', Homes, Theres, View) /\ Carried(t', work')
      /\ t'.ack \/ t'.failed
      /\ t'.origin = t.origin /\ t'.dest = t.dest
      /\ (t' = t \/ Promised(t, t', saved))
  <2>1. CASE t.dismissed
    <3>1. t' = t /\ work' = work
      BY <2>1 DEF DrainBegins
    <3>2. t.failed
      BY <1>1, <2>1 DEF Busy, TransitionInv, Sound
    <3> QED BY <1>1, <3>1, <3>2
  <2>2. CASE ~t.dismissed
    <3>1. t' = Cancelled.t /\ work' = Cancelled.work
      BY <2>2 DEF DrainBegins
    <3> QED BY <1>1, <2>2, <3>1, CancelledFacts
  <2> QED BY <2>1, <2>2
<1>6. Types'
  BY <1>1, <1>2, <1>3, <1>4, <1>5 DEF Types
<1>7. Homes' = Homes /\ Theres' = Theres /\ View' = View
  BY <1>2, <1>5, SamePlaces DEF View
<1>8. IInv' /\ t'.phase # "Idle"
  BY <1>3, <1>5, <1>6, <1>7, GoesOn
<1> QED BY <1>1, <1>5, <1>8

LEMMA ConsumeObservationKeeps ==
  ASSUME IInv, ConsumeObservation
  PROVE  IInv' /\ ~Idling /\ t'.phase # "Idle" /\ Promised(t, t', saved)
<1> DEFINE u == Advance(t, work.kick)
           y == Scheduled(u, Consumed(work))
<1>1. /\ Types /\ q \in Queues /\ work \in Works /\ pump = "run" /\ work.kick.kind # None
  BY Facts DEF ConsumeObservation, Types
<1>2. /\ ~Idling /\ ~Stopped /\ Busy(t, work, Homes, Theres, View) /\ Carried(t, work)
      /\ drain # 0 => t.ack \/ t.failed
  BY <1>1, Facts DEF AtRest, Pending
<1>3. /\ at' = at /\ alive' = alive /\ calm' = calm /\ shown' = shown /\ badge' = badge
      /\ saved' = saved /\ drain' = drain /\ quit' = quit /\ t' = u
  BY DEF ConsumeObservation, world
<1>4. /\ y \in Works /\ y.call.kind = None /\ Busy(u, y, Homes, Theres, View) /\ Carried(u, y)
      /\ (t.ack \/ t.failed => u.ack \/ u.failed) /\ Kin(t, u) /\ Promised(t, u, View.saved)
  BY <1>1, <1>2, ConsumeFacts
<1> HIDE DEF u
<1>5. /\ work' = y /\ q' \in Queues
      /\ pump' = "run" \/ (pump' = "off" /\ Wakes(q'))
  <2>1. CASE u.out.kind # None
    <3>1. work' = Staged(Consumed(work), u.out) /\ DeferOrGoOn(u.out.kind \in Reads)
      BY <2>1 DEF ConsumeObservation, Consumed, u
    <3>2. y = Staged(Consumed(work), u.out)
      BY <2>1 DEF Scheduled
    <3> DEFINE held == u.out.kind \in Reads
    <3>3. held \in BOOLEAN /\ DeferOrGoOn(held)
      BY <3>1
    <3> HIDE DEF held
    <3>4. q' \in Queues /\ (pump' = "run" \/ (pump' = "off" /\ Wakes(q')))
      BY <1>1, <3>3, DeferOrGoOnFacts
    <3> QED BY <3>1, <3>2, <3>4
  <2>2. CASE u.out.kind = None /\ u.ack
    <3>1. work' = [Consumed(work) EXCEPT !.terminal = TRUE] /\ DeferOrGoOn(FALSE)
      BY <2>2 DEF ConsumeObservation, Consumed, u
    <3>2. y = [Consumed(work) EXCEPT !.terminal = TRUE]
      BY <2>2 DEF Scheduled
    <3> QED BY <1>1, <3>1, <3>2, DeferOrGoOnFacts
  <2>3. CASE u.out.kind = None /\ ~u.ack
    <3>1. work' = Consumed(work) /\ pump' = pump /\ q' = q
      BY <2>3 DEF ConsumeObservation, Consumed, u
    <3>2. y = Consumed(work)
      BY <2>3 DEF Scheduled
    <3> QED BY <1>1, <3>1, <3>2
  <2> QED BY <2>1, <2>2, <2>3
<1> HIDE DEF y
<1>6. Types'
  BY <1>1, <1>3, <1>4, <1>5 DEF Types
<1>7. t'.origin = t.origin /\ t'.dest = t.dest
  BY <1>3, <1>4 DEF Kin
<1>8. Homes' = Homes /\ Theres' = Theres /\ View' = View
  BY <1>3, <1>7, SamePlaces DEF View
<1>9. IInv' /\ t'.phase # "Idle"
  BY <1>2, <1>3, <1>4, <1>5, <1>6, <1>8, GoesOn DEF Stopped
<1> QED BY <1>2, <1>3, <1>4, <1>9 DEF View

-----------------------------------------------------------------------------
(* A call returns. *)

LEMMA ReportLeads ==
  ASSUME q \in Queues, NEW o, NEW cost, Report(o, cost)
  PROVE  /\ q' \in Queues /\ (pump' = "run" \/ (pump' = "off" /\ Wakes(q')))
         /\ work' = Reported(work, o) /\ t' = t /\ drain' = drain /\ quit' = quit
<1> DEFINE spent == [left EXCEPT !.calls = @ - cost]
<1>1. PICK r \in IF drain # 0 THEN {Route(q, 0, FALSE)} ELSE Posting(q) :
        IF r.ok THEN Leaves(r, FALSE, spent) ELSE pump' = "run" /\ q' = r.q
  BY DEF Report
<1> HIDE DEF spent
<1>2. r.q \in Queues
  <2>1. CASE drain # 0
    BY <1>1, <2>1 DEF Route
  <2>2. CASE drain = 0
    BY <1>1, <2>2, PostingFacts
  <2> QED BY <2>1, <2>2
<1>3. r.ok => pump' = "off" /\ q' \in Queues /\ Wakes(q')
  BY <1>1, <1>2, LeavesFacts
<1>4. work' = Reported(work, o) /\ t' = t /\ drain' = drain /\ quit' = quit
  BY DEF Report, Reported
<1> QED BY <1>1, <1>2, <1>3, <1>4

LEMMA InCall ==
  ASSUME IInv, pump = "call"
  PROVE  /\ Types /\ q \in Queues /\ work \in Works /\ work.call \in Effect
         /\ work.call.kind # None /\ ~Idling /\ ~Stopped /\ t \in Transition
         /\ Busy(t, work, Homes, Theres, View) /\ Carried(t, work)
         /\ drain # 0 => t.ack \/ t.failed
<1>1. Types /\ q \in Queues /\ work \in Works /\ work.call.kind # None
  BY DEF IInv, Types
<1>2. ~Idling /\ ~Stopped
  BY <1>1, Facts DEF AtRest
<1> QED BY <1>1, <1>2, Facts DEF Works

LEMMA ReturnKeeps ==
  ASSUME IInv, pump = "call", NEW o \in Seen, NEW cost, Report(o, cost),
         o.kind = work.call.kind, o.fresh = work.call.fresh,
         at' \in [Piece -> Desktops], alive' \in BOOLEAN, calm' \in BOOLEAN,
         shown' \in BOOLEAN, badge' \in BOOLEAN, saved' \in BOOLEAN,
         TransitionInv(t, Homes', Theres'), Observed(t, o, Homes', Theres', View'),
         Visible(t, Reported(work, o), View')
  PROVE  IInv' /\ t' = t
<1>1. /\ Types /\ q \in Queues /\ work \in Works /\ work.call.kind # None
      /\ ~Idling /\ ~Stopped /\ Busy(t, work, Homes, Theres, View) /\ Carried(t, work)
      /\ drain # 0 => t.ack \/ t.failed
  BY InCall
<1>2. /\ q' \in Queues /\ (pump' = "run" \/ (pump' = "off" /\ Wakes(q')))
      /\ work' = Reported(work, o) /\ t' = t /\ drain' = drain /\ quit' = quit
  BY <1>1, ReportLeads
<1>3. /\ work' \in Works /\ work'.call.kind = None
      /\ Busy(t, work', Homes', Theres', View') /\ Carried(t, work')
  BY <1>1, <1>2, ReturnFacts
<1>4. Types'
  BY <1>1, <1>2, <1>3 DEF Types
<1> QED BY <1>1, <1>2, <1>3, <1>4, GoesOn DEF Stopped

LEMMA ReportedVisible ==
  ASSUME NEW x, NEW w \in Works, NEW o \in Seen, NEW V, Visible(x, w, V)
  PROVE  Visible(x, Reported(w, o), V)
<1>1. Reported(w, o).sched = w.sched /\ Reported(w, o).call = Nothing
  BY ReportedFields
<1> QED BY <1>1, NothingType, Kinds DEF Visible

LEMMA QuietReturn ==
  ASSUME IInv, pump = "call", NEW o \in Seen, NEW cost, Report(o, cost),
         o.kind = work.call.kind, o.fresh = work.call.fresh, UNCHANGED world,
         Observed(t, o, Homes, Theres, View)
  PROVE  IInv' /\ t' = t
<1>1. Types /\ work \in Works /\ Busy(t, work, Homes, Theres, View)
  BY InCall
<1>2. at' = at /\ alive' = alive /\ calm' = calm /\ shown' = shown /\ badge' = badge
        /\ saved' = saved
  BY DEF world
<1>3. t' = t
  BY DEF Report
<1>4. Homes' = Homes /\ Theres' = Theres /\ View' = View
  BY <1>2, <1>3, SamePlaces DEF View
<1>5. Visible(t, Reported(work, o), View)
  BY <1>1, ReportedVisible DEF Busy
<1> QED BY <1>1, <1>2, <1>4, <1>5, ReturnKeeps DEF Busy, Types

LEMMA OtherTruthful ==
  ASSUME NEW x, NEW o \in Seen, NEW H, NEW A, o.kind \notin Moves \cup Reads
  PROVE  Truthful(x, o, H, A)
<1>1. o.kind # "ReadPopup" /\ o.kind \notin {"MoveTarget", "SwitchDesktop"}
  BY DEF Moves, Reads, Piece, MoveKind, ReadKind
<1> QED BY <1>1, Kinds DEF Truthful, Seen, Saves

\* An answer of which nothing is remembered but itself.
LEMMA PlainReturn ==
  ASSUME IInv, pump = "call", NEW o \in Seen, NEW cost, Report(o, cost),
         o.kind = work.call.kind, o.fresh = work.call.fresh, UNCHANGED world,
         o.kind \in {"ValidateTarget", "Refresh", "ReportFailure"}
  PROVE  IInv' /\ t' = t
<1>1. o.kind \notin Moves \cup Reads
  BY DEF Moves, Reads, Piece, MoveKind, ReadKind
<1>2. Observed(t, o, Homes, Theres, View)
  BY <1>1, OtherTruthful DEF Observed
<1> QED BY <1>2, QuietReturn

\* Every answer is the call's observation with some fields filled in.
LEMMA CallIs ==
  ASSUME IInv, pump = "call"
  PROVE  /\ Call \in Seen /\ Call.kind = work.call.kind /\ Call.fresh = work.call.fresh
         /\ Call.match = FALSE /\ Call.invoked = FALSE /\ Call.seen = NoDesktop
         /\ Call.ok = FALSE /\ Call.save = "Failed"
BY InCall, ObservationType DEF Call

\* The place of a piece was to be changed, and was or was not.
LEMMA MoveReturn ==
  ASSUME IInv, pump = "call", NEW p \in Piece, work.call.kind = MoveKind[p],
         NEW o \in Seen, NEW cost, Report(o, cost),
         o.kind = work.call.kind, o.fresh = work.call.fresh, o.seen = NoDesktop,
         o.invoked /\ p # "popup" => o.match,
         at' = at \/ (o.invoked /\ at' = [at EXCEPT ![p] = work.call.to]),
         UNCHANGED <<alive, calm, shown, badge, saved>>
  PROVE  IInv' /\ t' = t /\ saved' = saved
<1>1. /\ Types /\ work \in Works /\ Busy(t, work, Homes, Theres, View) /\ t \in Transition
      /\ work.call.kind # None
  BY InCall
<1>2. t' = t
  BY DEF Report
<1>3. View' = View
  BY DEF View
<1>4. /\ work.call.to \in Desktops /\ t.moved[p]
      /\ t.phase \in Backward \/ work.call.to = t.dest
  BY <1>1, MovedTo
<1>5. at' \in [Piece -> Desktops] /\ \A r \in Piece : r # p => at'[r] = at[r]
  BY <1>1, <1>4 DEF Types
<1>6. at' = at \/ at'[p] = work.call.to
  BY <1>1 DEF Types
<1>7. \A r \in Piece : r \in Homes => r \in Homes' \/ t.moved[r]
  BY <1>2, <1>4, <1>5 DEF Homes, Home
<1>8. t.phase \in Backward \/ \A r \in Piece : r \in Theres => r \in Theres'
  BY <1>2, <1>4, <1>5, <1>6 DEF Theres
<1>9. TransitionInv(t, Homes', Theres')
  BY <1>1, <1>7, <1>8, PlacesChange DEF Busy
<1>10. Observed(t, o, Homes', Theres', View)
  <2>1. SUFFICES ASSUME o.fresh
                 PROVE  Truthful(t, o, Homes', Theres')
    <3>1. o.kind \notin {"ShowAndFocus", "PublishVisualAssignment", "Hide", "SaveExactTarget"}
      BY DEF MoveKind, Piece
    <3> QED BY <2>1, <3>1 DEF Observed
  <2>2. \A r \in Piece : o.kind = MoveKind[r] => r = p
    BY DEF MoveKind, Piece
  <2>3. \A r \in Piece : o.kind # ReadKind[r]
    BY DEF MoveKind, ReadKind, Piece
  <2>4. o.invoked \/ t.before[p] \/ p \in Homes'
    <3>1. t.pending = MoveKind[p]
      BY <1>1, <2>1 DEF Busy, WorkFits
    <3>2. t.before[p] \/ p \in Homes
      BY <1>1, <3>1 DEF Busy, NotYet
    <3>3. at' = at => Homes' = Homes
      BY <1>2, SamePlaces
    <3> QED BY <3>2, <3>3
  <2>5. o.kind # "ReadPopup" /\ (o.kind \in {"MoveTarget", "SwitchDesktop"} => p # "popup")
    BY DEF MoveKind, Piece
  <2> QED BY <2>2, <2>3, <2>4, <2>5 DEF Truthful, Seen, Saves
<1>11. Visible(t, Reported(work, o), View)
  BY <1>1, ReportedVisible DEF Busy
<1> QED BY <1>1, <1>3, <1>5, <1>9, <1>10, <1>11, ReturnKeeps DEF Types

LEMMA MoveTargetReturnsKeeps ==
  ASSUME IInv, MoveTargetReturns
  PROVE  IInv' /\ t' = t /\ saved' = saved
<1>1. /\ pump = "call" /\ work.call.kind = "MoveTarget"
      /\ UNCHANGED <<alive, calm, shown, badge, saved>>
  BY DEF MoveTargetReturns, Returning
<1>2. "target" \in Piece /\ MoveKind["target"] = "MoveTarget"
  BY DEF Piece, MoveKind
<1>3. ASSUME NEW m \in BOOLEAN, NEW i \in BOOLEAN, i => m, NEW o, NEW cost, Report(o, cost),
             o = [Call EXCEPT !.match = m, !.invoked = i],
             at' = at \/ (i /\ at' = [at EXCEPT !["target"] = To])
      PROVE  IInv' /\ t' = t /\ saved' = saved
  <2>1. /\ o \in Seen /\ o.kind = work.call.kind /\ o.fresh = work.call.fresh
        /\ o.match = m /\ o.invoked = i /\ o.seen = NoDesktop
    BY <1>1, <1>3, CallIs DEF Seen
  <2> QED BY <1>1, <1>2, <1>3, <2>1, MoveReturn DEF To
<1>4. Call = [Call EXCEPT !.match = FALSE, !.invoked = FALSE]
        /\ [Call EXCEPT !.match = TRUE] = [Call EXCEPT !.match = TRUE, !.invoked = FALSE]
  BY <1>1, CallIs DEF Seen
<1>5. \/ Report(Call, 0) /\ at' = at
      \/ Report([Call EXCEPT !.match = TRUE], 0) /\ at' = at
      \/ /\ Report([Call EXCEPT !.match = TRUE, !.invoked = TRUE], 0)
         /\ at' = [at EXCEPT !["target"] = To]
      \/ \E m, i \in BOOLEAN :
           /\ i => m
           /\ Report([Call EXCEPT !.match = m, !.invoked = i], 1) /\ at' = at
  BY DEF MoveTargetReturns
<1>6. CASE Report(Call, 0) /\ at' = at
  BY <1>3, <1>4, <1>6
<1>7. CASE Report([Call EXCEPT !.match = TRUE], 0) /\ at' = at
  BY <1>3, <1>4, <1>7
<1> QED BY <1>3, <1>5, <1>6, <1>7

LEMMA MovePopupReturnsKeeps ==
  ASSUME IInv, MovePopupReturns
  PROVE  IInv' /\ t' = t /\ saved' = saved
<1>1. /\ pump = "call" /\ work.call.kind = "MovePopup"
      /\ UNCHANGED <<alive, calm, shown, badge, saved>>
  BY DEF MovePopupReturns, Returning
<1>2. "popup" \in Piece /\ MoveKind["popup"] = "MovePopup"
  BY DEF Piece, MoveKind
<1>3. ASSUME NEW i \in BOOLEAN, NEW o, NEW cost, Report(o, cost),
             o = [Call EXCEPT !.invoked = i],
             at' = at \/ (i /\ at' = [at EXCEPT !["popup"] = To])
      PROVE  IInv' /\ t' = t /\ saved' = saved
  <2>1. /\ o \in Seen /\ o.kind = work.call.kind /\ o.fresh = work.call.fresh
        /\ o.invoked = i /\ o.seen = NoDesktop
    BY <1>1, <1>3, CallIs DEF Seen
  <2> QED BY <1>1, <1>2, <1>3, <2>1, MoveReturn DEF To
<1>4. \/ /\ Report([Call EXCEPT !.invoked = TRUE], 0)
         /\ at' = [at EXCEPT !["popup"] = To]
      \/ \E i \in BOOLEAN : Report([Call EXCEPT !.invoked = i], 1) /\ at' = at
  BY DEF MovePopupReturns
<1> QED BY <1>3, <1>4

LEMMA SwitchDesktopReturnsKeeps ==
  ASSUME IInv, SwitchDesktopReturns
  PROVE  IInv' /\ t' = t /\ saved' = saved
<1>1. /\ pump = "call" /\ work.call.kind = "SwitchDesktop"
      /\ UNCHANGED <<alive, calm, shown, badge, saved>>
  BY DEF SwitchDesktopReturns, Returning
<1>2. "current" \in Piece /\ MoveKind["current"] = "SwitchDesktop"
  BY DEF Piece, MoveKind
<1>3. ASSUME NEW m \in BOOLEAN, NEW i \in BOOLEAN, i => m, NEW o, NEW cost, Report(o, cost),
             o = [Call EXCEPT !.match = m, !.invoked = i],
             at' = at \/ (i /\ at' = [at EXCEPT !["current"] = To])
      PROVE  IInv' /\ t' = t /\ saved' = saved
  <2>1. /\ o \in Seen /\ o.kind = work.call.kind /\ o.fresh = work.call.fresh
        /\ o.match = m /\ o.invoked = i /\ o.seen = NoDesktop
    BY <1>1, <1>3, CallIs DEF Seen
  <2> QED BY <1>1, <1>2, <1>3, <2>1, MoveReturn DEF To
<1>4. Call = [Call EXCEPT !.match = FALSE, !.invoked = FALSE]
  BY <1>1, CallIs DEF Seen
<1>5. \/ Report(Call, 0) /\ at' = at
      \/ /\ Report([Call EXCEPT !.match = TRUE, !.invoked = TRUE], 0)
         /\ at' = [at EXCEPT !["current"] = To]
      \/ \E i \in BOOLEAN :
           Report([Call EXCEPT !.match = TRUE, !.invoked = i], 1) /\ at' = at
  BY DEF SwitchDesktopReturns
<1>6. CASE Report(Call, 0) /\ at' = at
  BY <1>3, <1>4, <1>6
<1> QED BY <1>3, <1>5, <1>6

\* A piece is reported where it is, or nothing is known of it.
LEMMA ReadingReturnsKeeps ==
  ASSUME IInv, NEW p \in Piece, ReadingReturns(p)
  PROVE  IInv' /\ t' = t /\ saved' = saved
<1>1. pump = "call" /\ work.call.kind = ReadKind[p] /\ UNCHANGED world /\ saved' = saved
  BY DEF ReadingReturns, Returning, world
<1>2. t \in Transition /\ Types
  BY <1>1, InCall
<1>3. ASSUME NEW m \in BOOLEAN, NEW d \in {at[p], NoDesktop}, NEW o, NEW cost, Report(o, cost),
             o = [Call EXCEPT !.match = m, !.seen = d]
      PROVE  IInv' /\ t' = t /\ saved' = saved
  <2>1. at[p] \in Desktops /\ d \in Places
    BY <1>2 DEF Types, Places
  <2>2. /\ o \in Seen /\ o.kind = work.call.kind /\ o.fresh = work.call.fresh /\ o.seen = d
    BY <1>1, <1>3, <2>1, CallIs DEF Seen
  <2>3. t.dest \in Desktops /\ \A r \in Piece : t.origin[r] \in Desktops
    BY <1>2 DEF Transition
  <2>4. /\ d = t.dest => p \in Theres
        /\ d = t.origin[p] => p \in Homes
        /\ d = t.origin["current"] /\ p = "popup" => p \in Homes
    BY <2>1, <2>3, PickerAssumption DEF Theres, Homes, Home, Piece
  <2>5. \A r \in Piece : o.kind = ReadKind[r] => r = p
    BY <1>1, <2>2 DEF ReadKind, Piece
  <2>6. \A r \in Piece : o.kind # MoveKind[r]
    BY <1>1, <2>2 DEF MoveKind, ReadKind, Piece
  <2>7. o.kind \notin {"MoveTarget", "SwitchDesktop", "ShowAndFocus", "PublishVisualAssignment",
                       "Hide", "SaveExactTarget"}
          /\ (o.kind = "ReadPopup" => p = "popup")
    BY <1>1, <2>2 DEF ReadKind, Piece
  <2>8. Truthful(t, o, Homes, Theres)
    BY <2>2, <2>4, <2>5, <2>6, <2>7 DEF Truthful, Seen, Saves
  <2>9. Observed(t, o, Homes, Theres, View)
    BY <2>7, <2>8 DEF Observed
  <2> QED BY <1>1, <1>3, <2>2, <2>9, QuietReturn
<1>4. /\ [Call EXCEPT !.match = TRUE] = [Call EXCEPT !.match = TRUE, !.seen = NoDesktop]
      /\ Call = [Call EXCEPT !.match = FALSE, !.seen = NoDesktop]
  BY <1>1, CallIs DEF Seen
<1> DEFINE known == p # "target" \/ alive
<1>5. \/ Report([Call EXCEPT !.match = known, !.seen = IF known THEN at[p] ELSE NoDesktop], 0)
      \/ Report([Call EXCEPT !.match = TRUE], 1)
      \/ Report(Call, 1)
  BY DEF ReadingReturns
<1>6. known \in BOOLEAN /\ (IF known THEN at[p] ELSE NoDesktop) \in {at[p], NoDesktop}
  BY <1>2 DEF Types
<1> HIDE DEF known
<1>7. CASE Report([Call EXCEPT !.match = TRUE], 1)
  BY <1>3, <1>4, <1>7
<1>8. CASE Report(Call, 1)
  BY <1>3, <1>4, <1>8
<1> QED BY <1>3, <1>5, <1>6, <1>7, <1>8

LEMMA ValidateTargetReturnsKeeps ==
  ASSUME IInv, ValidateTargetReturns
  PROVE  IInv' /\ t' = t /\ saved' = saved
<1>1. pump = "call" /\ work.call.kind = "ValidateTarget" /\ UNCHANGED world /\ saved' = saved
  BY DEF ValidateTargetReturns, Returning, world
<1>2. alive \in BOOLEAN
  BY DEF IInv, Types
<1>3. PICK o \in {[Call EXCEPT !.match = alive], Call}, cost \in {0, 1} : Report(o, cost)
  BY DEF ValidateTargetReturns
<1>4. o \in Seen /\ o.kind = work.call.kind /\ o.fresh = work.call.fresh
  BY <1>1, <1>2, CallIs DEF Seen
<1> QED BY <1>1, <1>3, <1>4, PlainReturn

LEMMA RefreshReturnsKeeps ==
  ASSUME IInv, RefreshReturns
  PROVE  IInv' /\ t' = t /\ saved' = saved
<1>1. pump = "call" /\ work.call.kind = "Refresh" /\ UNCHANGED world /\ saved' = saved
  BY DEF RefreshReturns, Returning, world
<1>2. PICK o \in {[Call EXCEPT !.ok = TRUE], Call}, cost \in {0, 1} : Report(o, cost)
  BY DEF RefreshReturns
<1>3. o \in Seen /\ o.kind = work.call.kind /\ o.fresh = work.call.fresh
  BY <1>1, CallIs DEF Seen
<1> QED BY <1>1, <1>2, <1>3, PlainReturn

LEMMA FailureReportReturnsKeeps ==
  ASSUME IInv, FailureReportReturns
  PROVE  IInv' /\ t' = t /\ saved' = saved
<1>1. pump = "call" /\ work.call.kind = "ReportFailure" /\ UNCHANGED world /\ saved' = saved
  BY DEF FailureReportReturns, Returning, world
<1> DEFINE o == [Call EXCEPT !.ok = TRUE]
<1>2. Report(o, 0)
  BY DEF FailureReportReturns
<1>3. o \in Seen /\ o.kind = work.call.kind /\ o.fresh = work.call.fresh
  BY <1>1, CallIs DEF Seen
<1> HIDE DEF o
<1> QED BY <1>1, <1>2, <1>3, PlainReturn

\* What a call did to the popup, the badge or the record.
LEMMA ShowingReturn ==
  ASSUME IInv, pump = "call", NEW o \in Seen, NEW cost, Report(o, cost),
         o.kind = work.call.kind, o.fresh = work.call.fresh, o.kind \notin Moves \cup Reads,
         UNCHANGED <<at, alive, calm>>, shown' \in BOOLEAN, badge' \in BOOLEAN,
         saved' \in BOOLEAN,
         o.fresh => /\ o.kind = "ShowAndFocus" /\ o.ok => shown' \/ t.failed
                    /\ o.kind = "PublishVisualAssignment" /\ o.ok => badge' \/ t.failed
                    /\ o.kind = "Hide" => ~shown'
                    /\ o.kind = "SaveExactTarget" /\ saved' => RowMoveSaveCommits(o.save),
         Visible(t, Reported(work, o), View')
  PROVE  IInv' /\ t' = t
<1>1. /\ Types /\ Busy(t, work, Homes, Theres, View)
  BY InCall
<1>2. t' = t /\ at' = at /\ calm' = calm /\ alive' = alive
  BY DEF Report
<1>3. Homes' = Homes /\ Theres' = Theres
  BY <1>2, SamePlaces
<1>4. View'.shown = shown' /\ View'.badge = badge' /\ View'.saved = saved'
  BY DEF View
<1>5. Observed(t, o, Homes, Theres, View')
  BY <1>4, OtherTruthful DEF Observed
<1> QED BY <1>1, <1>2, <1>3, <1>5, ReturnKeeps DEF Busy, Types

LEMMA PublishReturnsKeeps ==
  ASSUME IInv, PublishReturns
  PROVE  IInv' /\ t' = t /\ saved' = saved
<1>1. /\ pump = "call" /\ work.call.kind = "PublishVisualAssignment"
      /\ UNCHANGED <<at, alive, calm>> /\ shown' = shown /\ saved' = saved
  BY DEF PublishReturns, Returning
<1>2. /\ Types /\ work \in Works /\ Busy(t, work, Homes, Theres, View)
  BY <1>1, InCall
<1>3. PICK o \in {[Call EXCEPT !.ok = TRUE], Call}, cost \in {0, 1} :
        Report(o, cost) /\ badge' = (IF o.ok THEN TRUE ELSE badge)
  <2>1. CASE Report([Call EXCEPT !.ok = TRUE], 0) /\ badge' = TRUE
    BY <1>1, <2>1, CallIs DEF Seen
  <2>2. CASE Report(Call, 1) /\ badge' = badge
    BY <1>1, <2>2, CallIs
  <2> QED BY <2>1, <2>2 DEF PublishReturns
<1>4. o \in Seen /\ o.kind = work.call.kind /\ o.fresh = work.call.fresh
  BY <1>1, CallIs DEF Seen
<1>5. shown' \in BOOLEAN /\ saved' \in BOOLEAN /\ badge' \in BOOLEAN /\ (badge => badge')
  BY <1>1, <1>2, <1>3 DEF Types
<1>6. Visible(t, Reported(work, o), View)
  BY <1>2, <1>4, ReportedVisible DEF Busy
<1>7. Visible(t, Reported(work, o), View')
  BY <1>1, <1>5, <1>6 DEF Visible, View
<1>8. o.kind \notin Moves \cup Reads
  BY <1>1, <1>4 DEF Moves, Reads, Piece, MoveKind, ReadKind
<1> QED BY <1>1, <1>3, <1>4, <1>5, <1>7, <1>8, ShowingReturn

LEMMA ShowReturnsKeeps ==
  ASSUME IInv, ShowReturns
  PROVE  IInv' /\ t' = t /\ saved' = saved
<1>1. /\ pump = "call" /\ work.call.kind = "ShowAndFocus"
      /\ UNCHANGED <<at, alive, calm>> /\ badge' = badge /\ saved' = saved
      /\ shown' = IF t.dismissed THEN shown ELSE TRUE
  BY DEF ShowReturns, Returning
<1>2. /\ Types /\ work \in Works /\ Busy(t, work, Homes, Theres, View)
  BY <1>1, InCall
<1>3. PICK o \in {[Call EXCEPT !.ok = TRUE], Call}, cost \in {0, 1} : Report(o, cost)
  BY DEF ShowReturns
<1>4. o \in Seen /\ o.kind = work.call.kind /\ o.fresh = work.call.fresh
  BY <1>1, CallIs DEF Seen
<1>5. shown' \in BOOLEAN /\ saved' \in BOOLEAN /\ badge' \in BOOLEAN /\ (shown => shown')
  BY <1>1, <1>2 DEF Types
<1>6. t.dismissed => t.failed
  BY <1>2 DEF Busy, TransitionInv, Sound
<1>7. t.hideDone => t.dismissed
  BY <1>2 DEF Busy, TransitionInv, Sound
<1>8. Visible(t, Reported(work, o), View)
  BY <1>2, <1>4, ReportedVisible DEF Busy
<1>9. Visible(t, Reported(work, o), View')
  BY <1>1, <1>5, <1>7, <1>8 DEF Visible, View
<1>10. o.kind \notin Moves \cup Reads
  BY <1>1, <1>4 DEF Moves, Reads, Piece, MoveKind, ReadKind
<1> QED BY <1>1, <1>3, <1>4, <1>5, <1>6, <1>9, <1>10, ShowingReturn

LEMMA HideReturnsKeeps ==
  ASSUME IInv, HideReturns
  PROVE  IInv' /\ t' = t /\ saved' = saved
<1> DEFINE o == [Call EXCEPT !.ok = TRUE]
<1>1. /\ pump = "call" /\ work.call.kind = "Hide" /\ Report(o, 0)
      /\ UNCHANGED <<at, alive, calm>> /\ badge' = FALSE /\ saved' = saved /\ shown' = FALSE
  BY DEF HideReturns, Returning
<1>2. /\ Types /\ work \in Works /\ Busy(t, work, Homes, Theres, View)
  BY <1>1, InCall
<1>3. o \in Seen /\ o.kind = work.call.kind /\ o.fresh = work.call.fresh
  BY <1>1, CallIs DEF Seen
<1> HIDE DEF o
<1>4. t.failed
  BY <1>1, <1>2 DEF Busy, WorkFits, CallFits, TransitionInv, Sound
<1>5. Visible(t, Reported(work, o), View)
  BY <1>2, <1>3, ReportedVisible DEF Busy
<1>6. Visible(t, Reported(work, o), View')
  BY <1>1, <1>4, <1>5 DEF Visible, View
<1>7. o.kind \notin Moves \cup Reads
  BY <1>1, <1>3 DEF Moves, Reads, Piece, MoveKind, ReadKind
<1>8. saved' \in BOOLEAN
  BY <1>1, <1>2 DEF Types
<1> QED BY <1>1, <1>3, <1>6, <1>7, <1>8, ShowingReturn

\* The record is published only while the transition waits for that.
LEMMA SaveReturnsKeeps ==
  ASSUME IInv, SaveReturns
  PROVE  IInv' /\ t' = t /\ t.cutoff /\ (saved => saved')
<1>1. /\ pump = "call" /\ work.call.kind = "SaveExactTarget"
      /\ UNCHANGED <<at, alive, calm>> /\ badge' = badge /\ shown' = shown
  BY DEF SaveReturns, Returning
<1>2. /\ Types /\ work \in Works /\ Busy(t, work, Homes, Theres, View)
  BY <1>1, InCall
<1>3. PICK save \in Saves, match \in BOOLEAN :
        /\ \E cost : Report([Call EXCEPT !.match = match, !.save = save], cost)
        /\ saved' = (saved \/ save \in {"Saved", "FlushFailed"})
  BY DEF SaveReturns, Saves
<1> DEFINE o == [Call EXCEPT !.match = match, !.save = save]
<1>4. PICK cost : Report(o, cost)
  BY <1>3
<1>5. o \in Seen /\ o.kind = work.call.kind /\ o.fresh = work.call.fresh /\ o.save = save
  BY <1>1, CallIs DEF Seen
<1> HIDE DEF o
<1>6. ~saved
  BY <1>1, <1>2 DEF Busy, Visible, View, Types
<1>7. saved' \in BOOLEAN /\ shown' \in BOOLEAN /\ badge' \in BOOLEAN
        /\ (saved' => RowMoveSaveCommits(o.save))
  BY <1>1, <1>2, <1>3, <1>5, <1>6 DEF Types, RowMoveSaveCommits
<1>8. t.pending = "SaveExactTarget" /\ work.sched.kind = None
  BY <1>1, <1>2, Kinds DEF Busy, WorkFits, CallFits
<1>9. t.cutoff
  BY <1>2, <1>8, Kinds DEF Busy, TransitionInv, PendingInv, PhaseInv, SaveInv
<1>10. Visible(t, Reported(work, o), View)
  BY <1>2, <1>5, ReportedVisible DEF Busy
<1>11. Reported(work, o).call.kind # "SaveExactTarget"
         /\ Reported(work, o).sched.kind # "SaveExactTarget"
  BY <1>2, <1>5, <1>8, ReportedFields, NothingType, Kinds
<1>12. Visible(t, Reported(work, o), View')
  BY <1>1, <1>9, <1>10, <1>11 DEF Visible, View
<1>13. o.kind \notin Moves \cup Reads
  BY <1>1, <1>5 DEF Moves, Reads, Piece, MoveKind, ReadKind
<1>14. IInv' /\ t' = t
  BY <1>1, <1>4, <1>5, <1>7, <1>12, <1>13, ShowingReturn
<1> QED BY <1>3, <1>9, <1>14

-----------------------------------------------------------------------------
(* The theorems. *)

LEMMA InitEstablishes == Init => IInv
<1> SUFFICES ASSUME Init
             PROVE  IInv
  OBVIOUS
<1>1. work = Rest /\ t = Idle /\ t.phase = "Idle"
  BY DEF Init, Idle
<1>2. Rest \in Works /\ AtRest(Rest) /\ Rest.call.kind = None
  BY NothingType DEF Rest, Works, AtRest, Pending
<1>3. q \in Queues
  BY PickerMoveAssumption DEF Init, Queues
<1>4. Types
  <2>1. /\ drain \in 0..Passes + 1 /\ pump = "off" /\ quit = "no" /\ at \in [Piece -> Desktops]
        /\ alive = TRUE /\ calm = TRUE /\ shown = TRUE /\ badge = FALSE /\ saved = FALSE
    BY DEF Init, Passes
  <2>2. work \in Works /\ work.call.kind = None
    BY <1>1, <1>2
  <2> QED BY <1>3, <2>1, <2>2 DEF Types
<1>5. Transitions
  BY <1>1, <1>2 DEF Transitions, Idling
<1>6. WorkIsDelivered
  BY <1>1, <1>2 DEF WorkIsDelivered, AtRest
<1> QED BY <1>4, <1>5, <1>6 DEF IInv

LEMMA SameStateKeeps ==
  ASSUME IInv, UNCHANGED vars
  PROVE  IInv'
<1>1. UNCHANGED <<t, work, world, pump, q, drain, quit>>
  BY DEF vars
<1> QED BY <1>1, PumpOnly DEF IInv, Types, WorkIsDelivered, Wakes

LEMMA ReturnSteps ==
  ASSUME IInv, Return
  PROVE  IInv' /\ t' = t /\ (saved' = saved \/ (t.cutoff /\ (saved => saved')))
<1>1. CASE \E p \in Piece : ReadingReturns(p)
  BY <1>1, ReadingReturnsKeeps
<1>2. CASE SaveReturns
  BY <1>2, SaveReturnsKeeps
<1> QED BY <1>1, <1>2, MoveTargetReturnsKeeps, MovePopupReturnsKeeps, SwitchDesktopReturnsKeeps,
           ValidateTargetReturnsKeeps, PublishReturnsKeeps, RefreshReturnsKeeps,
           ShowReturnsKeeps, HideReturnsKeeps, FailureReportReturnsKeeps DEF Return

\* What a step can do to the transition under way, with the invariant it keeps:
\* it leaves the transition and the record alone, answers for the transition as
\* the reducer does, records a move that is past the point of no return, ends it,
\* or begins one.
Steps ==
  \/ t' = t /\ saved' = saved
  \/ /\ ~Idling /\ t'.phase # "Idle" /\ saved' = saved /\ Promised(t, t', saved)
  \/ /\ ~Idling /\ t' = t /\ t.cutoff /\ (saved => saved')
  \/ /\ ~Idling /\ t' = Idle /\ t.ack /\ saved' = saved
  \/ /\ Idling /\ t'.phase # "Idle" /\ ~KeptBy(t') /\ ~t'.failed /\ saved' = FALSE

LEMMA StepKeeps ==
  ASSUME IInv, [Next]_vars
  PROVE  IInv' /\ Steps
<1>1. ASSUME NEW mode \in Modes, NEW sticky \in BOOLEAN, NEW dest \in Desktops,
             BeginPickerAction(mode, sticky, dest)
      PROVE  IInv' /\ Steps
  BY <1>1, BeginPickerActionKeeps DEF Steps, BeginPickerAction, MayBegin
<1>2. CASE RequestPickerCancellation
  BY <1>2, RequestPickerCancellationKeeps DEF Steps, RequestPickerCancellation, world
<1>3. ASSUME NEW p \in Piece, NEW d \in Desktops, Disturb(p, d)
      PROVE  IInv' /\ Steps
  BY <1>3, DisturbKeeps DEF Steps, Disturb
<1>4. CASE TargetCloses
  BY <1>4, TargetClosesKeeps DEF Steps, TargetCloses
<1>5. CASE AskedInsideCall
  BY <1>5, AskedInsideCallKeeps DEF Steps, AskedInsideCall, world
<1>6. ASSUME NEW why \in {"ask", "end"}, DrainBegins(why)
      PROVE  IInv' /\ Steps
  BY <1>6, DrainBeginsKeeps DEF Steps, DrainBegins, world
<1>7. CASE Message
  <2>1. t' = t /\ saved' = saved
    BY <1>7 DEF Message, PostedMessage, TransitionTimer, OtherMessage, Starts, world
  <2> QED BY <1>7, <2>1, MessageKeeps DEF Steps
<1>8. CASE PostedInVain
  BY <1>8, PostedInVainKeeps DEF Steps, PostedInVain, world
<1>9. CASE Settle
  BY <1>9, SettleKeeps DEF Steps, Settle, world
<1>10. CASE ConsumeObservation
  BY <1>10, ConsumeObservationKeeps DEF Steps, ConsumeObservation, world
<1>11. CASE HoldReading
  BY <1>11, HoldReadingKeeps DEF Steps, HoldReading, world
<1>12. CASE AcknowledgeWithoutUi
  BY <1>12, AcknowledgeWithoutUiKeeps DEF Steps, AcknowledgeWithoutUi, world
<1>13. CASE Execute
  BY <1>13, ExecuteKeeps DEF Steps, Execute, world
<1>14. CASE Finalize
  <2>1. ~Idling
    BY <1>14, Facts DEF Finalize, AtRest, Pending
  <2> QED BY <1>14, <2>1, FinalizeKeeps DEF Steps, Finalize, world
<1>15. CASE FinalizeFails
  BY <1>15, FinalizeFailsKeeps DEF Steps, FinalizeFails, world
<1>16. CASE NothingLeft
  BY <1>16, NothingLeftKeeps DEF Steps, NothingLeft, world
<1>17. CASE Return
  <2>1. ~Idling
    BY <1>17, InCall DEF Return, MoveTargetReturns, MovePopupReturns, SwitchDesktopReturns,
         ReadingReturns, ValidateTargetReturns, PublishReturns, SaveReturns, RefreshReturns,
         ShowReturns, HideReturns, FailureReportReturns, Returning
  <2> QED BY <1>17, <2>1, ReturnSteps DEF Steps
<1>18. CASE DrainPass
  BY <1>18, DrainPassKeeps DEF Steps, DrainPass, world
<1>19. CASE DrainEnds
  BY <1>19, DrainEndsKeeps DEF Steps, DrainEnds, world
<1>20. CASE SessionEnds
  BY <1>20, SessionEndsKeeps DEF Steps, SessionEnds, world
<1>21. CASE UNCHANGED vars
  BY <1>21, SameStateKeeps DEF Steps, vars, world
<1> QED BY <1>1, <1>2, <1>3, <1>4, <1>5, <1>6, <1>7, <1>8, <1>9, <1>10, <1>11, <1>12,
           <1>13, <1>14, <1>15, <1>16, <1>17, <1>18, <1>19, <1>20, <1>21
        DEF Next, User, Pump, Drain

\* The inductive invariant of module PickerMove: whatever is scheduled, called or
\* observed belongs to the effect the transition waits for, what was observed is
\* so, and every piece is home, counted as moved, or at the destination, as its
\* phase says.
THEOREM PickerMoveInvariant == Spec => []IInv
<1>1. Init => IInv
  BY InitEstablishes
<1>2. IInv /\ [Next]_vars => IInv'
  BY StepKeeps
<1> QED BY <1>1, <1>2, PTL DEF Spec

LEMMA EveryPhase == Phase = {"Idle", "SaveExactTarget"} \cup Forward \cup Backward \cup Last
BY DEF Phase, Issuing, Verifying, Piece, Forward, Backward, TargetBack, PopupBack, SwitchBack, Last

\* How a transition may be when it is over.
LEMMA OverInv ==
  ASSUME NEW u, NEW H, NEW A, TransitionInv(u, H, A), u.ack
  PROVE  \/ u.phase \in Forward /\ u.mode = "VisualOnly" /\ ~u.cutoff
         \/ u.phase \in Last /\ LastInv(u, A, u.pending)
<1>1. u.phase \in Phase \ {"Idle"} /\ PhaseInv(u, A, u.pending)
  BY DEF TransitionInv, Sound, Transition
<1> QED BY <1>1, EveryPhase DEF PhaseInv, ForwardInv, BackwardInv, SaveInv

LEMMA KeptIs == Kept <=> KeptBy(t)
BY DEF Kept, KeptBy

LEMMA InvariantImplies == IInv => EndsClean
<1> SUFFICES ASSUME IInv
             PROVE  EndsClean
  OBVIOUS
<1>1. Types /\ work \in Works /\ q \in Queues /\ WorkIsDelivered
  BY DEF IInv, Types
<1>2. TypeOK
  <2>1. /\ work.sched.kind \in EffectKind /\ work.call.kind \in EffectKind
        /\ work.kick.kind \in EffectKind
    BY <1>1, KickFields DEF Works, Effect
  <2>2. /\ pump \in {"off", "run", "call"} /\ drain \in 0..Passes + 1
        /\ quit \in {"no", "ask", "end", "ended"}
        /\ q.posted \in 0..PostCap /\ at \in [Piece -> Desktops]
        /\ saved \in BOOLEAN /\ ((pump = "call") = (work.call.kind # None))
    BY <1>1 DEF Types, Queues
  <2>3. CASE t = Idle
    <3>1. /\ t.phase = "Idle" /\ t.mode = "VisualOnly" /\ t.pending = None
          /\ t.resume = "Idle" /\ t.origin = None3(NoDesktop) /\ t.seen = None3(NoDesktop)
          /\ t.tries["there"] = None3(0) /\ t.tries["back"] = None3(0)
          /\ t.focus = 0 /\ t.refresh = 0
      BY <2>3 DEF Idle
    <3>2. 0 \in 0..Attempts
      BY PickerAssumption
    <3>3. None3(NoDesktop) \in [Piece -> Desktops \cup {NoDesktop}]
            /\ None3(0) \in [Piece -> 0..Attempts]
      BY <3>2 DEF None3
    <3> QED BY <2>1, <2>2, <3>1, <3>2, <3>3, Kinds DEF TypeOK, Phase, Mode
  <2>4. CASE t \in Transition
    <3>1. /\ t.phase \in Phase /\ t.mode \in Mode /\ t.pending \in EffectKind
          /\ t.resume \in Phase
          /\ t.origin \in [Piece -> Desktops \cup {NoDesktop}]
          /\ t.seen \in [Piece -> Desktops \cup {NoDesktop}]
          /\ t.focus \in 0..Attempts /\ t.refresh \in 0..Attempts
      BY <2>4 DEF Transition, Places
    <3>2. \A w \in {"there", "back"} : t.tries[w] \in [Piece -> 0..Attempts]
      BY <2>4 DEF Transition, Ways
    <3> QED BY <2>1, <2>2, <3>1, <3>2 DEF TypeOK
  <2> QED BY <2>3, <2>4, Facts
<1>3. CASE Idling
  <2>1. ~t.ack
    BY <1>3, Facts DEF Idle
  <2> QED BY <1>1, <1>2, <1>3, <2>1
      DEF EndsClean, TransitionProceeds, NothingLeftBehind, SuccessIsComplete,
          RecordMatchesPlace, EscHidesAfterMove
<1>4. CASE ~Idling
  <2>1. /\ TransitionInv(t, Homes, Theres) /\ Visible(t, work, View) /\ WorkFits(t, work)
        /\ (~Stopped => Carried(t, work)) /\ Sound(t, Homes) /\ PendingInv(t)
    BY <1>4, Facts DEF Busy, TransitionInv
  <2>2. TransitionProceeds
    BY <1>4, <2>1 DEF TransitionProceeds, PendingInv, WorkFits, Carried
  <2>3. t.ack => \/ t.phase \in Forward /\ t.mode = "VisualOnly" /\ ~t.cutoff
                 \/ t.phase \in Last /\ LastInv(t, Theres, t.pending)
    BY <2>1, OverInv
  <2>4. NothingLeftBehind
    <3> SUFFICES ASSUME t.ack, calm, ~KeptBy(t), NEW p \in Piece, ~(at[p] \in Home(p))
                 PROVE  Admitted(p)
      BY KeptIs DEF NothingLeftBehind
    <3>1. t.moved[p]
      BY <2>1 DEF Sound, Homes
    <3>2. t.phase \in Last /\ LastInv(t, Theres, t.pending)
      BY <2>1, <2>3, <3>1 DEF Sound, Follower, Visual, Piece
    <3>3. AllSettled(t)
      BY <3>2 DEF LastInv, KeptBy, Last
    <3> QED BY <3>1, <3>3 DEF AllSettled, Settled, Admitted
  <2>5. SuccessIsComplete
    <3> SUFFICES ASSUME t.ack, calm, ~t.failed
                 PROVE  /\ t.mode \in {"MoveAndFollow", "RowMoveOnly"} /\ alive
                             => at["target"] = t.dest
                        /\ Follows(t.mode) => at["current"] = t.dest /\ shown
                        /\ Follows(t.mode) /\ ~t.sticky => at["popup"] = t.dest
                        /\ Visual(t) => badge
      BY DEF SuccessIsComplete
    <3>1. Visual(t) => badge
      BY <2>1 DEF Visible, View
    <3>2. Follows(t.mode) => shown
      BY <2>1 DEF Visible, View, Follows, Follower
    <3>3. CASE t.mode = "VisualOnly"
      BY <3>1, <3>3 DEF Follows
    <3>4. CASE t.mode # "VisualOnly"
      <4>1. AllThere(t, Theres)
        BY <2>3, <3>4 DEF LastInv
      <4> QED BY <3>1, <3>2, <4>1 DEF AllThere, Theres, Follows, Follower, Visual
    <3> QED BY <3>3, <3>4
  <2>6. RecordMatchesPlace
    BY <2>1, <2>3 DEF RecordMatchesPlace, Visible, View, LastInv, AllThere, Theres
  <2>7. EscHidesAfterMove
    BY <2>1 DEF EscHidesAfterMove, PendingInv, Sound, Visible, View
  <2> QED BY <1>1, <1>2, <2>2, <2>4, <2>5, <2>6, <2>7 DEF EndsClean
<1> QED BY <1>3, <1>4

\* A transition always has its next step under way, and work that is left will
\* start the pump again; when it is over, every piece is back or was tried as often
\* as it may be, or all it was asked for is done and shown; the layout records no
\* place the window was taken back from; and Esc has closed the picker.
THEOREM EndsCleanAlways == Spec => []EndsClean
<1>1. IInv => EndsClean
  BY InvariantImplies
<1> QED BY <1>1, PickerMoveInvariant, PTL

-----------------------------------------------------------------------------
(* The contract. *)

LEMMA StageIs ==
  /\ Stage = "idle" <=> Idling
  /\ Stage = "kept" <=> ~Idling /\ KeptBy(t)
  /\ Stage = "undone" <=> ~Idling /\ ~KeptBy(t) /\ t.failed
  /\ Stage = "open" <=> ~Idling /\ ~KeptBy(t) /\ ~t.failed
BY KeptIs DEF Stage

\* A transition that is over was decided.
LEMMA OverIsDecided ==
  ASSUME IInv, ~Idling, t.ack
  PROVE  KeptBy(t) \/ t.failed
<1>1. TransitionInv(t, Homes, Theres)
  BY Facts DEF Busy
<1>2. \/ t.phase \in Forward /\ t.mode = "VisualOnly"
      \/ t.phase \in Last /\ LastInv(t, Theres, t.pending)
  BY <1>1, OverInv
<1> QED BY <1>2 DEF LastInv, KeptBy, Visual

LEMMA StepPromised ==
  ASSUME IInv, [Next]_vars
  PROVE  [Contract!ContractNext]_<<Stage, saved>>
<1>1. saved \in BOOLEAN /\ saved' \in BOOLEAN /\ Steps
  BY StepKeeps DEF IInv, Types
<1>2. /\ Stage' = "idle" <=> t'.phase = "Idle"
      /\ Stage' = "kept" <=> t'.phase # "Idle" /\ KeptBy(t')
      /\ Stage' = "undone" <=> t'.phase # "Idle" /\ ~KeptBy(t') /\ t'.failed
      /\ Stage' = "open" <=> t'.phase # "Idle" /\ ~KeptBy(t') /\ ~t'.failed
  BY DEF Stage, Idling, Kept, KeptBy, Visual
<1>3. CASE t' = t
  <2>1. Stage' = Stage
    BY <1>3 DEF Stage, Idling, Kept, Visual
  <2>2. CASE saved' = saved
    BY <2>1, <2>2
  <2>3. CASE saved' # saved
    <3>1. ~Idling /\ t.cutoff /\ (saved => saved')
      BY <1>1, <1>3, <2>3 DEF Steps, Idling
    <3>2. Stage = "kept"
      BY <3>1, StageIs DEF KeptBy
    <3>3. saved' = TRUE \/ saved' = FALSE
      BY <1>1
    <3>4. saved' = TRUE
      BY <1>1, <2>3, <3>1, <3>3
    <3> QED BY <2>1, <3>2, <3>4 DEF Contract!ContractNext, Contract!Save
  <2> QED BY <2>2, <2>3
<1>4. CASE ~Idling /\ t'.phase # "Idle" /\ saved' = saved /\ Promised(t, t', saved)
  <2>1. CASE KeptBy(t)
    <3>1. Stage = "kept"
      BY <1>4, <2>1, StageIs
    <3>2. Stage' = "kept" \/ (Stage' = "undone" /\ ~saved)
      BY <1>2, <1>4, <2>1 DEF Promised
    <3> QED BY <1>4, <3>1, <3>2 DEF Contract!ContractNext, Contract!Withdraw
  <2>2. CASE ~KeptBy(t) /\ t.failed
    <3>1. Stage = "undone" /\ Stage' = "undone"
      BY <1>2, <1>4, <2>2, StageIs DEF Promised
    <3> QED BY <1>4, <3>1
  <2>3. CASE ~KeptBy(t) /\ ~t.failed
    <3>1. Stage = "open" /\ Stage' \in {"kept", "undone", "open"}
      BY <1>2, <1>4, <2>3, StageIs
    <3> QED BY <1>4, <3>1 DEF Contract!ContractNext, Contract!Keep, Contract!Undo
  <2> QED BY <2>1, <2>2, <2>3
<1>5. CASE ~Idling /\ t' = Idle /\ t.ack /\ saved' = saved
  <2>1. Stage \in {"kept", "undone"} /\ Stage' = "idle"
    BY <1>2, <1>5, StageIs, OverIsDecided DEF Idle
  <2> QED BY <1>5, <2>1 DEF Contract!ContractNext, Contract!End
<1>6. CASE Idling /\ t'.phase # "Idle" /\ ~KeptBy(t') /\ ~t'.failed /\ saved' = FALSE
  <2>1. Stage = "idle" /\ Stage' = "open"
    BY <1>2, <1>6, StageIs
  <2> QED BY <1>6, <2>1 DEF Contract!ContractNext, Contract!Request
<1> QED BY <1>1, <1>3, <1>4, <1>5, <1>6 DEF Steps

\* The whole machine implements what module PickerContract promises: a move is
\* kept or undone, never both; the layout learns of it only while it is kept; and
\* one the layout knows is not undone.
THEOREM PromiseIsKept == Spec => Promise
<1>1. Init => Contract!ContractInit
  BY DEF Init, Contract!ContractInit, Stage, Idling, Idle
<1>2. IInv /\ [Next]_vars => [Contract!ContractNext]_(Contract!contractVars)
  BY StepPromised DEF Contract!contractVars
<1> QED BY <1>1, <1>2, PickerMoveInvariant, PTL DEF Spec, Promise, Contract!Spec

=============================================================================
