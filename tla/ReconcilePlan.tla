---------------------------- MODULE ReconcilePlan -----------------------------
(* The reconcile of one browser: which saved record is which window, what is  *)
(* to be moved, adopted, created and marked missing (PlanAppReconcile), and   *)
(* what the records are afterwards (CommitAppReconcile; both lifecycle.hpp).  *)
(* A reconcile is followed by a second one of the same windows, each where    *)
(* the first one's moves left it.                                             *)
EXTENDS LayoutMatching, Assignment, TLC

CONSTANTS
  App,           \* the browser that is reconciled
  Inputs,        \* [existing, live, reserved]: the records, the windows and the records in use
  MaxRecords     \* MAX_LAYOUT_RECORDS

VARIABLES
  existing,      \* the records, a sequence
  live,          \* the windows, a sequence
  reserved,      \* the ids of the records of moves under way
  freshness,     \* ReconcileFreshness: were the sessions read now
  pass,          \* 1 or 2
  phase,         \* "match", "planned", "committed" or "done"
  plan,          \* the ReconcilePlan, and what the first one was
  first,         \* the windows of the first pass that are to stay where they are now
  before         \* of this pass: the records at its start

planner == <<existing, live, reserved, freshness, pass, phase, plan, first, before>>
vars == <<planner, matcher>>

AcceptScore == 550

------------------------------------------------------------------------------
(* Records.  An age is "recent" or "old", which is past the retention time.   *)

Ages == {"recent", "old"}
Never == "never"   \* not missing

IsExpired(r) == r.missing = "old"

MarkSeen(r) == [r EXCEPT !.seen = "recent", !.missing = Never]

\* A record is missing since it was last seen.
MarkMissing(r) == [r EXCEPT !.missing = IF @ = Never THEN r.seen ELSE @]

Reserved(i) == existing[i].id \in reserved

\* The records a window may be matched with.
Eligible == {i \in DOMAIN existing :
               existing[i].app = App /\ ~IsExpired(existing[i]) /\ ~Reserved(i)}

OfApp == {j \in DOMAIN live : live[j].app = App}

\* Mutant: where a window is does not count.
CandidatesAnywhere ==
  {[saved |-> p[1], live |-> p[2], score |-> LayoutScore(existing[p[1]], live[p[2]]),
    inPlace |-> FALSE] :
     p \in {q \in Eligible \X OfApp : LayoutScore(existing[q[1]], live[q[2]]) >= AcceptScore}}

\* MatchOneToOne: the pairs that score enough.
Candidates ==
  {[saved |-> p[1], live |-> p[2], score |-> LayoutScore(existing[p[1]], live[p[2]]),
    inPlace |-> existing[p[1]].desktop = live[p[2]].desktop] :
     p \in {q \in Eligible \X OfApp : LayoutScore(existing[q[1]], live[q[2]]) >= AcceptScore}}

------------------------------------------------------------------------------
(* The plan.                                                                  *)

Deferred == [deferred |-> TRUE, matches |-> {}, restores |-> {}, created |-> << >>, missing |-> {}]

Moved(i, j) == existing[i].desktop # live[j].desktop

\* The window is elsewhere, and moving it would be a guess.
RecordOnly(i, j) ==
  /\ Moved(i, j)
  /\ \/ LooksLikeWindowSplit(existing[i], live, j)
     \/ LooksLikeWindowMerge(existing, i, live[j],
                             {r \in DOMAIN existing : IsExpired(existing[r])})

Matches == {[saved |-> e.saved, live |-> e.live, recordOnly |-> RecordOnly(e.saved, e.live)] :
              e \in assigned}

FreeRecords == Eligible \ {e.saved : e \in assigned}
FreeWindows == OfApp \ {e.live : e \in assigned}
FreeProvisionals == {i \in FreeRecords : existing[i].provisional}

TitleOf(w) == w.look.title

\* The provisional records and the windows with a title no other of them has.
SameTitled ==
  {p \in FreeProvisionals \X FreeWindows :
     LET t == TitleOf(existing[p[1]]) IN
     /\ t # NoTitle /\ TitleOf(live[p[2]]) = t
     /\ \A i \in FreeProvisionals \ {p[1]} : TitleOf(existing[i]) # t
     /\ \A j \in FreeWindows \ {p[2]} : TitleOf(live[j]) # t}

\* The pairs of a provisional record and the window that is taken for its own.
Adoptions ==
  IF Cardinality(FreeProvisionals) = 1 /\ Cardinality(FreeWindows) = 1
  THEN FreeProvisionals \X FreeWindows
  ELSE SameTitled

\* Provisional records and windows are left over, and a title does not tell
\* them apart.
Ambiguous ==
  LET records == FreeProvisionals \ {p[1] : p \in Adoptions}
      windows == FreeWindows \ {p[2] : p \in Adoptions}
      titles == {TitleOf(existing[i]) : i \in records} \cup {NoTitle}
  IN /\ records # {} /\ windows # {}
     /\ (\E i \in records : TitleOf(existing[i]) = NoTitle)
        \/ (\E j \in windows : TitleOf(live[j]) \in titles)

\* A record with known tabs waits for its window while some window's tabs are
\* not known yet.
EstablishedWaits ==
  /\ \E i \in FreeRecords : ~existing[i].provisional
  /\ \E j \in FreeWindows : Pages(live[j].look) = {}

MustWait ==
  /\ FreeProvisionals # {} /\ FreeWindows # {}
  /\ Ambiguous \/ EstablishedWaits

Fresh == freshness = "fresh"

Adopted ==
  IF ~Fresh THEN {}
  ELSE {[saved |-> p[1], live |-> p[2], recordOnly |-> FALSE] : p \in Adoptions}

\* What no record is left for, and what is left of the records.
Unaccounted == FreeWindows \ {a.live : a \in Adopted}

Lost == FreeRecords \ {a.saved : a \in Adopted}

Retained(missing) ==
  {i \in DOMAIN existing :
     ~IsExpired(IF i \in missing THEN MarkMissing(existing[i]) ELSE existing[i])}

\* The records that stay whatever the plan is.
Fixed == {i \in DOMAIN existing :
            ~IsExpired(existing[i]) /\ (existing[i].app # App \/ Reserved(i))}

\* Mutant: the records that stay missing take no room.
NoRoomForLive == Cardinality(Fixed) + Cardinality(OfApp) > MaxRecords

NoRoom ==
  \/ Cardinality(Fixed) + Cardinality(OfApp) > MaxRecords
  \/ Cardinality(Retained(Lost)) + Cardinality(Unaccounted) > MaxRecords

RestoresOf(matches) ==
  {[saved |-> m.saved, live |-> m.live, destination |-> existing[m.saved].desktop] :
     m \in {x \in matches : Moved(x.saved, x.live) /\ ~x.recordOnly}}

\* PlanAppReconcile, once the matcher has answered.
PlanAppReconcile ==
  IF tooComplex \/ (Fresh /\ (MustWait \/ NoRoom)) THEN Deferred
  ELSE [deferred |-> FALSE,
        matches  |-> Matches \cup Adopted,
        restores |-> RestoresOf(Matches \cup Adopted),
        created  |-> IF Fresh THEN SetToSeq(Unaccounted) ELSE << >>,
        missing  |-> IF Fresh THEN Lost ELSE {}]

------------------------------------------------------------------------------
(* The commit.                                                                *)

\* The id of the n-th new record: one that no record has.
NewId(n) == n + MapThenSumSet(LAMBDA id : id, {existing[i].id : i \in DOMAIN existing} \cup reserved)

\* CommitAppReconcile refuses a plan that does not fit the records.
Fits(p) ==
  LET pairs == {<<m.saved, m.live>> : m \in p.matches}
      restored == {<<r.saved, r.live>> : r \in p.restores}
      windows == {p.created[n] : n \in DOMAIN p.created}
  IN /\ \A m, n \in p.matches : m # n => m.saved # n.saved /\ m.live # n.live
     /\ \A m \in p.matches : ~IsExpired(existing[m.saved]) /\ existing[m.saved].app = App
     /\ restored \subseteq pairs
     /\ \A r \in p.restores : Moved(r.saved, r.live)
     /\ \A m \in p.matches :
          LET hasRestore == <<m.saved, m.live>> \in restored IN
          IF m.recordOnly THEN Moved(m.saved, m.live) /\ ~hasRestore
          ELSE Moved(m.saved, m.live) = hasRestore
     /\ ~Fresh => p.missing = {} /\ p.created = << >>
     /\ p.missing \cap {m.saved : m \in p.matches} = {}
     /\ \A i \in p.missing : ~IsExpired(existing[i]) /\ existing[i].app = App
     /\ windows \cap {m.live : m \in p.matches} = {}
     /\ Cardinality(Retained(p.missing)) + Len(p.created) <= MaxRecords

Fingerprint(r, w) == IF Fresh THEN [r EXCEPT !.look = w.look, !.provisional = FALSE] ELSE r

\* Mutant: a record takes the place of its window even when the window is to
\* be moved.
CommittedInPlace(r, w, recordOnly) ==
  [MarkSeen(Fingerprint(r, w)) EXCEPT !.desktop = w.desktop]

\* A matched record: it is seen, it follows its window when that is not to be
\* moved, and keeps its own place otherwise, whether or not the move succeeded.
CommittedMatch(r, w, recordOnly) ==
  [MarkSeen(Fingerprint(r, w)) EXCEPT !.desktop = IF recordOnly THEN w.desktop ELSE r.desktop]

NewRecord(n, w) ==
  [id |-> NewId(n), app |-> App, desktop |-> w.desktop, look |-> w.look,
   seen |-> "recent", missing |-> Never, provisional |-> FALSE]

CommitAppReconcile(p) ==
  IF p.deferred \/ ~Fits(p) THEN existing
  ELSE LET updated ==
             [i \in DOMAIN existing |->
                IF \E m \in p.matches : m.saved = i
                THEN LET m == CHOOSE m \in p.matches : m.saved = i IN
                     CommittedMatch(existing[i], live[m.live], m.recordOnly)
                ELSE IF i \in p.missing THEN MarkMissing(existing[i])
                ELSE existing[i]]
       IN SelectSeq(updated \o [n \in DOMAIN p.created |-> NewRecord(n, live[p.created[n]])],
                    LAMBDA r : ~IsExpired(r))

------------------------------------------------------------------------------
(* A reconcile.                                                               *)

Init ==
  /\ \E input \in Inputs :
       /\ existing = input.existing /\ live = input.live /\ reserved = input.reserved
  /\ freshness \in {"fresh", "stale"}
  /\ pass = 1 /\ phase = "match" /\ plan = Deferred /\ first = {} /\ before = existing
  /\ candidates = Candidates
  /\ stage = "group" /\ todo = << >> /\ roots = {} /\ partial = {} /\ assigned = {}
  /\ tooComplex = FALSE

Match == phase = "match" /\ MatcherSteps /\ UNCHANGED planner

Plan ==
  /\ phase = "match" /\ Idle
  /\ plan' = PlanAppReconcile /\ phase' = "planned"
  /\ UNCHANGED <<existing, live, reserved, freshness, pass, first, before, matcher>>

\* FinishAutoOperation: every restore has succeeded or failed.
Commit ==
  /\ phase = "planned"
  /\ existing' = CommitAppReconcile(plan)
  /\ \E failed \in SUBSET plan.restores :
       LET done == plan.restores \ failed IN
       /\ live' = [j \in DOMAIN live |->
                     IF \E r \in done : r.live = j
                     THEN [live[j] EXCEPT !.desktop = (CHOOSE r \in done : r.live = j).destination]
                     ELSE live[j]]
       /\ first' = IF failed = {} THEN {m.live : m \in plan.matches}
                   ELSE IF \A j \in OfApp : Pages(live[j].look) # {} THEN {r.live : r \in done}
                   ELSE {}
  /\ phase' = "committed"
  /\ UNCHANGED <<reserved, freshness, pass, plan, before, matcher>>

\* The next pass, of the same windows.
Again ==
  /\ phase = "committed" /\ pass = 1
  /\ pass' = 2 /\ phase' = "match" /\ before' = existing
  /\ freshness' \in {"fresh", "stale"}
  /\ Begin(Candidates)
  /\ UNCHANGED <<existing, live, reserved, plan, first>>

Next == Match \/ Plan \/ Commit \/ Again

Spec == Init /\ [][Next]_vars

------------------------------------------------------------------------------
(* Properties.                                                                *)

TypeOK ==
  /\ MatcherTypeOK
  /\ \A i, j \in DOMAIN existing : existing[i].id = existing[j].id => i = j
  /\ phase \in {"match", "planned", "committed"} /\ pass \in {1, 2}

Committed == phase = "committed" /\ ~plan.deferred

RecordOf(id) == {existing[i] : i \in {k \in DOMAIN existing : existing[k].id = id}}

(* The commit checks the plan it is given against the records and keeps the   *)
(* records as they are when it finds a fault: no plan that was made of the    *)
(* same records and windows has one, whatever its adoptions, splits, stale    *)
(* sessions and limits.                                                       *)
PlanFits == phase = "planned" /\ ~plan.deferred => Fits(plan)

(* "Their saved destinations were retained" (FinishAutoOperation): a record   *)
(* keeps its place through a reconcile, whether its window was moved there or *)
(* could not be -- unless a tab was dragged out or windows were merged, when  *)
(* it follows its window --, and no record seen within the retention time is  *)
(* dropped.                                                                   *)
PlacesSurvive ==
  phase = "committed" =>
    \A i \in DOMAIN before :
      \/ IsExpired(before[i])
      \/ i \in plan.missing /\ IsExpired(MarkMissing(before[i]))
      \/ \E r \in RecordOf(before[i].id) :
           IF \E m \in plan.matches : m.saved = i /\ m.recordOnly
           THEN \E m \in plan.matches : m.saved = i /\ r.desktop = live[m.live].desktop
           ELSE r.desktop = before[i].desktop

(* After a reconcile with sessions read now, the records that are not missing *)
(* are the windows: as many as there are windows, and of each look as many as *)
(* show it.  No window has two records or none, and no record stands for a    *)
(* window that is not there.                                                  *)
Present == {i \in DOMAIN existing :
              existing[i].app = App /\ ~Reserved(i) /\ existing[i].missing = Never}

PresentAreWindows ==
  Committed /\ Fresh =>
    \A k \in Looks :
      Cardinality({i \in Present : existing[i].look = k}) =
      Cardinality({j \in OfApp : live[j].look = k})

(* What is planned is what the commit carries out, and the records it leaves  *)
(* are those of the windows.                                                  *)
PlanIsCommitted == TypeOK /\ PlanFits /\ PresentAreWindows

(* The records of moves under way, and those of other browsers, belong to     *)
(* others: a reconcile neither changes nor uses them.                         *)
OthersUntouched ==
  phase = "committed" =>
    \A i \in DOMAIN before :
      /\ before[i].app # App \/ before[i].id \in reserved
      /\ ~IsExpired(before[i])
      => before[i] \in RecordOf(before[i].id)

(* No reconcile loses a place: not of its own records and not of others'.     *)
PlacesAreKept == PlacesSurvive /\ OthersUntouched

(* When every move of a reconcile succeeded, the next one of the same windows *)
(* moves none of those that it matched: what was learned of them makes no     *)
(* record want another one, and equal windows are not exchanged.  When a move *)
(* failed, it is tried again, perhaps with an equal window of the same        *)
(* desktop, and the windows that were moved stay -- if the tabs of all are    *)
(* known: a title alone may exchange two of them.                             *)
NothingMovesTwice ==
  pass = 2 /\ phase = "planned" => \A r \in plan.restores : r.live \notin first

==============================================================================
