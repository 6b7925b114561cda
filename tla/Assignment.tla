------------------------------ MODULE Assignment ------------------------------
(* AssignOneToOne (layout.hpp): which window is which record.  The candidates *)
(* fall into components; in each the size of the largest assignment is found  *)
(* first, then an assignment of that size is built by augmenting along the    *)
(* cheapest path of the residual graph.  The search for a path (a breadth     *)
(* first one, a queue of relaxations) is one step that picks any path such a  *)
(* search may end with.                                                       *)
EXTENDS Integers, FiniteSets, FiniteSetsExt, Sequences, SequencesExt

CONSTANTS
  MaxCandidates,  \* MAX_MATCH_CANDIDATES
  MaxFlowWork     \* MAX_MATCH_FLOW_WORK

VARIABLES
  candidates,     \* the pairs that score enough: [saved, live, score, inPlace]
  stage,          \* what the matcher does: "group", "measure", "flow" or "done"
  todo,           \* the components that are left, with the sizes found
  roots,          \* "measure": the saved nodes that were not tried yet
  partial,        \* the assignment of the first component, as far as it is built
  assigned,       \* the assignments of the components that are solved
  tooComplex      \* the matcher gave up

matcher == <<candidates, stage, todo, roots, partial, assigned, tooComplex>>

------------------------------------------------------------------------------
(* Assignments.                                                               *)

IsOneToOne(M) ==
  \A e, f \in M : e # f => e.saved # f.saved /\ e.live # f.live

\* The place of a candidate among all of them, in the order of their indices.
Order(e) ==
  Cardinality({f \in candidates : \/ f.saved < e.saved
                                  \/ f.saved = e.saved /\ f.live <= e.live})

\* MATCH_IN_PLACE_TIE_WEIGHT: more than any sum of places.
TieWeight == 1000

Tie(e) == Order(e) + IF e.inPlace THEN 0 ELSE TieWeight

ScoreOf(M) == MapThenSumSet(LAMBDA e : e.score, M)

TieOf(M) == MapThenSumSet(Tie, M)

\* Mutant: which of the equal assignments moves less does not count.
ScoreOnly(M, N) == ScoreOf(M) > ScoreOf(N)

\* CostLess: a better score, or the same one and a smaller sum of ties.
Cheaper(M, N) ==
  \/ ScoreOf(M) > ScoreOf(N)
  \/ ScoreOf(M) = ScoreOf(N) /\ TieOf(M) < TieOf(N)

\* The assignments of the candidates E, saved node by saved node.
Assignments(E) ==
  LET nodes == SetToSeq({e.saved : e \in E})
      upTo[n \in 0..Len(nodes)] ==
        IF n = 0 THEN {{}}
        ELSE upTo[n - 1] \cup
             {M \cup {e} : M \in upTo[n - 1], e \in {x \in E : x.saved = nodes[n]}}
  IN {M \in upTo[Len(nodes)] : IsOneToOne(M)}

------------------------------------------------------------------------------
(* Components and paths.                                                      *)

\* The candidates that share a node with e, and so on.
Component(e) ==
  LET near[n \in 0..Cardinality(candidates)] ==
        IF n = 0 THEN {e}
        ELSE LET nearer == near[n - 1] IN
             {f \in candidates : \E g \in nearer : f.saved = g.saved \/ f.live = g.live}
  IN near[Cardinality(candidates)]

Components == {Component(e) : e \in candidates}

\* The alternating paths of E from the saved nodes S, none of which M assigns,
\* to a live node that M does not assign.
AugmentingPaths(E, M, S) ==
  LET starts == {[edges |-> {e}, end |-> e.live] : e \in {x \in E : x.saved \in S}}
      Longer(paths) ==
        UNION {{[edges |-> p.edges \cup {f, g}, end |-> g.live] :
                  g \in {x \in E \ (M \cup p.edges) :
                          x.saved = f.saved /\ \A h \in p.edges : h.live # x.live}} :
               <<p, f>> \in {q \in paths \X M : q[2].live = q[1].end}}
      grown[n \in 0..Cardinality(M)] == IF n = 0 THEN starts ELSE Longer(grown[n - 1])
      paths == UNION {grown[n] : n \in 0..Cardinality(M)}
  IN {p.edges : p \in {q \in paths : \A f \in M : f.live # q.end}}

\* The assignment after the flow along a path.
Toggle(M, path) == (M \ path) \cup (path \ M)

Unassigned(E, M) == {e.saved : e \in E} \ {e.saved : e \in M}

------------------------------------------------------------------------------
(* The matcher.                                                               *)

Idle == stage = "done"

Begin(pairs) ==
  /\ candidates' = pairs
  /\ stage' = "group"
  /\ todo' = << >> /\ roots' = {} /\ partial' = {} /\ assigned' = {} /\ tooComplex' = FALSE

GiveUp ==
  /\ stage' = "done" /\ tooComplex' = TRUE
  /\ todo' = << >> /\ roots' = {} /\ partial' = {} /\ assigned' = {}
  /\ UNCHANGED candidates

\* The components, once the number of candidates is accepted.
Group ==
  /\ stage = "group"
  /\ IF Cardinality(candidates) > MaxCandidates THEN GiveUp
     ELSE LET parts == SetToSeq(Components) IN
          /\ todo' = [i \in DOMAIN parts |-> [edges |-> parts[i], size |-> 0]]
          /\ IF parts = << >> THEN stage' = "done" /\ roots' = {}
             ELSE stage' = "measure" /\ roots' = {e.saved : e \in parts[1]}
          /\ UNCHANGED <<candidates, partial, assigned, tooComplex>>

\* What is to be measured after the component i.
MeasureNext(parts, i) ==
  IF i = Len(parts)
  THEN /\ stage' = "flow" /\ roots' = {} /\ partial' = {} /\ todo' = parts
       /\ UNCHANGED <<candidates, assigned, tooComplex>>
  ELSE /\ roots' = {e.saved : e \in parts[i + 1].edges} /\ partial' = {} /\ todo' = parts
       /\ UNCHANGED <<candidates, stage, assigned, tooComplex>>

\* The component that is measured: the first without a size.
Measured == CHOOSE i \in DOMAIN todo :
              todo[i].size = 0 /\ \A j \in 1..(i - 1) : todo[j].size > 0

\* MaximumCardinality, one root.
Grow(E, root) ==
  LET paths == AugmentingPaths(E, partial, {root}) IN
  IF paths = {} THEN UNCHANGED partial ELSE \E p \in paths : partial' = Toggle(partial, p)

Measure ==
  /\ stage = "measure" /\ roots # {}
  /\ LET root == CHOOSE s \in roots : \A r \in roots : s <= r IN
     /\ Grow(todo[Measured].edges, root)
     /\ roots' = roots \ {root}
  /\ UNCHANGED <<candidates, stage, todo, assigned, tooComplex>>

\* The size of a component is known; too much work for the flow is refused.
Sized ==
  /\ stage = "measure" /\ roots = {}
  /\ LET i == Measured
         size == Cardinality(partial) IN
     IF size = 0 \/ size > MaxFlowWork \div Cardinality(todo[i].edges) THEN GiveUp
     ELSE MeasureNext([todo EXCEPT ![i].size = size], i)

\* SolveFlowComponent, one unit of flow: along a cheapest path.
Augment ==
  /\ stage = "flow" /\ todo # << >> /\ Cardinality(partial) < todo[1].size
  /\ LET E == todo[1].edges
         after == {Toggle(partial, p) : p \in AugmentingPaths(E, partial, Unassigned(E, partial))} IN
     IF after = {} THEN GiveUp
     ELSE /\ partial' \in {M \in after : \A N \in after : ~Cheaper(N, M)}
          /\ UNCHANGED <<candidates, stage, todo, roots, assigned, tooComplex>>

\* The component is solved.
Solved ==
  /\ stage = "flow" /\ todo # << >> /\ Cardinality(partial) = todo[1].size
  /\ assigned' = assigned \cup partial
  /\ todo' = Tail(todo) /\ partial' = {}
  /\ UNCHANGED <<candidates, stage, roots, tooComplex>>

Return ==
  /\ stage = "flow" /\ todo = << >>
  /\ stage' = "done"
  /\ UNCHANGED <<candidates, todo, roots, partial, assigned, tooComplex>>

MatcherSteps == Group \/ Measure \/ Sized \/ Augment \/ Solved \/ Return

------------------------------------------------------------------------------
(* What the matcher promises.                                                 *)

MatcherTypeOK ==
  /\ stage \in {"group", "measure", "flow", "done"}
  /\ IsOneToOne(partial) /\ partial \subseteq candidates
  /\ assigned \subseteq candidates /\ tooComplex \in BOOLEAN

\* The windows an assignment moves.
Moves(M) == Cardinality({e \in M : ~e.inPlace})

Better(M, N) ==
  \/ Cardinality(M) > Cardinality(N)
  \/ /\ Cardinality(M) = Cardinality(N)
     /\ ScoreOf(M) > ScoreOf(N) \/ (ScoreOf(M) = ScoreOf(N) /\ Moves(M) < Moves(N))

(* Whatever order the components, the roots and the equal paths are taken in: *)
(* the assignment is one to one, no larger one exists, none of its size       *)
(* scores higher, and "among equal-scoring assignments the one that moves     *)
(* nothing wins" (layout.hpp).                                                *)
AssignmentIsBest ==
  stage = "done" /\ ~tooComplex =>
    /\ assigned \in Assignments(candidates)
    /\ \A M \in Assignments(candidates) : ~Better(M, assigned)

==============================================================================
