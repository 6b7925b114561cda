---------------------------- MODULE MCMoveEngine ----------------------------
(***************************************************************************)
(* Model-checking instances of MoveEngine: which window and which          *)
(* automatic restore belongs to which application, and the symmetry of the *)
(* safety runs.                                                            *)
(***************************************************************************)
EXTENDS MoveEngine, TLC

CONSTANT a1

\* Every window and every automatic restore belongs to one application.
OneApp == [x \in Windows \cup AutoOps |-> a1]

\* Windows of one application, and restores of one kind, are interchangeable.
Interchangeable ==
    Permutations(Windows) \cup Permutations(AutoOps) \cup Permutations(ManualOps)
=============================================================================
