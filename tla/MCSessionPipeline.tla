------------------------- MODULE MCSessionPipeline -------------------------
(***************************************************************************)
(* Model-checking instances of SessionPipeline: the operations of each run *)
(* and the applications they ask for.                                      *)
(***************************************************************************)
EXTENDS SessionPipeline

CONSTANTS a1, a2, save1, save2, restore1, auto1, search1, probe1

Order == SelectSeq(<<a1, a2>>, LAMBDA a : a \in Apps)

Kinds1 ==
    [o \in OpIds |-> CASE o \in {save1, save2} -> "save"
                       [] o = restore1 -> "restore" [] o = auto1 -> "auto"
                       [] o = search1 -> "search" [] OTHER -> "probe"]

\* Manual operations and searches ask for every application with windows; the
\* second one has none yet when the first save begins.
Asked ==
    [o \in OpIds |-> IF Kinds1[o] \in {"auto", "probe"} \/ o = save1 THEN {a1}
                     ELSE Apps]
=============================================================================
