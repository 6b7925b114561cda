---------------------------- MODULE MCPickerMove ----------------------------
EXTENDS PickerMove, FiniteSets

CONSTANTS a, b

Steps(n) ==
  {s \in [{"calls", "losses", "others", "quits"} -> 0..n] :
     s["calls"] + s["losses"] + s["others"] + s["quits"] = n}
Bound(s) == [moves |-> 1, cancels |-> 1, calls |-> s["calls"],
             losses |-> s["losses"], others |-> s["others"], quits |-> s["quits"]]

\* One cancellation and any one of the other disturbances; two failures of the
\* machine and no cancellation; or two transitions, one after the other, that
\* the user may cancel.
Disturbed ==
  {Bound(s) : s \in Steps(1)}
    \cup {[Bound(s) EXCEPT !.cancels = 0] :
             s \in {n \in Steps(2) : n["calls"] + n["losses"] = 2}}
    \cup {[Bound(s) EXCEPT !.moves = 2] : s \in Steps(0)}

AllModes == Mode
=============================================================================
