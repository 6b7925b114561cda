---------------------------- MODULE MCAutoLayout ----------------------------
(* AutoLayout for TLC: which records the file has at first, which windows  *)
(* are open.                                                               *)
EXTENDS AutoLayout, TLC

CONSTANTS r1, r2, p, q, w1

OneRecord == r1 :> SeenAt(p, 1)
OneWindow == w1 :> p
=============================================================================
