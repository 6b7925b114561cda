--------------------------- MODULE PickerContract ---------------------------
(***************************************************************************)
(* What a picker transition promises the user and the layout, without its  *)
(* calls, readings, retries and messages.  It is open until it is decided: *)
(* then it is kept or undone.  Only a kept one may be saved, and only one  *)
(* that was not saved may still be undone.                                 *)
(***************************************************************************)
VARIABLES stage, saved

contractVars == <<stage, saved>>

ContractInit == stage = "idle" /\ saved = FALSE

Request == stage = "idle" /\ stage' = "open" /\ saved' = FALSE

Keep == stage = "open" /\ stage' = "kept" /\ UNCHANGED saved

Save == stage = "kept" /\ saved' = TRUE /\ UNCHANGED stage

Undo == stage = "open" /\ stage' = "undone" /\ UNCHANGED saved

\* Saving failed, or the user takes back what nobody saved.
Withdraw == stage = "kept" /\ ~saved /\ stage' = "undone" /\ UNCHANGED saved

End == stage \in {"kept", "undone"} /\ stage' = "idle" /\ UNCHANGED saved

ContractNext == Request \/ Keep \/ Save \/ Undo \/ Withdraw \/ End

Spec == ContractInit /\ [][ContractNext]_contractVars
=============================================================================
