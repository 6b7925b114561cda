---------------------------- MODULE MoveContract ----------------------------
(***************************************************************************)
(* What the move engine promises about moving windows, without its queue,  *)
(* operations, timers and failures.  Every window has at most one holder:  *)
(* a job or the picker.  A job moves a window only while it holds it and   *)
(* only while nobody else's move is unread, and whoever displaces a job    *)
(* takes from it, in one step, the window and the right to move it.  The   *)
(* picker is never displaced, and takes over a job only before its move.   *)
(***************************************************************************)
CONSTANTS Windows, Jobs, NoGuard, Picker

VARIABLES
    holder,    \* who holds each window
    wanted,    \* jobs that may still move their window
    flight     \* the job whose move is issued and not read back, if any

contractVars == <<holder, wanted, flight>>

ContractInit ==
    /\ holder = [w \in Windows |-> NoGuard]
    /\ wanted = {} /\ flight = {}

Holds(j) == \E w \in Windows : holder[w] = j

\* A new job takes a window that is free or held by another job.
Claim(w, j) ==
    LET displaced == {holder[w]} \cap Jobs
    IN /\ holder[w] # Picker
       /\ ~Holds(j) /\ j \notin wanted \cup flight
       /\ holder' = [holder EXCEPT ![w] = j]
       /\ wanted' = (wanted \ displaced) \cup {j}
       /\ flight' \in {flight, flight \ displaced}

\* The picker takes a window that is free or whose move is not issued.
PickerTakes(w) ==
    /\ holder[w] # Picker /\ holder[w] \notin flight
    /\ holder' = [holder EXCEPT ![w] = Picker]
    /\ wanted' = wanted \ {holder[w]}
    /\ UNCHANGED flight

PickerReleases(w) ==
    /\ holder[w] = Picker
    /\ holder' = [holder EXCEPT ![w] = NoGuard]
    /\ UNCHANGED <<wanted, flight>>

Issue(j) ==
    /\ j \in wanted /\ Holds(j) /\ flight = {}
    /\ flight' = {j}
    /\ UNCHANGED <<holder, wanted>>

\* The move did not arrive: the job may try again.
ReadBack ==
    /\ flight' = {}
    /\ UNCHANGED <<holder, wanted>>

\* Jobs end, others are cancelled and wait for it, and windows are given up
\* whose holder neither wants to move them nor has an unread move.
Settle(ended, withdrawn, released) ==
    /\ wanted' = wanted \ (ended \cup withdrawn)
    /\ flight' = flight \ ended
    /\ \A w \in released : holder[w] \in Jobs \ (wanted' \cup flight')
    /\ holder' = [w \in Windows |->
                    IF w \in released THEN NoGuard ELSE holder[w]]

ContractNext ==
    \/ \E w \in Windows : \/ \E j \in Jobs : Claim(w, j)
                          \/ PickerTakes(w) \/ PickerReleases(w)
    \/ \E j \in wanted : Issue(j)
    \/ ReadBack
    \/ \E ended, withdrawn \in SUBSET Jobs : \E released \in SUBSET Windows :
            Settle(ended, withdrawn, released)

ContractSpec == ContractInit /\ [][ContractNext]_contractVars
=============================================================================
