------------------------------ MODULE MCIRoom -----------------------------
(* Cameras and bounds for model checking IRoom. *)
EXTENDS IRoom

CONSTANT MaxRequests    \* bound

\* Cameras whose names do not occur in each other.
MCExactly(k) == {k}

\* Each camera has a log of its own.
MCOwnLog(k) == k

(***************************************************************************)
(* Gets and cameras can be exchanged: one get, of a livelimit of a second, *)
(* names the first camera, and another asks for it or for the second       *)
(* camera, for two seconds.  The stop request is for the first camera.     *)
(* MaxRequests of the three come: any two gets, or a get and the stop.     *)
(***************************************************************************)
First == CHOOSE g \in Gets : TRUE

MCInit ==
    /\ Init
    /\ limit = [g \in Gets |-> IF g = First THEN 1 ELSE 2]
    /\ cam[First] = "cam1"
    /\ \A s \in Stops : cam[s] = "cam1"

Come == {q \in Requests : http[q] # "none"}
MCNext == Next /\ Cardinality(Come') <= MaxRequests

MCSpec == MCInit /\ [][MCNext]_vars /\ Fairness
=============================================================================
