------------------------------ MODULE Delivery ------------------------------
(***************************************************************************)
(* What auto-save promises, without counts, batches or backends: the       *)
(* events acknowledged as saved are always all those that the session has  *)
(* to remember up to some place of it.  Once the session is disturbed the  *)
(* promise is off.                                                         *)
(***************************************************************************)
EXTENDS Naturals

VARIABLES
    wanted,      \* the events to remember: [at, id], at being the place in the session
    delivered,   \* the ids of those that were acknowledged
    disturbed    \* runs have overlapped, or the session was made anew

deliveryVars == <<wanted, delivered, disturbed>>

DeliveryInit == wanted = {} /\ delivered = {} /\ disturbed = FALSE

\* The session only grows at its end.
Want ==
    /\ \E e \in wanted' : wanted' = wanted \cup {e} /\ \A w \in wanted : w.at < e.at
    /\ UNCHANGED <<delivered, disturbed>>

\* In order and without gaps.
Deliver ==
    /\ \E part \in SUBSET wanted :
          /\ \A e \in part, w \in wanted : w.at < e.at => w \in part
          /\ delivered' = {e.id : e \in part}
    /\ delivered \subseteq delivered'
    /\ UNCHANGED <<wanted, disturbed>>

Disturb == disturbed' = TRUE

DeliveryNext == Want \/ Deliver \/ Disturb

DeliverySpec == DeliveryInit /\ [][DeliveryNext]_deliveryVars

=============================================================================
