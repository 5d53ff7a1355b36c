------------------------- MODULE AdmissionReservation -------------------------
(***************************************************************************)
(* The durable intents as an implementation of Reservation: an identity is *)
(* held while its intent is unfinished, and working while anything the     *)
(* package did for it can still run (Outstanding).                         *)
(***************************************************************************)
EXTENDS AdmissionInvariant

stage == [j \in Jobs |-> IF ~Exists(j) THEN "free"
                         ELSE IF Unfinished(j) THEN "held" ELSE "released"]

R == INSTANCE Reservation WITH working <- {j \in Jobs : Outstanding(j)}

\* Every step of the submitters, the helper, the cluster and the faults is one step
\* of the abstract reservation protocol, or invisible to it.
ImplementsReservation == R!Spec
==============================================================================
