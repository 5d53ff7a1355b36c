---------------------------- MODULE MCAdmission ----------------------------
(* Small instances of Admission: j1 and j2 are two run identities of node n1. *)
EXTENDS AdmissionReservation

MCNodeOf == [j \in Jobs |-> CASE j \in {"j1", "j2"} -> "n1"
                             [] j = "j3" -> "n2"
                             [] OTHER -> "n3"]
=============================================================================
