----------------------------- MODULE Reservation -----------------------------
(***************************************************************************)
(* What admission promises, without files, locks, replies or processes:    *)
(* a reservation of a node and slot is taken before any work may begin     *)
(* for an identity, is given back once, only when that work has ended, and *)
(* no identity is ever reserved again.                                     *)
(***************************************************************************)
EXTENDS Naturals, FiniteSets

CONSTANTS Jobs, NodeOf, Budget

VARIABLES
  stage,     \* "free", "held" or "released", per identity
  working    \* identities with work that runs or may still start

rvars == <<stage, working>>

Held == {j \in Jobs : stage[j] = "held"}

Init ==
  /\ stage = [j \in Jobs |-> "free"]
  /\ working = {}

Reserve(j) ==
  /\ stage[j] = "free"
  /\ Cardinality(Held) < Budget
  /\ \A k \in Held : NodeOf[k] # NodeOf[j]
  /\ stage' = [stage EXCEPT ![j] = "held"]
  /\ UNCHANGED working

Begin(j) ==
  /\ stage[j] = "held"
  /\ working' = working \cup {j}
  /\ UNCHANGED stage

End(j) ==
  /\ working' = working \ {j}
  /\ UNCHANGED stage

Release(j) ==
  /\ stage[j] = "held" /\ j \notin working
  /\ stage' = [stage EXCEPT ![j] = "released"]
  /\ UNCHANGED working

Next == \E j \in Jobs : Reserve(j) \/ Begin(j) \/ End(j) \/ Release(j)

Spec == Init /\ [][Next]_rvars
==============================================================================
