---------------------------- MODULE RunEvidence ----------------------------
(***************************************************************************)
(* What a run promises about its evidence, whatever happens in its pod:    *)
(* one outcome is concluded and never changes; only a finished outcome is  *)
(* recorded, only for passing tests and the status rows last; one receipt  *)
(* is published, true of the databases, and nothing is recorded after it.  *)
(***************************************************************************)
EXTENDS Naturals

CONSTANTS Enabled, Stores, Owner, Validation, None

VARIABLES outcome, stored, receipt
vars == <<outcome, stored, receipt>>

RawRequired(f) == {s \in Stores : Owner[s] \in Enabled /\ f[Owner[s]] = "pass"}
Required(f) == RawRequired(f) \cup {Validation}

Init == outcome = None /\ stored = {} /\ receipt = None

Conclude(f) ==
  /\ outcome = None /\ receipt = None
  /\ outcome' = f
  /\ UNCHANGED <<stored, receipt>>

Commit(s) ==
  /\ outcome # None /\ receipt = None
  /\ \A t \in Enabled : outcome[t] \in {"pass", "fail"}
  /\ s \in Required(outcome) \ stored
  /\ s = Validation => RawRequired(outcome) \subseteq stored
  /\ stored' = stored \cup {s}
  /\ UNCHANGED <<outcome, receipt>>

Truthful(r) ==
  /\ r.tests = outcome
  /\ r.ingestion = "pass" => stored = Required(outcome)
  /\ r.ingestion = "not_started" => stored = {}
  /\ r.exit = 0 => r.ingestion = "pass" /\ r.logs = "retained"
  /\ r.stores # None =>
       \A s \in Stores \cup {Validation} :
         /\ r.stores[s] = "committed" => s \in stored
         /\ r.stores[s] \in {"pending", "not_required"} => s \notin stored

TestStates == {"pending", "setup", "running", "pass", "fail", "incomplete"}
Receipts ==
  [tests : [Enabled -> TestStates], exit : 0..1, logs : {"retained", "unconfirmed"},
   ingestion : {"not_started", "unconfirmed", "pass", "fail"},
   stores : [Stores \cup {Validation} -> {"pending", "not_required", "committed", "unconfirmed"}]
              \cup {None}]

Publish ==
  /\ outcome # None /\ receipt = None
  /\ receipt' \in Receipts /\ Truthful(receipt')
  /\ UNCHANGED <<outcome, stored>>

Next ==
  \/ \E f \in [Enabled -> TestStates] : Conclude(f)
  \/ \E s \in Stores \cup {Validation} : Commit(s)
  \/ Publish

Spec == Init /\ [][Next]_vars
=============================================================================
