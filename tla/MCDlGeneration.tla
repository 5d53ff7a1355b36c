--------------------------- MODULE MCDlGeneration ---------------------------
(* Small instances of DlGeneration. *)
EXTENDS DlGeneration

\* A bound of the exploration: a second rebuild starts only where no verification has, and a
\* verification only where no second rebuild has.  Both meet the first rebuild and all ingestions.
\* No step of an ingestion leads out of the bound, so its fairness means what it says.
SecondRebuildOrReader == reader.phase = "idle" \/ pc["m2"] = "idle"
=============================================================================
