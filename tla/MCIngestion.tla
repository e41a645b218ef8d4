---------------------------- MODULE MCIngestion ----------------------------
(* Small instances of Ingestion. *)
EXTENDS Ingestion, TLC

\* World quotes go stale first, as in the code (30 minutes against 60).
Ages == [f \in Judged |-> IF f = "world" THEN 0 ELSE 1]

\* Rates may change by 3 per cent, prices by 5.
Jumps == [f \in Judged |-> IF f = "fx" THEN 3 ELSE 5]

\* Pipeline runs are interchangeable, and so are the providers of the world price.
Symmetries == Permutations(Runs) \cup Permutations(WorldSources)
=============================================================================
