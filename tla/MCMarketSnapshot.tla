-------------------------- MODULE MCMarketSnapshot --------------------------
(* Small instances of MarketSnapshot. *)
EXTENDS MarketSnapshot, TLC

\* Pipeline runs are interchangeable.
WorkerSymmetry == Permutations(Workers)
=============================================================================
