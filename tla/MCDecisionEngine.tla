-------------------------- MODULE MCDecisionEngine --------------------------
(* A small instance of DecisionEngine: figures on both sides of every threshold. *)
EXTENDS DecisionEngine

\* Below the floor of BUY_DCA, and above every threshold of a momentum.
ChosenMomenta == {-801, 251}

\* On both sides of every threshold of a spread.
ChosenSpreads == {150, 250, 300, 330, 350, 400}
=============================================================================
