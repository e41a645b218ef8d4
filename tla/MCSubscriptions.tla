--------------------------- MODULE MCSubscriptions ---------------------------
(* Small instances of Subscriptions. *)
EXTENDS Subscriptions, TLC

\* Calls of subscribe are interchangeable, and so are alert mails.
PartySymmetry == Permutations(Requests) \cup Permutations(Senders)
=============================================================================
