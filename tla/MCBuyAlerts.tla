---------------------------- MODULE MCBuyAlerts ----------------------------
(* Small instances of BuyAlerts. *)
EXTENDS BuyAlerts, TLC

\* A calendar on which every instant is a day of its own.
DailyCalendar == [t \in Times |-> 1 + t]

\* Job slots are interchangeable.
SlotSymmetry == Permutations(Slots)
=============================================================================
