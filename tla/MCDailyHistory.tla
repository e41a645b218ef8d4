--------------------------- MODULE MCDailyHistory ---------------------------
(* A small instance of DailyHistory: days of two ticks, of which the first is noon. *)
EXTENDS DailyHistory

At(buy, sell, world) == [buy |-> buy, sell |-> sell, world |-> world]

\* A market that falls in the end, while its premium rises, falls and rises again.
SmallCourse ==
    [t \in Times |->
        <<At(90, 100, 98), At(100, 100, 95), At(90, 99, 97), At(95, 96, 93),
          At(93, 93, 91), At(91, 95, 90), At(80, 90, 88)>>[t + 1]]

SmallBackfilled == At(96, 97, 93)

\* Falls below, at and beyond levels of the plan, with spreads of two sizes.
SmallHypothetical ==
    {[buy |-> 100, sell |-> 100, premium |-> 2], [buy |-> 84, sell |-> 84, premium |-> 2], [buy |-> 93, sell |-> 93, premium |-> 2],
     [buy |-> 90, sell |-> 100, premium |-> 5], [buy |-> 81, sell |-> 90, premium |-> 5],
     [buy |-> 93, sell |-> 93, premium |-> 5]}
=============================================================================
