------------------------------ MODULE MCTools ------------------------------
(* Tools on a small instance. *)
EXTENDS Tools, TLC

CONSTANTS i1, i2, c1, c2

TwoImages == {i1, i2}
TwoCalls == {c1, c2}

At(month, day, minute) == [month |-> month, day |-> day, minute |-> minute]
\* Two minutes of one day: the second is refused by the limit of the day.
TwoInstants == {At(1, 1, 1), At(1, 1, 2)}
SmallLimits == [month |-> 2, day |-> 1, minute |-> 1]
=============================================================================
