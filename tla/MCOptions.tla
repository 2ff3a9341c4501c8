---------------------------------- MODULE MCOptions ----------------------------------
(* An instance of Options for TLC: a year of twelve months, and durations around the *)
(* defaults, their thirds and zero.                                                  *)
EXTENDS Options

Months == {-1, 0, 1, 2, 3, 4, 11, 12, 13}
====
