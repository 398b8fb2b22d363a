---------------------------- MODULE OddEvenTurns ----------------------------
(***************************************************************************)
(* What task 5 a) of README.md asks for: two threads count together, one   *)
(* of them prints only the odd numbers and the other one only the even     *)
(* numbers, so the output is 1, 2, 3, ... by turns, and never past AtMost. *)
(***************************************************************************)
EXTENDS Naturals, Sequences

CONSTANT AtMost

VARIABLE out   \* the lines printed: <<who, number>>

Who(k) == IF k % 2 = 1 THEN "odd" ELSE "even"

TurnsInit == out = << >>

PrintNext ==
    /\ Len(out) < AtMost
    /\ LET k == Len(out) + 1 IN out' = Append(out, <<Who(k), k>>)

TurnsSpec == TurnsInit /\ [][PrintNext]_out

=============================================================================
