-------------------------------- MODULE Loops --------------------------------
(***************************************************************************)
(* The loops of JsonUtility.hpp and JsonReader.hpp.  A step is an operator *)
(* from a record to a record whose ok says whether there is to be another. *)
(***************************************************************************)
EXTENDS Integers

\* while(step(...)); at most bound iterations, a number no loop of the code
\* reaches: each iteration of most consumes a character or is the last.  It is
\* done in rounds of eight, for the sake of TLC's stack.
Repeat(step(_), start, bound) ==
  LET after[n \in 0 .. bound] ==
        IF n = 0 THEN start
        ELSE LET acc == after[n - 1] IN IF acc.ok THEN step(acc) ELSE acc
  IN  after[bound]

WhileOk(step(_), start, bound) ==
  Repeat(LAMBDA acc : Repeat(step, acc, 8), start, bound \div 8 + 1)
=============================================================================
