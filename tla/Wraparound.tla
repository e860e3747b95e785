----------------------------- MODULE Wraparound -----------------------------
(***************************************************************************)
(* Numbers that start over at zero.  cobalt counts packets modulo          *)
(* MAX_SEQ_NUMBER and ordered messages modulo MAX_ORDER_ID, advances both  *)
(* with the same three lines and compares both with the same formula; the  *)
(* maximum is a parameter here.                                            *)
(***************************************************************************)
EXTENDS Naturals

\* x += 1; if x == max { x = 0 }
Successor(x, max) == IF x + 1 = max THEN 0 ELSE x + 1

\* Mutant: the comparison forgets that numbers start over.
MoreRecentNoWrap(a, b, max) == a > b

\* a is ahead of b by at most half of the number space.
MoreRecent(a, b, max) ==
    \/ a > b /\ a - b <= max \div 2
    \/ b > a /\ b - a > max \div 2
=============================================================================
