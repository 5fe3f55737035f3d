------------------------------ MODULE MCCredits ------------------------------
(***************************************************************************)
(* Instances of Credits for TLC.  Grants g1 and g2 have different keys, g3 *)
(* repeats the key of g1; all requests are those of user u1.               *)
(***************************************************************************)
EXTENDS Credits, TLC

CONSTANTS g1, g2, g3, a1, a2, w1, k1, k2, u1

MCSameUser == [r \in Request |-> u1]

\* Grants of different size; an analysis costs one credit.
MCAmountOf == [r \in Request |-> IF r = g2 THEN 2 ELSE 1]

MCKeyOf == [g \in Grant |-> IF g = g2 THEN k2 ELSE k1]

=============================================================================
