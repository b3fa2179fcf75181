------------------------------- MODULE Units -------------------------------
(***************************************************************************)
(* The sum of a function to the naturals, as the number of units it counts *)
(* out: f[x] of them for each x.                                           *)
(***************************************************************************)
EXTENDS Naturals, FiniteSets

Units(f) == UNION {{x} \X (1 .. f[x]) : x \in DOMAIN f}
Total(f) == Cardinality(Units(f))

=============================================================================
