-------------------------------- MODULE Sums --------------------------------
(***************************************************************************)
(* Sums of amounts, as the queries' SUM over the rows they select.  The    *)
(* amounts are counted unit by unit, which says what a fold computes       *)
(* without recursion, so that proofs can reason about it.                  *)
(***************************************************************************)
EXTENDS Integers, FiniteSets

\* The units that f counts out: f[x] of them for x, none when f[x] <= 0.
Units(f) == UNION {{x} \X (1..f[x]) : x \in DOMAIN f}

\* The sum of f's values: what is counted in, less what is counted out.
SumOf(f) == Cardinality(Units(f)) - Cardinality(Units([x \in DOMAIN f |-> -f[x]]))
=============================================================================
