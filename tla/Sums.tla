-------------------------------- MODULE Sums --------------------------------
(***************************************************************************)
(* SELECT SUM(quantity): the sum of a quantity over the rows of a set,     *)
(* counted unit by unit.  No quantity that is summed is negative.          *)
(***************************************************************************)
EXTENDS Integers, FiniteSets

\* the units of the rows in S, numbered from 1 in each row
Units(f, S) == UNION {{x} \X (1 .. f[x]) : x \in S}

Total(f, S)      == Cardinality(Units(f, S))
SumOver(f(_), S) == Total([x \in S |-> f(x)], S)

=============================================================================
