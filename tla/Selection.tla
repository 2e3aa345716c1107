------------------------------ MODULE Selection ------------------------------
(* The filter of a list, by the positions it leaves in.                    *)
EXTENDS Naturals, FiniteSets

\* The n-th of the positions I.
Position(I, n) == CHOOSE i \in I : Cardinality({j \in I : j <= i}) = n

\* The entries of s at the positions I, in the order of s.
Kept(s, I) == [n \in 1 .. Cardinality(I) |-> s[Position(I, n)]]
=============================================================================
