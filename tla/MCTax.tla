------------------------------- MODULE MCTax -------------------------------
EXTENDS TaxQueue, TLC
CONSTANTS s1, n1, w1, w2
MCOriginal == [d \in {n1} |-> s1]
MCSymmetry == Permutations({w1, w2})

\* Bound: the panel rebuilds a note only when a packet, its own or the invoice's, is empty.
RebuildsShells == (\E d \in Notes : rebuild'[d] # "no") => unsound' # {}

MCTaxSpec == TaxInit /\ [][TaxNext /\ RebuildsShells]_taxVars
=============================================================================
