-------------------------- MODULE MCEnsureAccounts --------------------------
(* Model checking of EnsureAccounts.                                       *)
EXTENDS EnsureAccounts, TLC

CONSTANTS Alice, Bob

TwoPayers == {Alice, Bob}
Symmetry == Permutations(TwoPayers)
=============================================================================
