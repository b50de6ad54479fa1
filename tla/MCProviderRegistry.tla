------------------------- MODULE MCProviderRegistry -------------------------
(* ProviderRegistry.tla for TLC: the requests are interchangeable. *)
EXTENDS ProviderRegistry, TLC

Symmetry == Permutations(Callers)
=============================================================================
