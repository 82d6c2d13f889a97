--------------------------- MODULE MCPropertyStore ---------------------------
(* Two stores and two values are interchangeable in what is checked.        *)
EXTENDS PropertyStore, TLC

CONSTANTS st1, st2, v1, v2

MCStores == {st1, st2}
MCValues == {v1, v2}
Symmetry == Permutations(MCStores) \union Permutations(MCValues)
=============================================================================
