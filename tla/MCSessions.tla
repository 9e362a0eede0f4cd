----------------------------- MODULE MCSessions -----------------------------
(* Two codes, two devices and three pairs of tokens, two workers.          *)
EXTENDS Sessions, TLC

Symmetry == Permutations(Workers) \cup Permutations(Devices)
=============================================================================
