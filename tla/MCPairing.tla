----------------------------- MODULE MCPairing ----------------------------
(* Two joins at a time, from two addresses; codes and pairings are alike.  *)
EXTENDS Pairing, TLC

CONSTANTS k1, k2
MCHome == (k1 :> "cafe") @@ (k2 :> "far")
MCSymmetry == Permutations(Codes) \cup Permutations(Pairs)
===========================================================================
