---------------------------- MODULE MCHandshake ----------------------------
(* Two application domains and a network domain with room for two.        *)
EXTENDS Handshake, TLC

MCSymmetry == Permutations(Apps)
=============================================================================
