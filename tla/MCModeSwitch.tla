---------------------------- MODULE MCModeSwitch ----------------------------
(* Two application domains and a dom0 table with room for one.            *)
EXTENDS ModeSwitch, TLC
=============================================================================
