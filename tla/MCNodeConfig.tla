---------------------------- MODULE MCNodeConfig ----------------------------
(***************************************************************************)
(* Small instances of NodeConfig for TLC.                                  *)
(***************************************************************************)
EXTENDS NodeConfig, TLC

(* Two clients' settings are enough to tell a new configuration, the one   *)
(* before and the built-in ones apart; what they are does not matter.      *)
Interchangeable == Permutations(Version)

=============================================================================
