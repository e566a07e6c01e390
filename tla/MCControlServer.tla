--------------------------- MODULE MCControlServer ---------------------------
(***************************************************************************)
(* Small instances of ControlServer for TLC.                               *)
(***************************************************************************)
EXTENDS ControlServer, TLC

(* Requests and positions are interchangeable.                             *)
Symmetry == Permutations(Task) \cup Permutations(Target)

=============================================================================
