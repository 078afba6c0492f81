------------------------------- MODULE RelayMC -------------------------------
(***************************************************************************)
(* Instances of Relay for TLC.  Connections are interchangeable.           *)
(***************************************************************************)
EXTENDS Relay, TLC

Interchangeable == Permutations(Conn)
=============================================================================
