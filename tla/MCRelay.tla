------------------------------- MODULE MCRelay -------------------------------
(***************************************************************************)
(* Connections, rooms and clients are interchangeable: the relay only      *)
(* compares them.                                                          *)
(***************************************************************************)
EXTENDS Relay, TLC

Symmetry == Permutations(Connection) \union Permutations(RoomID) \union Permutations(ClientID)

=============================================================================
