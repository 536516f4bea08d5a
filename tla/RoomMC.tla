------------------------------- MODULE RoomMC -------------------------------
(* Room for TLC: model values for rows, sockets and threads. *)
EXTENDS Room, TLC

CONSTANTS h1, g1, c1, c2, c3, t1, t2

SocketSymmetry == Permutations({c1, c2, c3})
=============================================================================
