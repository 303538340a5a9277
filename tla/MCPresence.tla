----------------------------- MODULE MCPresence -----------------------------
(* Two connections of one node, which beats; nodes share nothing but the   *)
(* index sets, to which each adds and from which each removes its own.     *)
(* The first connection moves in and out of a room while the other comes   *)
(* and goes.                                                               *)
EXTENDS Presence, TLC

CONSTANTS n1, c1, c2

MCNodeOf == c1 :> n1 @@ c2 :> n1
MCMoves == c1 :> 2 @@ c2 :> 0
=============================================================================
