--------------------------- MODULE MCGossipPresence ---------------------------
(* One node with its connections, which may close or crash, and one that   *)
(* follows it: slices are independent of each other, and so are replicas.  *)
EXTENDS GossipPresence

CONSTANTS n1, n2

MCHome == [c \in Conns |-> n1]
=============================================================================
