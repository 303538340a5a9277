------------------------- MODULE MCChannelRegistry -------------------------
(* One shared topic.  Two connections and a bus handler on n1, so that     *)
(* "last member leaves" and "first member joins" of the two registries can *)
(* race; n2 publishes from afar, and n1 from among its own members.        *)
EXTENDS ChannelRegistry

CONSTANTS n1, n2, c1, c2, h1, topic

MCNodes == {n1, n2}
MCConns == {c1, c2}
MCHandlers == {h1}
MCNodeOf == [l \in {c1, c2, h1} |-> n1]
MCChannels == {topic}
=============================================================================
