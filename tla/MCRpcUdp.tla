------------------------------ MODULE MCRpcUdp ------------------------------
\* RpcUdp with two client handles.
EXTENDS RpcUdp, TLC

CONSTANTS c1, c2

\* Transaction ids that never meet, 1 against 5 and 0, where 1 and 5 fall into
\* one chain of a cache of size 1 and the second handle wraps around.
DistinctXids == c1 :> 0 @@ c2 :> 4

\* The first handle retransmits once; the second waits once or not at all.
HandleTimeouts == c1 :> {2} @@ c2 :> {0, 1}

\* Two handles that drew the same transaction id.
EqualXids == c1 :> 0 @@ c2 :> 0
=============================================================================
