--------------------------- MODULE MCNginxCluster ---------------------------
(* Small instances of NginxCluster.  Two managed files stand for an upstream *)
(* pool and a proxy host that refers to it: the host without its pool is the *)
(* set `nginx -t` rejects.                                                   *)
EXTENDS NginxCluster, TLC

CONSTANTS n1, n2, w1, w2, pool, host, a, b

MCOneSlotEach == (w1 :> n1) @@ (w2 :> n2)
MCOneNode == [w \in Workers |-> n1]
MCDir == [f \in Files |-> 0]
MCTwoDirs == [f \in Files |-> IF f = pool THEN 1 ELSE 0]
MCEmpty == [f \in Files |-> NoFile]
MCOne == (pool :> a) @@ (host :> a)
MCTwo == (pool :> b) @@ (host :> b)
MCBroken == (pool :> NoFile) @@ (host :> a)

MCValid == {c \in Configs : c[host] # NoFile => c[pool] # NoFile}
MCRenderable == {MCEmpty, MCOne, MCTwo, MCBroken}
MCRenderableGood == {MCEmpty, MCOne, MCTwo}
=============================================================================
