--------------------------- MODULE MCCertLifecycle ---------------------------
(* Instances of CertLifecycle for TLC.                                       *)
EXTENDS CertLifecycle, TLC

(* Worker slots, nodes and certificate ids are interchangeable: no safety    *)
(* property names one of them.                                               *)
Interchangeable ==
    Permutations(Workers) \union Permutations(Nodes) \union Permutations(Certs)
=============================================================================
