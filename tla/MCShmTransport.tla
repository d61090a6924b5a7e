--------------------------- MODULE MCShmTransport ---------------------------
(* Instances of ShmTransport for TLC *)
EXTENDS ShmTransportInv, TLC

(* Programs are interchangeable when the same may happen to them.          *)
ClientSymmetry ==
  {p \in Permutations(Clients) :
     \A c \in Clients : /\ c \in MayLeave <=> p[c] \in MayLeave
                        /\ c \in MayCrash <=> p[c] \in MayCrash}
=============================================================================
