--------------------------- MODULE MCFramePresent ---------------------------
(* Instances of FramePresent for TLC *)
EXTENDS FramePresent, TLC

(* Programs are interchangeable when the same may happen to them.          *)
ClientSymmetry ==
  {p \in Permutations(Clients) :
     \A c \in Clients : c \in MayCrash <=> p[c] \in MayCrash}
=============================================================================
