---------------------------- MODULE MCWireTables ----------------------------
(* The two tables of the code, all at once: the state is a piece some call *)
(* may push.                                                               *)
EXTENDS WireTables, CodeTables

VARIABLE piece
Init == piece \in Pieces
Next == piece' \in Pieces
Spec == Init /\ [][Next]_piece

(* Every case the words of a command leave possible reads exactly those    *)
(* words, each as what it was pushed as, and leaves the answer where the   *)
(* call looks for it: no call makes the server take data for a command or  *)
(* a float for an integer.                                                 *)
PieceAgrees == Agree(piece)

(* The calls CodeTables leaves out are left out for a reason: each pushes  *)
(* a piece that does not agree.                                            *)
Disagrees(call, entries) ==
  \E e \in entries : e.call = call /\ \E k \in DOMAIN e.says : ~Agree(e.says[k])
ASSUME OutOfStepAssumption ==
  /\ \A call \in OutOfStep : Disagrees(call, CallsIn(OutOfStep))
  /\ \A e \in CornerCases : e.says = <<>> \/ Disagrees(e.call, CornerCases)

(* No case of the code has the number of data or of the closing zero, and  *)
(* a call whose pieces all agree uploads, in the same hand-over, what a    *)
(* case is to use: what the theorems of CommandStreamProofs ask of the     *)
(* tables beyond PieceAgrees.                                              *)
ASSUME NamesAssumption == NamesApart
ASSUME UploadsAssumption ==
  /\ \A e \in InStepCalls :
       AgreesOnUpload(e.says) \/ \E k \in DOMAIN e.says : ~Agree(e.says[k])
  /\ ~MayUse(Farewell.words)

OddCalls == CallsIn(OutOfStep) \cup CornerCases
=============================================================================
