------------------------------ MODULE CodeTables ------------------------------
(***************************************************************************)
(* The two tables of the code together, and the calls for which they do    *)
(* not agree.                                                              *)
(***************************************************************************)
EXTENDS GlimplCore, GlimplShaders, GlimplVectors, GlimplObjects,
        ProcessorPlain, ProcessorVectors

AllCalls == OwnCalls \cup CoreCalls \cup ShaderCalls \cup VectorCalls \cup ObjectCalls
AllRows == PlainRows \cup VectorRows

(* No case, or one that reads other words                                  *)
LosesStep ==
  {"VERTEXATTRIB4UBV", "POLYGONSTIPPLE", "PROGRAMBINARY",
   "TRANSFORMFEEDBACKVARYINGS", "GETNAMEDFRAMEBUFFERPARAMETERIV",
   "COMPRESSEDTEXSUBIMAGE1D", "COMPRESSEDTEXSUBIMAGE2D",
   "COMPRESSEDTEXTURESUBIMAGE1D", "COMPRESSEDTEXTURESUBIMAGE2D"}
(* Floats sent as integers                                                 *)
MistakesKind == {"TEXENVIV"}
(* An answer looked for in the wrong register                              *)
MissesReply ==
  {"ISENABLED", "GETSHADERPRECISIONFORMAT", "GETNAMEDBUFFERPARAMETERIV",
   "MAPNAMEDBUFFER"}
OutOfStep == LosesStep \cup MistakesKind \cup MissesReply

CallsIn(names) == {e \in AllCalls : e.call \in names}
InStepCalls ==
  {e \in AllCalls : e.call \notin OutOfStep /\ e.like \notin OutOfStep}
=============================================================================
