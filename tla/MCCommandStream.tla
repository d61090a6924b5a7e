--------------------------- MODULE MCCommandStream ---------------------------
(* Programs over the tables of the code                                    *)
EXTENDS CommandStream, CodeTables

(* One program: each call of several pieces, and a frame that hands over   *)
(* what the call left in the buffer                                        *)
Long == {e.call : e \in {x \in InStepCalls : Len(x.says) > 1}}
One == CHOOSE c \in Clients : TRUE
Alone ==
  {[c \in Clients |-> IF c = One THEN <<call, "glimpl_swap_buffers">> ELSE <<>>] :
     call \in Long}

(* Two programs: an upload or none, then a call that waits for its answer  *)
Few == {<<"TEXIMAGE1D", "GENBUFFERS">>, <<"COLOR3F", "GENBUFFERS">>}
AloneOrBoth == Alone \cup [Clients -> Few]

UsedCalls == CallsIn(Long \cup {"TEXIMAGE1D", "GENBUFFERS", "COLOR3F"}) \cup OwnCalls
=============================================================================
