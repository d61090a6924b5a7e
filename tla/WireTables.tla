------------------------------ MODULE WireTables ------------------------------
(***************************************************************************)
(* The table of the calls' words against the table of the cases that read  *)
(* them: what the two must have in common so that the server finds its way *)
(* through a buffer.  Nothing in the buffer marks where a command ends.    *)
(***************************************************************************)
EXTENDS WireFormat, FiniteSets

CONSTANTS Entries,   \* what the calls push: see GlimplCalls
          Rows       \* what the cases read: see ProcessorRows

Registers == {"ret", "retv"}
ASSUME EntriesAssumption ==
  \A e \in Entries :
    e.says \in Seq([words : Seq(STRING), submit : BOOLEAN, reads : SUBSET Registers])
ASSUME RowsAssumption ==
  \A r \in Rows : /\ r.command \in STRING /\ r.layout \in Seq(STRING)
                  /\ r.uses \in BOOLEAN /\ r.writes \subseteq Registers

(* glimpl_goodbye's, which is not in the table of the calls.  (It pushes a *)
(* zero too many, which is never read.)                                    *)
Farewell == [words |-> <<"GOODBYE_WORLD", "i">>, submit |-> TRUE, reads |-> {}]
Pieces ==
  (UNION {{e.says[k] : k \in DOMAIN e.says} : e \in Entries}) \cup {Farewell}
(* The words of every command some call pushes                             *)
Commands == {p.words : p \in Pieces} \ {<<>>}

(* A case takes the next words for what it wants them for.  It matters     *)
(* which words they are where the number of words depends on them: a count *)
(* takes its own number only, a flag its own value; when words of another  *)
(* kind are there, anything may come of it.                                *)
Values == {"i", "f", "lo", "hi", "w"}
Markers == {{"n0", "n1", "n2", "n3", "n4"}, {"yes", "no"}, {"s", "z"}}
Takes(slot, word) ==
  slot = word \/ slot \in Values \/ ~\E kind \in Markers : {slot, word} \subseteq kind
(* Data found where a command should be may be the number of any command,  *)
(* of none, or a zero.                                                     *)
Data == Values \cup UNION Markers
MayRun(r, word) == r.command = word \/ word \in Data
(* A row the words of a command do not rule out, and one that reads just   *)
(* those words                                                             *)
Possible(r, words) ==
  /\ r.command = words[1]
  /\ \A k \in 1..Len(r.layout) : k < Len(words) => Takes(r.layout[k], words[k + 1])
ReadsAll(r, words) == Possible(r, words) /\ Len(r.layout) + 1 = Len(words)

(* What the two tables must have in common.  Whatever the words of a       *)
(* command leave the server to do, it reads all of them and no more...     *)
AgreesOn(words) ==
  /\ \E r \in Rows : Possible(r, words)
  /\ \A r \in Rows : Possible(r, words) => ReadsAll(r, words)
(* ... no case has the number of data or of the closing zero...            *)
NamesApart == \A r \in Rows : r.command \notin Data \cup {"0"}

(* ... each word is read as what it was pushed as...                       *)
SameUse(slot, word) == slot = word \/ "w" \in {slot, word}
AgreesOnKinds(words) ==
  \A r \in Rows : ReadsAll(r, words) =>
    \A k \in DOMAIN r.layout : SameUse(r.layout[k], words[k + 1])

(* ... and leaves the answer in the registers the call reads.              *)
AgreesOnReply(p) ==
  p.submit /\ p.reads # {} =>
    /\ p.words # <<>>
    /\ \A r \in Rows : Possible(r, p.words) => p.reads \subseteq r.writes

(* All of this of one piece; CommandStreamProofs asks it of every one.     *)
Agree(p) ==
  /\ p.words # <<>> => AgreesOn(p.words) /\ AgreesOnKinds(p.words)
  /\ AgreesOnReply(p)

(* A case may give GL the memory that was uploaded last: a call whose      *)
(* command has such a case uploads first (VP_NULL: nothing), and does not  *)
(* hand over in between.                                                   *)
MayUse(words) == words # <<>> /\ \E r \in Rows : r.uses /\ Possible(r, words)
SetsUpload(words) == words # <<>> /\ words[1] \in {"VP_UPLOAD", "VP_NULL"}
UploadsFirst(says, k) ==
  \E j \in 1..(k - 1) :
    SetsUpload(says[j].words) /\ \A i \in j..(k - 1) : ~says[i].submit
AgreesOnUpload(says) ==
  \A k \in DOMAIN says : MayUse(says[k].words) => UploadsFirst(says, k)
=============================================================================
