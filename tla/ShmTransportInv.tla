--------------------------- MODULE ShmTransportInv ---------------------------
(***************************************************************************)
(* The inductive invariant of ShmTransport, as named parts.  TLC checks it *)
(* as an invariant; ShmTransportProofs proves it inductive and derives     *)
(* the safety properties from it.                                          *)
(***************************************************************************)
EXTENDS ShmTransport

NoSlotPcs == {"off", "claim", "claimRead", "claimWrite"}
StagingPcs == {"subCopy", "subId", "subSize", "subGo"}
TakenPcs == {"unstage", "bind", "exec"}
AnswerPcs == {"reply", "clear"}

(* A client has a slot number from the write of the mask to its end        *)
IdInv == \A c \in Clients : pc[c] \in NoSlotPcs <=> id[c] = 0

(* The history bit: a buffer is not run before it is published, and the    *)
(* client does not go on before it is run                                  *)
RanInv ==
  \A c \in Clients :
    /\ pc[c] \notin SubmitPcs => ran[c] = bit[c]
    /\ pc[c] \in SubmitPcs \ WaitPcs => ran[c] # bit[c]

(* The copies of the mask made under the lock are up to date               *)
MaskInv ==
  /\ \A c \in Clients : pc[c] = "claimWrite" => cMask[c] = slotMask
  /\ spc = "relWrite" => sMask = slotMask

(* The flag of the client's own slot is up while its buffer is on the way  *)
FlagInv ==
  \A c \in Clients :
    (InFlight(c) \/ pc[c] \in StagingPcs) => slotSubmit[id[c]] = 1

(* Who writes the staging area, and what is in it when SUBMIT is up        *)
StageInv ==
  /\ \A c \in Clients :
       pc[c] \in StagingPcs \cup {"subFlag"} => submit = 0
  /\ \A c \in Clients :
       pc[c] \in {"subId", "subSize", "subGo"} => stage = Batch(c)
  /\ submit = 1 /\ spc # "unstage" =>
       /\ stage \in Batches
       /\ InFlight(stage.req.from)
       /\ stage = Batch(stage.req.from)

(* What the server has taken is the buffer of a client that waits for it,  *)
(* and what is staged meanwhile is another client's                        *)
TakenInv ==
  /\ spc \in {"getId", "getSize", "check", "copy", "unstage"} => submit = 1
  /\ spc \in TakenPcs =>
       /\ exec \in Batches
       /\ InFlight(exec.req.from)
       /\ exec = Batch(exec.req.from)
  /\ spc \in {"bind", "exec"} /\ submit = 1 =>
       stage.req.from # exec.req.from
  /\ spc \in AnswerPcs =>
       /\ exec \in Batches
       /\ Served(exec.req.from)
       /\ exec = Batch(exec.req.from)
       /\ slotSubmit[exec.id] = 1

(* The registers that describe the staged buffer, and their local copies   *)
SizeInv ==
  /\ \A c \in Clients : pc[c] \in SubmitPcs => size[c] <= FifoWords
  /\ \A c \in Clients : pc[c] \in {"subSize", "subGo"} => stageId = id[c]
  /\ \A c \in Clients : pc[c] = "subGo" => stageSize = size[c]
  /\ submit = 1 /\ spc # "unstage" =>
       stageId = stage.id /\ stageSize = stage.words
  /\ spc \in {"getSize", "check", "copy"} => sId = stage.id
  /\ spc \in {"check", "copy"} => sSize = stage.words
  /\ spc \in TakenPcs \cup AnswerPcs => sId = exec.id

(* The slot that is being given back: nobody owns it, and its bit is set   *)
(* until the server clears it                                              *)
ReleaseInv ==
  /\ spc \in AnswerPcs =>
       release = IF exec.req.kind = "goodbye" THEN exec.id ELSE 0
  /\ spc \notin AnswerPcs =>
       (release # 0 <=> spc \in ReleasePcs \cup {"relLock"})
  /\ release # 0 => \A c \in Clients : Owns(c) => id[c] # release
  /\ release # 0 /\ spc # "relUnlock" => release \in slotMask

SlotIInv ==
  /\ TypeOK /\ IdInv /\ LockMutex /\ RanInv /\ MaskInv /\ FlagInv
  /\ StageInv /\ TakenInv /\ SizeInv /\ ReleaseInv /\ SlotExclusive

-----------------------------------------------------------------------------
(* Connections                                                             *)

(* A slot with a connection, and the slot in CONNECT, have an owner; an    *)
(* owner that has written CONNECT is connected, or CONNECT still holds its *)
(* number and the server has not taken it                                  *)
ConnInv ==
  /\ \A s \in Slots : conns[s] \in {0, 1}
  /\ \A s \in Slots :
       conns[s] = 1 => \E c \in Clients : Owns(c) /\ id[c] = s
  /\ connect # 0 => \E c \in Clients : Owns(c) /\ id[c] = connect
  /\ spc \in {"add", "ack"} => sCreg = connect /\ connect # 0
  /\ \A c \in Clients :
       pc[c] \in ConnPcs => conns[id[c]] = 0 /\ connect # id[c]
  /\ \A c \in Clients :
       Owns(c) /\ pc[c] \notin ConnPcs =>
         (conns[id[c]] = 0 <=> (connect = id[c] /\ spc # "ack"))
  /\ \A c \in Clients : pc[c] = "connWrite" => connect = 0

(* Once the server answered the first buffer of a program, it looks at     *)
(* CONNECT before it looks at SUBMIT again                                 *)
BeforeAnswer(c) ==
  pc[c] = "connDone" \/ (kind[c] = "create" /\ pc[c] \in SubmitPcs)
CreateInv ==
  \A c \in Clients :
    Owns(c) /\ connect = id[c] =>
      /\ ~BeforeAnswer(c) => spc \in {"conn", "add", "ack"}
      /\ Served(c) /\ kind[c] = "create" =>
           \/ spc \in {"conn", "add", "ack"}
           \/ spc \in AnswerPcs /\ exec.req.from = c

(* A slot nobody claimed is clean                                          *)
CleanInv ==
  /\ \A s \in Slots \ slotMask : slotSubmit[s] = 0 /\ slotRet[s] = NoResult
  /\ spc \in {"relRead", "relWrite"} =>
       slotSubmit[release] = 0 /\ slotRet[release] = NoResult
  /\ ClaimedSlotClean

ConnIInv ==
  SlotIInv /\ ConnInv /\ CreateInv /\ CleanInv /\ CallsInOwnContext

-----------------------------------------------------------------------------
(* Results                                                                 *)

(* A call that goes on finds in its slot the result of its own buffer, and *)
(* a dropped one the zero value                                            *)
ReplyInv ==
  /\ \A c \in Clients :
       pc[c] = "ret" => kind[c] # "goodbye" /\ slotRet[id[c]] = Request(c)
  /\ \A c \in Clients : pc[c] = "dropped" => slotRet[id[c]] = NoResult
  /\ \A c \in Clients :
       Served(c) /\ kind[c] # "goodbye" =>
         slotRet[id[c]] = Request(c) \/ (spc = "reply" /\ exec.req.from = c)
  /\ spc \in TakenPcs => sRet = NoResult
  /\ spc = "reply" =>
       sRet = IF exec.req.kind = "goodbye" THEN NoResult ELSE exec.req

ReplyIInv == SlotIInv /\ ReplyInv

-----------------------------------------------------------------------------
(* What becomes of a buffer, and of a slot whose owner is gone             *)

(* A published buffer is in the staging area, or the server has it         *)
Kept(c) ==
  \/ submit = 1 /\ stage = Batch(c)
  \/ spc \in TakenPcs /\ exec = Batch(c)
BuffersKept == \A c \in Clients : InFlight(c) => Kept(c)

(* A raised flag is that of a program whose buffer is on its way, or being *)
(* answered, whoever had the slot before                                   *)
RaisedFor(c, s) ==
  /\ id[c] = s
  /\ \/ InFlight(c) \/ pc[c] \in StagingPcs
     \/ spc \in AnswerPcs /\ exec.req.from = c
RaisedInv ==
  \A s \in Slots : slotSubmit[s] = 1 => \E c \in Clients : RaisedFor(c, s)

(* Where the published buffer of c, or the answer to it, is                *)
AllPlaces == {"staged", "taken", "reply", "back"}
Places(c) ==
  {p \in AllPlaces :
     \/ p = "staged" /\ submit = 1 /\ spc # "unstage" /\ stage = Batch(c)
     \/ p = "taken" /\ spc \in TakenPcs /\ exec = Batch(c)
     \/ p = "reply" /\ spc \in AnswerPcs /\ exec = Batch(c)
     \/ p = "back" /\ slotSubmit[id[c]] = 0}
(* What a program waits for is in one place, never in two                  *)
WaitersAccounted ==
  \A c \in Clients :
    pc[c] \in WaitPcs /\ kind[c] # "goodbye" => \E p \in AllPlaces : Places(c) = {p}

(* The server runs what was published and not run yet                      *)
RunsOnce ==
  [][\A c \in Clients : ran'[c] # ran[c] => InFlight(c) /\ ran'[c] = bit[c]]_vars

(* Killed with a slot and a connection, and without a goodbye on the way   *)
Stranded(c, s) ==
  /\ ~alive[c] /\ Owns(c) /\ id[c] = s /\ conns[s] > 0
  /\ kind[c] = "goodbye" => pc[c] \notin WaitPcs

(* Killed between its compare-and-swap and its unlock                      *)
DeadHolder(c) == ~alive[c] /\ ClientHolds(c)
=============================================================================
