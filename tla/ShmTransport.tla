---------------------------- MODULE ShmTransport ----------------------------
(***************************************************************************)
(* The shared-memory transport: how client programs claim a mailbox slot,  *)
(* connect, hand command buffers to the server and leave, and how the      *)
(* server's command loop takes, runs and answers them.                     *)
(*   clients   src/client/glimpl.c, pb.c, spinlock.c                       *)
(*   server    src/server/processor.c                                      *)
(*   layout    inc/sharedgl.h                                              *)
(*                                                                         *)
(* One step is one access to a shared register (with the local computation *)
(* around it): the protocol is a set of busy-waiting loops over plain      *)
(* loads and stores, the lock alone is a compare-and-swap.  Accesses are   *)
(* sequentially consistent; the buffer copy is one step, and StageFrozen   *)
(* below says that nobody writes what the other side is copying.           *)
(*                                                                         *)
(* A definition marked "Faulty variant" is the next one with a plausible   *)
(* bug in it.  None is part of the specification: each is there to show    *)
(* that the property of some run fails when the code is wrong in that way. *)
(***************************************************************************)
EXTENDS Integers, FiniteSets

CONSTANTS Clients,     \* the programs that may use the library
          MaxClients,  \* SGL_MAX_CLIENTS, the number of mailbox slots
          FifoWords,   \* SGL_OFFSET_REGISTER_FIFO_SIZE, in words
          CallWords,   \* the sizes an ordinary command buffer may have
          MayLeave,    \* the programs that may end (the others run for ever)
          MayCrash,    \* the programs that may be killed at any step
          NoResult,    \* a zeroed RETVAL
          Garbage      \* words that are not one whole command buffer

Slots == 1..MaxClients
Kinds == {"create", "call", "goodbye"}
Requests == [from : Clients, kind : Kinds, bit : {0, 1}]

ASSUME SlotsAssumption == MaxClients \in Nat \ {0}
ASSUME FifoAssumption == FifoWords \in Nat /\ FifoWords >= 4
ASSUME CallAssumption == CallWords \subseteq Nat
ASSUME LeaveAssumption == MayLeave \subseteq Clients
ASSUME CrashAssumption == MayCrash \subseteq Clients
ASSUME NoResultAssumption == NoResult \notin Requests

(* What a client leaves in the staging area: its request, the slot it      *)
(* names and its length.  Two consecutive requests of a client differ in   *)
(* bit, which stands for the commands' content.                            *)
Batches == [req : Requests, id : Slots, words : Nat]

ASSUME GarbageAssumption == Garbage \notin Batches

VARIABLES
  (* The registers and areas of the shared memory *)
  lock,        \* SGL_OFFSET_REGISTER_LOCK
  slotMask,    \* SGL_OFFSET_REGISTER_SHM_SLOT_MASK, as the set of its bits
  connect,     \* SGL_OFFSET_REGISTER_CONNECT
  submit,      \* SGL_OFFSET_REGISTER_SUBMIT
  stageId,     \* SGL_OFFSET_REGISTER_STAGE_CLIENT_ID
  stageSize,   \* SGL_OFFSET_REGISTER_STAGE_SIZE, in words
  stage,       \* the words at SGL_STAGE_OFFSET
  slotSubmit,  \* the SUBMIT register of each mailbox slot
  slotRet,     \* the RETVAL registers of each mailbox slot
  (* The server's command loop *)
  spc,         \* where the loop is
  sCreg,       \* creg in wait_shm
  sId,         \* client_id
  sSize,       \* submit_size
  exec,        \* the commands in shared_exec
  sRet,        \* the return registers in shared_exec
  conns,       \* how many connections the list holds for each slot
  cur,         \* the slot whose GL context is current, 0 for none
  release,     \* release_client_slot
  sMask,       \* slot_mask in sgl_release_client_slot
  (* The clients *)
  pc,          \* where each client is
  alive,       \* FALSE once it was killed
  id,          \* client_id, 0 when it has none
  kind,        \* the kind of its latest buffer
  bit,         \* the bit of its latest buffer
  size,        \* pb_size() of its latest buffer, in words
  cMask,       \* slot_mask in shm_claim_slot
  got,         \* the value its latest call returned, NoResult before
  (* History *)
  ran          \* ran[c]: the bit of the latest buffer of c the server ran

lockVars == <<lock, slotMask, connect>>
stageVars == <<submit, stageId, stageSize, stage>>
slotVars == <<slotSubmit, slotRet>>
loopVars == <<sCreg, sId, sSize, exec, sRet>>
connVars == <<conns, cur>>
relVars == <<release, sMask>>
serverVars == <<spc, loopVars, connVars, relVars, ran>>
callVars == <<kind, bit, size>>
clientVars == <<pc, alive, id, callVars, cMask, got>>
vars == <<lockVars, stageVars, slotVars, serverVars, clientVars>>

-----------------------------------------------------------------------------
(* The server has initialised the registers and no program has started yet *)
Init ==
  /\ lock = 0 /\ slotMask = {} /\ connect = 0
  /\ submit = 0 /\ stageId = 0 /\ stageSize = 0 /\ stage = Garbage
  /\ slotSubmit = [s \in Slots |-> 0] /\ slotRet = [s \in Slots |-> NoResult]
  /\ spc = "conn" /\ sCreg = 0 /\ sId = 0 /\ sSize = 0
  /\ exec = Garbage /\ sRet = NoResult
  /\ conns = [s \in Slots |-> 0] /\ cur = 0
  /\ release = 0 /\ sMask = {}
  /\ pc = [c \in Clients |-> "off"] /\ alive = [c \in Clients |-> TRUE]
  /\ id = [c \in Clients |-> 0]
  /\ kind = [c \in Clients |-> "goodbye"] /\ bit = [c \in Clients |-> 0]
  /\ size = [c \in Clients |-> 0] /\ cMask = [c \in Clients |-> {}]
  /\ got = [c \in Clients |-> NoResult]
  /\ ran = [c \in Clients |-> 0]

Goto(c, from, to) == alive[c] /\ pc[c] = from /\ pc' = [pc EXCEPT ![c] = to]

(* spin_lock: one successful compare-and-swap; a failed one changes nothing *)
TakeLock == lock = 0 /\ lock' = 1
(* spin_unlock: a plain store *)
DropLock == lock' = 0

-----------------------------------------------------------------------------
(* A client claims a slot: shm_create_context, shm_claim_slot              *)

StartUp(c) ==
  /\ Goto(c, "off", "claim")
  /\ UNCHANGED <<lockVars, stageVars, slotVars, serverVars,
                 alive, id, callVars, cMask, got>>

ClaimLock(c) ==
  /\ Goto(c, "claim", "claimRead")
  /\ TakeLock
  /\ UNCHANGED <<slotMask, connect, stageVars, slotVars, serverVars,
                 alive, id, callVars, cMask, got>>

ClaimRead(c) ==
  /\ Goto(c, "claimRead", "claimWrite")
  /\ cMask' = [cMask EXCEPT ![c] = slotMask]
  /\ UNCHANGED <<lockVars, stageVars, slotVars, serverVars,
                 alive, id, callVars, got>>

FreeSlots(m) == Slots \ m

(* The first slot whose bit is clear *)
ClaimWrite(c) ==
  /\ Goto(c, "claimWrite", "connTest")
  /\ \E s \in FreeSlots(cMask[c]) :
       /\ \A t \in FreeSlots(cMask[c]) : s <= t
       /\ slotMask' = cMask[c] \cup {s}
       /\ id' = [id EXCEPT ![c] = s]
  /\ cMask' = [cMask EXCEPT ![c] = {}]
  /\ UNCHANGED <<lock, connect, stageVars, slotVars, serverVars,
                 alive, callVars, got>>

(* Faulty variant: the exit path forgets spin_unlock *)
ClaimFullKeepsLock(c) ==
  /\ Goto(c, "claimWrite", "off")
  /\ FreeSlots(cMask[c]) = {}
  /\ cMask' = [cMask EXCEPT ![c] = {}]
  /\ UNCHANGED <<lockVars, stageVars, slotVars, serverVars,
                 alive, id, callVars, got>>

(* No free slot: the lock is dropped and the program exits *)
ClaimFull(c) ==
  /\ Goto(c, "claimWrite", "off")
  /\ FreeSlots(cMask[c]) = {}
  /\ DropLock
  /\ cMask' = [cMask EXCEPT ![c] = {}]
  /\ UNCHANGED <<slotMask, connect, stageVars, slotVars, serverVars,
                 alive, id, callVars, got>>

-----------------------------------------------------------------------------
(* It asks the server for a connection: the rest of shm_create_context     *)

ConnTest(c) ==
  /\ Goto(c, "connTest", IF connect # 0 THEN "connUnlock" ELSE "connWrite")
  /\ UNCHANGED <<lockVars, stageVars, slotVars, serverVars,
                 alive, id, callVars, cMask, got>>

ConnUnlock(c) ==
  /\ Goto(c, "connUnlock", "connSpin")
  /\ DropLock
  /\ UNCHANGED <<slotMask, connect, stageVars, slotVars, serverVars,
                 alive, id, callVars, cMask, got>>

ConnSpin(c) ==
  /\ Goto(c, "connSpin", "connLock")
  /\ connect = 0
  /\ UNCHANGED <<lockVars, stageVars, slotVars, serverVars,
                 alive, id, callVars, cMask, got>>

(* Faulty variant: CONNECT is not looked at again *)
ConnLockNoRetest(c) ==
  /\ Goto(c, "connLock", "connWrite")
  /\ TakeLock
  /\ UNCHANGED <<slotMask, connect, stageVars, slotVars, serverVars,
                 alive, id, callVars, cMask, got>>

ConnLock(c) ==
  /\ Goto(c, "connLock", "connTest")
  /\ TakeLock
  /\ UNCHANGED <<slotMask, connect, stageVars, slotVars, serverVars,
                 alive, id, callVars, cMask, got>>

ConnWrite(c) ==
  /\ Goto(c, "connWrite", "connDone")
  /\ connect' = id[c]
  /\ UNCHANGED <<lock, slotMask, stageVars, slotVars, serverVars,
                 alive, id, callVars, cMask, got>>

(* A new buffer of kind k and n words, closed by glimpl_submit's own zero  *)
NewBatch(c, k, n) ==
  /\ kind' = [kind EXCEPT ![c] = k]
  /\ bit' = [bit EXCEPT ![c] = 1 - @]
  /\ size' = [size EXCEPT ![c] = n]
  /\ got' = [got EXCEPT ![c] = NoResult]

(* The lock is dropped and CREATE_CONTEXT goes into the first buffer *)
ConnDone(c) ==
  /\ Goto(c, "connDone", "subLock")
  /\ DropLock
  /\ NewBatch(c, "create", 2)
  /\ UNCHANGED <<slotMask, connect, stageVars, slotVars, serverVars,
                 alive, id, cMask>>

-----------------------------------------------------------------------------
(* glimpl_submit and submit_shm                                            *)

(* A GL call that flushes the push buffer *)
Call(c) ==
  /\ Goto(c, "run", "subLock")
  /\ \E n \in CallWords : n + 1 <= FifoWords /\ NewBatch(c, "call", n + 1)
  /\ UNCHANGED <<lockVars, stageVars, slotVars, serverVars,
                 alive, id, cMask>>

(* The buffer overflowed: the return registers of the client's own slot    *)
(* are zeroed, and the call goes on to read them                           *)
CallDropped(c) ==
  /\ Goto(c, "run", "dropped")
  /\ \E n \in CallWords : n + 1 > FifoWords
  /\ slotRet' = [slotRet EXCEPT ![id[c]] = NoResult]
  /\ got' = [got EXCEPT ![c] = NoResult]
  /\ UNCHANGED <<lockVars, stageVars, slotSubmit, serverVars,
                 alive, id, callVars, cMask>>

(* glimpl_goodbye: GOODBYE_WORLD, the client's id, 0 *)
Goodbye(c) ==
  /\ c \in MayLeave
  /\ Goto(c, "run", "subLock")
  /\ NewBatch(c, "goodbye", 4)
  /\ UNCHANGED <<lockVars, stageVars, slotVars, serverVars,
                 alive, id, cMask>>

SubLock(c) ==
  /\ Goto(c, "subLock", "subTest")
  /\ TakeLock
  /\ UNCHANGED <<slotMask, connect, stageVars, slotVars, serverVars,
                 alive, id, callVars, cMask, got>>

(* Faulty variant: a raised SUBMIT is ignored *)
SubTestIgnored(c) ==
  /\ Goto(c, "subTest", "subFlag")
  /\ UNCHANGED <<lockVars, stageVars, slotVars, serverVars,
                 alive, id, callVars, cMask, got>>

SubTest(c) ==
  /\ Goto(c, "subTest", IF submit = 1 THEN "subUnlock" ELSE "subFlag")
  /\ UNCHANGED <<lockVars, stageVars, slotVars, serverVars,
                 alive, id, callVars, cMask, got>>

SubUnlock(c) ==
  /\ Goto(c, "subUnlock", "subSpin")
  /\ DropLock
  /\ UNCHANGED <<slotMask, connect, stageVars, slotVars, serverVars,
                 alive, id, callVars, cMask, got>>

SubSpin(c) ==
  /\ Goto(c, "subSpin", "subLock")
  /\ submit # 1
  /\ UNCHANGED <<lockVars, stageVars, slotVars, serverVars,
                 alive, id, callVars, cMask, got>>

(* Faulty variant: the own flag is never raised *)
SubFlagSkipped(c) ==
  /\ Goto(c, "subFlag", "subCopy")
  /\ UNCHANGED <<lockVars, stageVars, slotVars, serverVars,
                 alive, id, callVars, cMask, got>>

(* pb_write(SUBMIT) resolves to the client's own slot *)
SubFlag(c) ==
  /\ Goto(c, "subFlag", "subCopy")
  /\ slotSubmit' = [slotSubmit EXCEPT ![id[c]] = 1]
  /\ UNCHANGED <<lockVars, stageVars, slotRet, serverVars,
                 alive, id, callVars, cMask, got>>

Request(c) == [from |-> c, kind |-> kind[c], bit |-> bit[c]]
Batch(c) == [req |-> Request(c), id |-> id[c], words |-> size[c]]

(* pb_copy_to_shared *)
SubCopy(c) ==
  /\ Goto(c, "subCopy", "subId")
  /\ stage' = Batch(c)
  /\ UNCHANGED <<lockVars, submit, stageId, stageSize, slotVars, serverVars,
                 alive, id, callVars, cMask, got>>

(* Faulty variant: the length is not written *)
SubIdThenGo(c) ==
  /\ Goto(c, "subId", "subGo")
  /\ stageId' = id[c]
  /\ UNCHANGED <<lockVars, submit, stageSize, stage, slotVars, serverVars,
                 alive, id, callVars, cMask, got>>

SubId(c) ==
  /\ Goto(c, "subId", "subSize")
  /\ stageId' = id[c]
  /\ UNCHANGED <<lockVars, submit, stageSize, stage, slotVars, serverVars,
                 alive, id, callVars, cMask, got>>

SubSize(c) ==
  /\ Goto(c, "subSize", "subGo")
  /\ stageSize' = size[c]
  /\ UNCHANGED <<lockVars, submit, stageId, stage, slotVars, serverVars,
                 alive, id, callVars, cMask, got>>

SubGo(c) ==
  /\ Goto(c, "subGo", "subDone")
  /\ submit' = 1
  /\ UNCHANGED <<lockVars, stageId, stageSize, stage, slotVars, serverVars,
                 alive, id, callVars, cMask, got>>

SubDone(c) ==
  /\ Goto(c, "subDone", "subWait")
  /\ DropLock
  /\ UNCHANGED <<slotMask, connect, stageVars, slotVars, serverVars,
                 alive, id, callVars, cMask, got>>

(* The client's own SUBMIT is no longer 1: the push buffer is reset and the *)
(* call goes on to its result                                              *)
Answered(c) ==
  /\ Goto(c, "subWait", "ret")
  /\ kind[c] # "goodbye"
  /\ slotSubmit[id[c]] # 1
  /\ size' = [size EXCEPT ![c] = 0]
  /\ UNCHANGED <<lockVars, stageVars, slotVars, serverVars,
                 alive, id, kind, bit, cMask, got>>

(* The same, after which glimpl_goodbye returns and the program ends       *)
Left(c) ==
  /\ Goto(c, "subWait", "off")
  /\ kind[c] = "goodbye"
  /\ slotSubmit[id[c]] # 1
  /\ id' = [id EXCEPT ![c] = 0]
  /\ size' = [size EXCEPT ![c] = 0]
  /\ UNCHANGED <<lockVars, stageVars, slotVars, serverVars,
                 alive, kind, bit, cMask, got>>

(* The caller reads RETVAL from its slot *)
Return(c) ==
  /\ \E from \in {"ret", "dropped"} : Goto(c, from, "run")
  /\ got' = [got EXCEPT ![c] = slotRet[id[c]]]
  /\ UNCHANGED <<lockVars, stageVars, slotVars, serverVars,
                 alive, id, callVars, cMask>>

(* The program is killed where it stands: no handler runs, and the shared  *)
(* memory stays as it is.  Modelled from outside src/: the operating system *)
Crash(c) ==
  /\ c \in MayCrash
  /\ alive[c] /\ pc[c] # "off"
  /\ alive' = [alive EXCEPT ![c] = FALSE]
  /\ UNCHANGED <<lockVars, stageVars, slotVars, serverVars,
                 pc, id, callVars, cMask, got>>

ClientStep(c) ==
  \/ ClaimLock(c) \/ ClaimRead(c) \/ ClaimWrite(c) \/ ClaimFull(c)
  \/ ConnTest(c) \/ ConnUnlock(c) \/ ConnSpin(c) \/ ConnLock(c)
  \/ ConnWrite(c) \/ ConnDone(c)
  \/ SubLock(c) \/ SubTest(c) \/ SubUnlock(c) \/ SubSpin(c) \/ SubFlag(c)
  \/ SubCopy(c) \/ SubId(c) \/ SubSize(c) \/ SubGo(c) \/ SubDone(c)
  \/ Answered(c) \/ Left(c) \/ Return(c)

-----------------------------------------------------------------------------
(* The server: wait_shm                                                    *)

SGoto(from, to) == spc = from /\ spc' = to

SPollConnect ==
  /\ SGoto("conn", IF connect # 0 THEN "add" ELSE "poll")
  /\ sCreg' = connect
  /\ UNCHANGED <<lockVars, stageVars, slotVars, clientVars,
                 sId, sSize, exec, sRet, connVars, relVars, ran>>

(* connection_add: the new context becomes the current one *)
SAdd ==
  /\ SGoto("add", "ack")
  /\ conns' = [conns EXCEPT ![sCreg] = @ + 1]
  /\ cur' = sCreg
  /\ UNCHANGED <<lockVars, stageVars, slotVars, clientVars,
                 loopVars, relVars, ran>>

SAck ==
  /\ SGoto("ack", "conn")
  /\ connect' = 0
  /\ sCreg' = 0
  /\ UNCHANGED <<lock, slotMask, stageVars, slotVars, clientVars,
                 sId, sSize, exec, sRet, connVars, relVars, ran>>

SPollSubmit ==
  /\ SGoto("poll", IF submit = 1 THEN "getId" ELSE "conn")
  /\ UNCHANGED <<lockVars, stageVars, slotVars, clientVars,
                 loopVars, connVars, relVars, ran>>

SGetId ==
  /\ SGoto("getId", "getSize")
  /\ sId' = stageId
  /\ UNCHANGED <<lockVars, stageVars, slotVars, clientVars,
                 sCreg, sSize, exec, sRet, connVars, relVars, ran>>

SGetSize ==
  /\ SGoto("getSize", "check")
  /\ sSize' = stageSize
  /\ UNCHANGED <<lockVars, stageVars, slotVars, clientVars,
                 sCreg, sId, exec, sRet, connVars, relVars, ran>>

-----------------------------------------------------------------------------
(* The server: one round of the loop of sgl_cmd_processor_start            *)

Acceptable == sId \in Slots /\ sSize <= FifoWords

(* An invalid id or size: the slot is wiped if there is one, and the       *)
(* buffer is discarded                                                     *)
SCheck ==
  /\ SGoto("check", IF Acceptable THEN "copy" ELSE "conn")
  /\ submit' = IF Acceptable THEN submit ELSE 0
  /\ slotSubmit' = [s \in Slots |-> IF ~Acceptable /\ s = sId
                                      THEN 0 ELSE slotSubmit[s]]
  /\ slotRet' = [s \in Slots |-> IF ~Acceptable /\ s = sId
                                   THEN NoResult ELSE slotRet[s]]
  /\ UNCHANGED <<lockVars, stageId, stageSize, stage, clientVars,
                 loopVars, connVars, relVars, ran>>

(* The registers of shared_exec are zeroed and sSize words are copied      *)
SCopy ==
  /\ SGoto("copy", "unstage")
  /\ exec' = IF stage \in Batches /\ stage.words <= sSize
               THEN stage ELSE Garbage
  /\ sRet' = NoResult
  /\ UNCHANGED <<lockVars, stageVars, slotVars, clientVars,
                 sCreg, sId, sSize, connVars, relVars, ran>>

(* Faulty variant: SUBMIT stays raised *)
SUnstageSkipped ==
  /\ SGoto("unstage", "bind")
  /\ UNCHANGED <<lockVars, stageVars, slotVars,
                 clientVars, loopVars, connVars, relVars, ran>>

SUnstage ==
  /\ SGoto("unstage", "bind")
  /\ submit' = 0
  /\ UNCHANGED <<lockVars, stageId, stageSize, stage, slotVars,
                 clientVars, loopVars, connVars, relVars, ran>>

(* connection_current: without a connection the context stays what it was  *)
SBind ==
  /\ SGoto("bind", "exec")
  /\ cur' = IF conns[sId] > 0 THEN sId ELSE cur
  /\ UNCHANGED <<lockVars, stageVars, slotVars,
                 clientVars, loopVars, conns, relVars, ran>>

(* The commands are run; what they leave in RETVAL is named by the request *)
SExecCall ==
  /\ SGoto("exec", "reply")
  /\ exec # Garbage
  /\ exec.req.kind # "goodbye"
  /\ sRet' = exec.req
  /\ ran' = [ran EXCEPT ![exec.req.from] = exec.req.bit]
  /\ UNCHANGED <<lockVars, stageVars, slotVars, clientVars,
                 sCreg, sId, sSize, exec, connVars, relVars>>

(* Faulty variant: connection_rem is missing *)
SExecGoodbyeKeepsConn ==
  /\ SGoto("exec", "reply")
  /\ exec # Garbage
  /\ exec.req.kind = "goodbye"
  /\ release' = exec.id
  /\ ran' = [ran EXCEPT ![exec.req.from] = exec.req.bit]
  /\ UNCHANGED <<lockVars, stageVars, slotVars, clientVars, loopVars,
                 connVars, sMask>>

(* Faulty variant: the slot is freed before the reply *)
SExecGoodbyeReleasesAtOnce ==
  /\ SGoto("exec", "reply")
  /\ exec # Garbage
  /\ exec.req.kind = "goodbye"
  /\ conns' = [conns EXCEPT ![exec.id] = 0]
  /\ cur' = IF conns[exec.id] > 0 THEN 0 ELSE cur
  /\ slotMask' = slotMask \ {exec.id}
  /\ ran' = [ran EXCEPT ![exec.req.from] = exec.req.bit]
  /\ UNCHANGED <<lock, connect, stageVars, slotVars, clientVars, loopVars,
                 relVars>>

(* GOODBYE_WORLD: connection_rem destroys the context (none is current     *)
(* then), and the slot is to be released after the reply                   *)
SExecGoodbye ==
  /\ SGoto("exec", "reply")
  /\ exec # Garbage
  /\ exec.req.kind = "goodbye"
  /\ conns' = [conns EXCEPT ![exec.id] = 0]
  /\ cur' = IF conns[exec.id] > 0 THEN 0 ELSE cur
  /\ release' = exec.id
  /\ ran' = [ran EXCEPT ![exec.req.from] = exec.req.bit]
  /\ UNCHANGED <<lockVars, stageVars, slotVars, clientVars, loopVars, sMask>>

SReply ==
  /\ SGoto("reply", "clear")
  /\ slotRet' = [slotRet EXCEPT ![sId] = sRet]
  /\ UNCHANGED <<lockVars, stageVars, slotSubmit, clientVars,
                 loopVars, connVars, relVars, ran>>

(* The round's variables are fresh in the next round, and shared_exec is   *)
(* written before it is read again                                         *)
EndRound == sId' = 0 /\ sSize' = 0 /\ exec' = Garbage /\ sRet' = NoResult

(* Faulty variant: the flag of the slot is never lowered *)
SClearSkipped ==
  /\ SGoto("clear", IF release # 0 THEN "relLock" ELSE "conn")
  /\ EndRound
  /\ UNCHANGED <<lockVars, stageVars, slotVars, clientVars,
                 sCreg, connVars, relVars, ran>>

SClear ==
  /\ SGoto("clear", IF release # 0 THEN "relLock" ELSE "conn")
  /\ slotSubmit' = [slotSubmit EXCEPT ![sId] = 0]
  /\ EndRound
  /\ UNCHANGED <<lockVars, stageVars, slotRet, clientVars,
                 sCreg, connVars, relVars, ran>>

(* Faulty variant: the release does not take the lock *)
SRelLockSkipped ==
  /\ SGoto("relLock", "relWipe")
  /\ UNCHANGED <<lockVars, stageVars, slotVars, clientVars,
                 loopVars, connVars, relVars, ran>>

(* sgl_release_client_slot *)
SRelLock ==
  /\ SGoto("relLock", "relWipe")
  /\ TakeLock
  /\ UNCHANGED <<slotMask, connect, stageVars, slotVars, clientVars,
                 loopVars, connVars, relVars, ran>>

SRelWipe ==
  /\ SGoto("relWipe", "relRead")
  /\ slotSubmit' = [slotSubmit EXCEPT ![release] = 0]
  /\ slotRet' = [slotRet EXCEPT ![release] = NoResult]
  /\ UNCHANGED <<lockVars, stageVars, clientVars, loopVars, connVars,
                 relVars, ran>>

SRelRead ==
  /\ SGoto("relRead", "relWrite")
  /\ sMask' = slotMask
  /\ UNCHANGED <<lockVars, stageVars, slotVars, clientVars, loopVars,
                 connVars, release, ran>>

(* Faulty variant: the bit is not cleared *)
SRelWriteKeepsBit ==
  /\ SGoto("relWrite", "relUnlock")
  /\ slotMask' = sMask
  /\ sMask' = {}
  /\ UNCHANGED <<lock, connect, stageVars, slotVars, clientVars, loopVars,
                 connVars, release, ran>>

SRelWrite ==
  /\ SGoto("relWrite", "relUnlock")
  /\ slotMask' = sMask \ {release}
  /\ sMask' = {}
  /\ UNCHANGED <<lock, connect, stageVars, slotVars, clientVars, loopVars,
                 connVars, release, ran>>

(* Faulty variant: the release keeps the lock *)
SRelUnlockSkipped ==
  /\ SGoto("relUnlock", "conn")
  /\ release' = 0
  /\ UNCHANGED <<lockVars, stageVars, slotVars, clientVars,
                 loopVars, connVars, sMask, ran>>

SRelUnlock ==
  /\ SGoto("relUnlock", "conn")
  /\ DropLock
  /\ release' = 0
  /\ UNCHANGED <<slotMask, connect, stageVars, slotVars, clientVars,
                 loopVars, connVars, sMask, ran>>

ServerStep ==
  \/ SPollConnect \/ SAdd \/ SAck \/ SPollSubmit \/ SGetId \/ SGetSize
  \/ SCheck \/ SCopy \/ SUnstage \/ SBind \/ SExecCall \/ SExecGoodbye
  \/ SReply \/ SClear
  \/ SRelLock \/ SRelWipe \/ SRelRead \/ SRelWrite \/ SRelUnlock

-----------------------------------------------------------------------------
(* What a program does of its own accord, or suffers *)
ProgramStep(c) ==
  StartUp(c) \/ Call(c) \/ CallDropped(c) \/ Goodbye(c) \/ Crash(c)

Next ==
  \/ \E c \in Clients : ClientStep(c) \/ ProgramStep(c)
  \/ ServerStep

Spec == Init /\ [][Next]_vars

(* Both sides keep running once they wait for the other one; a program is  *)
(* free never to start, never to call and never to leave.                  *)
ClientFair(c) == WF_vars(ClientStep(c))
FairSpec ==
  /\ Spec
  /\ WF_vars(ServerStep)
  /\ \A c \in Clients : ClientFair(c)

-----------------------------------------------------------------------------
(* What the proofs and the runs use to talk about a state                  *)

LockPcs == {"claimRead", "claimWrite", "connTest", "connUnlock", "connWrite",
            "connDone", "subTest", "subUnlock", "subFlag", "subCopy", "subId",
            "subSize", "subGo", "subDone"}
ReleasePcs == {"relWipe", "relRead", "relWrite", "relUnlock"}
WaitPcs == {"subDone", "subWait"}
SubmitPcs == {"subLock", "subTest", "subUnlock", "subSpin", "subFlag",
              "subCopy", "subId", "subSize", "subGo"} \cup WaitPcs
Pcs == {"off", "claim", "connSpin", "connLock", "run", "dropped", "ret"}
         \cup LockPcs \cup SubmitPcs
LoopPcs == {"conn", "add", "ack", "poll", "getId", "getSize", "check", "copy",
            "unstage", "bind", "exec", "reply", "clear", "relLock"}
             \cup ReleasePcs

ClientHolds(c) == pc[c] \in LockPcs
ServerHolds == spc \in ReleasePcs

(* The client's latest buffer was run and its reply is on the way          *)
Served(c) == pc[c] \in WaitPcs /\ ran[c] = bit[c]

(* A slot belongs to a client from its claim until its goodbye is run      *)
Owns(c) == id[c] # 0 /\ ~(Served(c) /\ kind[c] = "goodbye")

(* Its latest buffer is in the staging area or in shared_exec, not yet run *)
InFlight(c) == pc[c] \in WaitPcs /\ ran[c] # bit[c]

-----------------------------------------------------------------------------
(* Every variable has its type: the registers hold slot numbers, words and  *)
(* flags, and the program counters name the lines of the two loops.        *)
SharedTypeOK ==
  /\ lock \in {0, 1} /\ slotMask \subseteq Slots /\ connect \in Slots \cup {0}
  /\ submit \in {0, 1} /\ stageId \in Slots \cup {0} /\ stageSize \in Nat
  /\ stage \in Batches \cup {Garbage}
  /\ slotSubmit \in [Slots -> {0, 1}]
  /\ slotRet \in [Slots -> Requests \cup {NoResult}]
ServerTypeOK ==
  /\ spc \in LoopPcs /\ sCreg \in Slots \cup {0} /\ sId \in Slots \cup {0}
  /\ sSize \in Nat /\ exec \in Batches \cup {Garbage}
  /\ sRet \in Requests \cup {NoResult}
  /\ conns \in [Slots -> Nat] /\ cur \in Slots \cup {0}
  /\ release \in Slots \cup {0} /\ sMask \subseteq Slots
  /\ ran \in [Clients -> {0, 1}]
ClientTypeOK ==
  /\ pc \in [Clients -> Pcs] /\ alive \in [Clients -> BOOLEAN]
  /\ id \in [Clients -> Slots \cup {0}] /\ kind \in [Clients -> Kinds]
  /\ bit \in [Clients -> {0, 1}] /\ size \in [Clients -> Nat]
  /\ cMask \in [Clients -> SUBSET Slots]
  /\ got \in [Clients -> Requests \cup {NoResult}]
TypeOK == SharedTypeOK /\ ServerTypeOK /\ ClientTypeOK

(* The lock word is 1 exactly while one process is between its successful  *)
(* compare-and-swap and its unlock, and at most one is: the clients' busy  *)
(* waits give the lock up and take it again, and the server takes it to    *)
(* release a slot.                                                         *)
LockMutex ==
  /\ lock = 1 <=> (ServerHolds \/ \E c \in Clients : ClientHolds(c))
  /\ \A c \in Clients : ClientHolds(c) => ~ServerHolds
  /\ \A c, d \in Clients : ClientHolds(c) /\ ClientHolds(d) => c = d

(* No two programs own one mailbox slot, whatever the order of claims,     *)
(* goodbyes and the server's later clearing of the mask bit; and an owned  *)
(* slot has its bit set.                                                   *)
SlotExclusive ==
  /\ \A c, d \in Clients :
       Owns(c) /\ Owns(d) /\ id[c] = id[d] => c = d
  /\ \A c \in Clients : Owns(c) => id[c] \in slotMask

(* The server has at most one connection (and GL context) for a slot, and  *)
(* none for a slot nobody claimed: "prevent the same client from           *)
(* connecting more than once", and no context outlives its slot.           *)
ConnectionsMatchSlots ==
  \A s \in Slots : /\ conns[s] <= 1
                   /\ conns[s] = 1 => s \in slotMask

(* A program that just claimed a slot finds nothing of an earlier owner in *)
(* it: no pending flag that would make it wait, no result it could take    *)
(* for its own.                                                            *)
ConnPcs == {"connTest", "connUnlock", "connSpin", "connLock", "connWrite"}
Fresh(c) ==
  \/ pc[c] \in ConnPcs \cup {"connDone"}
  \/ /\ kind[c] = "create"
     /\ pc[c] \in {"subLock", "subTest", "subUnlock", "subSpin", "subFlag"}
ClaimedSlotClean ==
  \A c \in Clients :
    Fresh(c) => slotSubmit[id[c]] = 0 /\ slotRet[id[c]] = NoResult

(* GL commands run in the context of the program that sent them, although  *)
(* the server reads CONNECT and SUBMIT at two different moments.           *)
CallsInOwnContext ==
  spc = "exec" /\ exec # Garbage /\ exec.req.kind # "create" => cur = exec.id

(* When the server has read the staging registers, they describe the words *)
(* of the staging area: one program's buffer, id and length, never a mix   *)
(* of two and never one that must be rejected or cut off.                  *)
StageConsistent ==
  spc \in {"check", "copy"} =>
    /\ Acceptable
    /\ stage # Garbage
    /\ sId = stage.id /\ sSize = stage.words

(* While SUBMIT is raised nobody changes what the server is about to copy. *)
StageFrozen ==
  [][submit = 1 => UNCHANGED <<stage, stageId, stageSize>>]_vars

-----------------------------------------------------------------------------
(* The transport implements RenderService: each accepted buffer is run     *)
(* exactly once, each call returns the value of its own buffer and not an  *)
(* earlier one or another program's, a dropped buffer yields the zero      *)
(* value.                                                                  *)
Phase(c) ==
  CASE ~alive[c] -> "dead"
    [] alive[c] /\ pc[c] = "run" -> "idle"
    [] alive[c] /\ pc[c] = "dropped" -> "refused"
    [] alive[c] /\ pc[c] \in SubmitPcs /\ ran[c] # bit[c] -> "asked"
    [] alive[c] /\ (pc[c] = "ret" \/ (pc[c] \in SubmitPcs /\ ran[c] = bit[c]))
         -> "done"
    [] OTHER -> "closed"

Service == INSTANCE RenderService WITH
             phase <- [c \in Clients |-> Phase(c)],
             req <- [c \in Clients |-> Request(c)]
ServiceSpec == Service!Spec

-----------------------------------------------------------------------------
(* Nobody stops but where the code waits: for the lock, for a flag of the  *)
(* other side or for its own caller.  In particular the server finds whole *)
(* commands in every buffer it runs.                                       *)
ServerWaits == spc = "relLock" /\ lock = 1
ClientWaits(c) ==
  \/ pc[c] \in {"off", "run"}
  \/ pc[c] \in {"claim", "connLock", "subLock"} /\ lock = 1
  \/ pc[c] = "connSpin" /\ connect # 0
  \/ pc[c] = "subSpin" /\ submit = 1
  \/ pc[c] = "subWait" /\ slotSubmit[id[c]] = 1
GoesOn(c) == alive[c] /\ ~ClientWaits(c) => ENABLED <<ClientStep(c)>>_vars
NeverStuck ==
  /\ ~ServerWaits => ENABLED <<ServerStep>>_vars
  /\ \A c \in Clients : GoesOn(c)

-----------------------------------------------------------------------------
(* Liveness, without crashes, under weak fairness of each process          *)

(* The lock is not fair: a program that is started again and again, finds  *)
(* no slot and exits takes the lock each time and may always be quicker.   *)
NobodyStarts == \A c \in Clients : alive[c] => pc[c] # "claim"
StartsCease == <>[]NobodyStarts

(* Unless programs keep being started, a published buffer is answered: the *)
(* server finds it, runs it and clears the flag its sender polls.          *)
PublishedIsAnswered ==
  StartsCease =>
    \A c \in Clients :
      pc[c] \in WaitPcs /\ kind[c] # "goodbye" ~> pc[c] \in {"ret", "run"}

(* Unless programs keep being started, an executed goodbye ends with its   *)
(* slot free again, although the release competes for the lock with        *)
(* everybody who wants to submit.                                          *)
GoodbyeFreesSlot ==
  StartsCease => \A s \in Slots : (release = s ~> s \notin slotMask)

(* Busy waiting never goes round without progress: unless programs keep    *)
(* being started, when somebody waits to submit, somebody's buffer is      *)
(* published, and the staging area becomes free again after each.          *)
SomeonePublishes ==
  StartsCease =>
    /\ (\E c \in Clients : pc[c] \in SubmitPcs \ WaitPcs) ~> submit = 1
    /\ submit = 1 ~> submit = 0

(* A program whose neighbours have become quiet gets through its claim,    *)
(* its calls and its goodbye.                                              *)
QuietMeansServed ==
  \A c \in Clients :
    <>[](\A d \in Clients \ {c} : pc[d] \in {"off", "run"})
      => (pc[c] # "off" ~> pc[c] \in {"run", "off"})

-----------------------------------------------------------------------------
(* Crashes                                                                 *)

LockStranded == \E c \in Clients : ~alive[c] /\ ClientHolds(c)

(* A killed program that did not hold the lock costs the others nothing:   *)
(* their buffers still get published and answered.                         *)
SurvivorsServed ==
  StartsCease /\ []~LockStranded =>
    \A c \in Clients :
      []alive[c] => /\ pc[c] \in SubmitPcs \ WaitPcs ~> submit = 1
                    /\ pc[c] \in WaitPcs /\ kind[c] # "goodbye"
                         ~> pc[c] \in {"ret", "run"}

(* The comment over wait_shm: the server makes sure that the client it     *)
(* waits for still exists, "in case it didn't notify the server of its     *)
(* exit".  So the connection of a program that is gone is given up.        *)
GoneClientDetected ==
  \A c \in Clients, s \in Slots :
    (~alive[c] /\ Owns(c) /\ id[c] = s /\ conns[s] > 0) ~> conns[s] = 0
=============================================================================
