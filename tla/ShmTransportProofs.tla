------------------------- MODULE ShmTransportProofs -------------------------
(***************************************************************************)
(* The mailbox slots, the lock and the staging area, for any set of        *)
(* programs and any number of slots.                                       *)
(*                                                                         *)
(* SlotIInv is inductive.  One lemma per part of it shows that every step  *)
(* preserves that part, from the other parts it needs; the steps that can  *)
(* disturb the part are cases of their own, the others leave what it speaks *)
(* of unchanged and are taken together.                                    *)
(***************************************************************************)
EXTENDS ShmTransportInv, TLAPS

(* No mailbox slot has the number 0, which stands for none.                *)
LEMMA SlotsNotZero == 0 \notin Slots
  BY DEF Slots

-----------------------------------------------------------------------------
(* What the processes write into the shared memory has its type. *)
LEMMA SharedTypeStep ==
  ASSUME SharedTypeOK, ServerTypeOK, ClientTypeOK, IdInv, Next
  PROVE  SharedTypeOK'
<1> USE DEF Goto, SGoto, TakeLock, DropLock, NewBatch, EndRound, lockVars,
            stageVars, slotVars, loopVars, connVars, relVars, serverVars,
            callVars, clientVars, SharedTypeOK, ServerTypeOK, ClientTypeOK,
            IdInv, Batches, Requests, Request, Batch, FreeSlots, NoSlotPcs,
            Acceptable
<1>1. ASSUME NEW c \in Clients, ClientStep(c) \/ ProgramStep(c)
      PROVE  SharedTypeOK'
  <2>1. CASE ClaimWrite(c)
    BY <2>1 DEF ClaimWrite
  <2>2. CASE ConnWrite(c)
    BY <2>2 DEF ConnWrite
  <2>3. CASE SubCopy(c)
    BY <2>3 DEF SubCopy
  <2>4. CASE CallDropped(c)
    BY <2>4 DEF CallDropped
  <2>. QED
    BY <1>1, <2>1, <2>2, <2>3, <2>4
    DEF ClientStep, ProgramStep, ClaimLock, ClaimRead, ClaimFull, ConnTest,
        ConnUnlock, ConnSpin, ConnLock, ConnDone, SubLock, SubTest, SubUnlock,
        SubSpin, SubFlag, SubId, SubSize, SubGo, SubDone, Answered, Left,
        Return, StartUp, Call, Goodbye, Crash
<1>2. CASE ServerStep
  <2>1. CASE SCheck
    BY <2>1 DEF SCheck
  <2>2. CASE SReply
    BY <2>2 DEF SReply
  <2>3. CASE SRelWrite
    BY <2>3 DEF SRelWrite
  <2>. QED
    BY <1>2, <2>1, <2>2, <2>3
    DEF ServerStep, SPollConnect, SAdd, SAck, SPollSubmit, SGetId, SGetSize,
        SCopy, SUnstage, SBind, SExecCall, SExecGoodbye, SClear, SRelLock,
        SRelWipe, SRelRead, SRelUnlock
<1>. QED
  BY <1>1, <1>2 DEF Next

(* What the server keeps has its type. *)
LEMMA ServerTypeStep ==
  ASSUME SharedTypeOK, ServerTypeOK, Next
  PROVE  ServerTypeOK'
<1> USE SlotsNotZero
<1> USE DEF Goto, SGoto, TakeLock, DropLock, NewBatch, EndRound, lockVars,
            stageVars, slotVars, loopVars, connVars, relVars, serverVars,
            callVars, clientVars, ServerTypeOK, SharedTypeOK, Batches,
            Requests, LoopPcs, ReleasePcs
<1>1. ASSUME NEW c \in Clients, ClientStep(c) \/ ProgramStep(c)
      PROVE  ServerTypeOK'
  <2>. QED
    BY <1>1
    DEF ClientStep, ProgramStep, ClaimLock, ClaimRead, ClaimWrite, ClaimFull,
        ConnTest, ConnUnlock, ConnSpin, ConnLock, ConnWrite, ConnDone,
        SubLock, SubTest, SubUnlock, SubSpin, SubFlag, SubCopy, SubId,
        SubSize, SubGo, SubDone, Answered, Left, Return, StartUp, Call,
        CallDropped, Goodbye, Crash
<1>2. CASE ServerStep
  <2>1. CASE SAdd
    <3>1. CASE sCreg \in Slots
      BY <2>1, <3>1 DEF SAdd
    <3>2. CASE sCreg = 0
      BY <2>1, <3>2 DEF SAdd
    <3>. QED
      BY <3>1, <3>2
  <2>2. CASE SCopy
    BY <2>2 DEF SCopy
  <2>3. CASE SExecCall
    BY <2>3 DEF SExecCall
  <2>4. CASE SExecGoodbye
    BY <2>4 DEF SExecGoodbye
  <2>. QED
    BY <1>2, <2>1, <2>2, <2>3, <2>4
    DEF ServerStep, SPollConnect, SAck, SPollSubmit, SGetId, SGetSize, SCheck,
        SUnstage, SBind, SReply, SClear, SRelLock, SRelWipe, SRelRead,
        SRelWrite, SRelUnlock
<1>. QED
  BY <1>1, <1>2 DEF Next

(* What the clients keep has its type: a result is read from a slot. *)
LEMMA ClientTypeStep ==
  ASSUME SharedTypeOK, ClientTypeOK, IdInv, Next
  PROVE  ClientTypeOK'
<1> USE SlotsNotZero, CallAssumption
<1> USE DEF Goto, SGoto, TakeLock, DropLock, NewBatch, EndRound, lockVars,
            stageVars, slotVars, loopVars, connVars, relVars, serverVars,
            callVars, clientVars, ClientTypeOK, SharedTypeOK, IdInv, Pcs,
            LockPcs, SubmitPcs, WaitPcs, Kinds, FreeSlots, NoSlotPcs
<1>1. ASSUME NEW c \in Clients, ClientStep(c) \/ ProgramStep(c)
      PROVE  ClientTypeOK'
  <2>1. CASE ClaimRead(c)
    BY <2>1 DEF ClaimRead
  <2>2. CASE ClaimWrite(c)
    BY <2>2 DEF ClaimWrite
  <2>3. CASE ConnDone(c)
    BY <2>3 DEF ConnDone
  <2>4. CASE Left(c)
    BY <2>4 DEF Left
  <2>5. CASE Return(c)
    BY <2>5 DEF Return
  <2>6. CASE Call(c)
    BY <2>6 DEF Call
  <2>7. CASE CallDropped(c)
    BY <2>7 DEF CallDropped
  <2>8. CASE Goodbye(c)
    BY <2>8 DEF Goodbye
  <2>9. CASE Crash(c)
    BY <2>9 DEF Crash
  <2>. QED
    BY <1>1, <2>1, <2>2, <2>3, <2>4, <2>5, <2>6, <2>7, <2>8, <2>9
    DEF ClientStep, ProgramStep, ClaimLock, ClaimFull, ConnTest, ConnUnlock,
        ConnSpin, ConnLock, ConnWrite, SubLock, SubTest, SubUnlock, SubSpin,
        SubFlag, SubCopy, SubId, SubSize, SubGo, SubDone, Answered, StartUp
<1>2. CASE ServerStep
  <2>. QED
    BY <1>2
    DEF ServerStep, SPollConnect, SAdd, SAck, SPollSubmit, SGetId, SGetSize,
        SCheck, SCopy, SUnstage, SBind, SExecCall, SExecGoodbye, SReply,
        SClear, SRelLock, SRelWipe, SRelRead, SRelWrite, SRelUnlock
<1>. QED
  BY <1>1, <1>2 DEF Next

(* A program counter in the claim goes with the slot number 0. *)
LEMMA IdStep ==
  ASSUME ClientTypeOK, IdInv, Next
  PROVE  IdInv'
<1> USE SlotsNotZero
<1> USE DEF Goto, SGoto, TakeLock, DropLock, NewBatch, EndRound, lockVars,
            stageVars, slotVars, loopVars, connVars, relVars, serverVars,
            callVars, clientVars, IdInv, ClientTypeOK, NoSlotPcs, FreeSlots
<1>1. ASSUME NEW c \in Clients, ClientStep(c) \/ ProgramStep(c)
      PROVE  IdInv'
  <2>1. CASE ClaimWrite(c)
    BY <2>1 DEF ClaimWrite
  <2>2. CASE ClaimFull(c)
    BY <2>2 DEF ClaimFull
  <2>3. CASE Left(c)
    BY <2>3 DEF Left
  <2>. QED
    BY <1>1, <2>1, <2>2, <2>3
    DEF ClientStep, ProgramStep, ClaimLock, ClaimRead, ConnTest, ConnUnlock,
        ConnSpin, ConnLock, ConnWrite, ConnDone, SubLock, SubTest, SubUnlock,
        SubSpin, SubFlag, SubCopy, SubId, SubSize, SubGo, SubDone, Answered,
        Return, StartUp, Call, CallDropped, Goodbye, Crash
<1>2. CASE ServerStep
  <2>. QED
    BY <1>2
    DEF ServerStep, SPollConnect, SAdd, SAck, SPollSubmit, SGetId, SGetSize,
        SCheck, SCopy, SUnstage, SBind, SExecCall, SExecGoodbye, SReply,
        SClear, SRelLock, SRelWipe, SRelRead, SRelWrite, SRelUnlock
<1>. QED
  BY <1>1, <1>2 DEF Next

(* The lock word: each compare-and-swap needs it at 0, so that nobody holds the
   lock; each unlock is made by the only holder. *)
LEMMA LockStep ==
  ASSUME ClientTypeOK, SharedTypeOK, LockMutex, Next
  PROVE  LockMutex'
<1> USE DEF Goto, SGoto, TakeLock, DropLock, NewBatch, EndRound, lockVars,
            stageVars, slotVars, loopVars, connVars, relVars, serverVars,
            callVars, clientVars, LockMutex, ClientTypeOK, SharedTypeOK,
            ClientHolds, ServerHolds, LockPcs, ReleasePcs
<1>1. ASSUME NEW c \in Clients, ClientStep(c) \/ ProgramStep(c)
      PROVE  LockMutex'
  <2>1. CASE ClaimLock(c)
    BY <2>1 DEF ClaimLock
  <2>2. CASE ClaimFull(c)
    BY <2>2 DEF ClaimFull
  <2>3. CASE ConnUnlock(c)
    BY <2>3 DEF ConnUnlock
  <2>4. CASE ConnLock(c)
    BY <2>4 DEF ConnLock
  <2>5. CASE ConnDone(c)
    BY <2>5 DEF ConnDone
  <2>6. CASE SubLock(c)
    BY <2>6 DEF SubLock
  <2>7. CASE SubUnlock(c)
    BY <2>7 DEF SubUnlock
  <2>8. CASE SubDone(c)
    BY <2>8 DEF SubDone
  <2>. QED
    BY <1>1, <2>1, <2>2, <2>3, <2>4, <2>5, <2>6, <2>7, <2>8
    DEF ClientStep, ProgramStep, ClaimRead, ClaimWrite, ConnTest, ConnSpin,
        ConnWrite, SubTest, SubSpin, SubFlag, SubCopy, SubId, SubSize, SubGo,
        Answered, Left, Return, StartUp, Call, CallDropped, Goodbye, Crash
<1>2. CASE ServerStep
  <2>1. CASE SRelLock
    BY <2>1 DEF SRelLock
  <2>2. CASE SRelUnlock
    BY <2>2 DEF SRelUnlock
  <2>. QED
    BY <1>2, <2>1, <2>2
    DEF ServerStep, SPollConnect, SAdd, SAck, SPollSubmit, SGetId, SGetSize,
        SCheck, SCopy, SUnstage, SBind, SExecCall, SExecGoodbye, SReply,
        SClear, SRelWipe, SRelRead, SRelWrite
<1>. QED
  BY <1>1, <1>2 DEF Next

(* The history bit follows the buffers: only the run of a buffer in flight
   changes it, and a client waits until its flag is down. *)
LEMMA RanStep ==
  ASSUME ClientTypeOK, ServerTypeOK, RanInv, TakenInv, FlagInv, IdInv, Next
  PROVE  RanInv'
<1> USE SlotsNotZero
<1> USE DEF Goto, SGoto, TakeLock, DropLock, NewBatch, EndRound, lockVars,
            stageVars, slotVars, loopVars, connVars, relVars, serverVars,
            callVars, clientVars, RanInv, ClientTypeOK, ServerTypeOK,
            TakenInv, FlagInv, IdInv, SubmitPcs, WaitPcs, InFlight,
            StagingPcs, TakenPcs, Batches, Requests, Batch, Request
<1>1. ASSUME NEW c \in Clients, ClientStep(c) \/ ProgramStep(c)
      PROVE  RanInv'
  <2>1. CASE ConnDone(c)
    BY <2>1 DEF ConnDone
  <2>2. CASE Answered(c)
    BY <2>2 DEF Answered
  <2>3. CASE Left(c)
    BY <2>3 DEF Left
  <2>4. CASE Call(c)
    BY <2>4 DEF Call
  <2>5. CASE Goodbye(c)
    BY <2>5 DEF Goodbye
  <2>. QED
    BY <1>1, <2>1, <2>2, <2>3, <2>4, <2>5
    DEF ClientStep, ProgramStep, ClaimLock, ClaimRead, ClaimWrite, ClaimFull,
        ConnTest, ConnUnlock, ConnSpin, ConnLock, ConnWrite, SubLock, SubTest,
        SubUnlock, SubSpin, SubFlag, SubCopy, SubId, SubSize, SubGo, SubDone,
        Return, StartUp, CallDropped, Crash
<1>2. CASE ServerStep
  <2>1. CASE SExecCall
    BY <2>1 DEF SExecCall
  <2>2. CASE SExecGoodbye
    BY <2>2 DEF SExecGoodbye
  <2>. QED
    BY <1>2, <2>1, <2>2
    DEF ServerStep, SPollConnect, SAdd, SAck, SPollSubmit, SGetId, SGetSize,
        SCheck, SCopy, SUnstage, SBind, SReply, SClear, SRelLock, SRelWipe,
        SRelRead, SRelWrite, SRelUnlock
<1>. QED
  BY <1>1, <1>2 DEF Next

(* Only a holder of the lock writes the mask, so a copy made under the lock
   stays up to date. *)
LEMMA MaskStep ==
  ASSUME ClientTypeOK, MaskInv, LockMutex, Next
  PROVE  MaskInv'
<1> USE DEF Goto, SGoto, TakeLock, DropLock, NewBatch, EndRound, lockVars,
            stageVars, slotVars, loopVars, connVars, relVars, serverVars,
            callVars, clientVars, MaskInv, ClientTypeOK, LockMutex,
            ClientHolds, ServerHolds, LockPcs, ReleasePcs
<1>1. ASSUME NEW c \in Clients, ClientStep(c) \/ ProgramStep(c)
      PROVE  MaskInv'
  <2>1. CASE ClaimRead(c)
    BY <2>1 DEF ClaimRead
  <2>2. CASE ClaimWrite(c)
    BY <2>2 DEF ClaimWrite
  <2>. QED
    BY <1>1, <2>1, <2>2
    DEF ClientStep, ProgramStep, ClaimLock, ClaimFull, ConnTest, ConnUnlock,
        ConnSpin, ConnLock, ConnWrite, ConnDone, SubLock, SubTest, SubUnlock,
        SubSpin, SubFlag, SubCopy, SubId, SubSize, SubGo, SubDone, Answered,
        Left, Return, StartUp, Call, CallDropped, Goodbye, Crash
<1>2. CASE ServerStep
  <2>1. CASE SRelRead
    BY <2>1 DEF SRelRead
  <2>2. CASE SRelWrite
    BY <2>2 DEF SRelWrite
  <2>. QED
    BY <1>2, <2>1, <2>2
    DEF ServerStep, SPollConnect, SAdd, SAck, SPollSubmit, SGetId, SGetSize,
        SCheck, SCopy, SUnstage, SBind, SExecCall, SExecGoodbye, SReply,
        SClear, SRelLock, SRelWipe, SRelUnlock
<1>. QED
  BY <1>1, <1>2 DEF Next

(* The server lowers only the flag of the buffer it has run, or of a slot
   nobody owns. *)
LEMMA FlagStep ==
  ASSUME ClientTypeOK, SharedTypeOK, ServerTypeOK, FlagInv, IdInv, TakenInv,
         SizeInv, ReleaseInv, SlotExclusive, StageInv, Next
  PROVE  FlagInv'
<1> USE SlotsNotZero
<1> USE DEF Goto, SGoto, TakeLock, DropLock, NewBatch, EndRound, lockVars,
            stageVars, slotVars, loopVars, connVars, relVars, serverVars,
            callVars, clientVars, FlagInv, ClientTypeOK, SharedTypeOK,
            ServerTypeOK, IdInv, TakenInv, SizeInv, ReleaseInv, SlotExclusive,
            StageInv, InFlight, Owns, Served, WaitPcs, SubmitPcs, StagingPcs,
            NoSlotPcs, TakenPcs, AnswerPcs, Batch, Request, Batches, Requests,
            Acceptable
<1>1. ASSUME NEW c \in Clients, ClientStep(c) \/ ProgramStep(c)
      PROVE  FlagInv'
  <2>1. CASE SubFlag(c)
    BY <2>1 DEF SubFlag
  <2>2. CASE SubGo(c)
    BY <2>2 DEF SubGo
  <2>3. CASE ClaimLock(c)
    BY <2>3 DEF ClaimLock
  <2>4. CASE ClaimRead(c)
    BY <2>4 DEF ClaimRead
  <2>5. CASE ClaimWrite(c)
    BY <2>5 DEF ClaimWrite
  <2>6. CASE ClaimFull(c)
    BY <2>6 DEF ClaimFull
  <2>7. CASE ConnTest(c)
    BY <2>7 DEF ConnTest
  <2>8. CASE ConnUnlock(c)
    BY <2>8 DEF ConnUnlock
  <2>9. CASE ConnSpin(c)
    BY <2>9 DEF ConnSpin
  <2>10. CASE ConnLock(c)
    BY <2>10 DEF ConnLock
  <2>11. CASE ConnWrite(c)
    BY <2>11 DEF ConnWrite
  <2>12. CASE ConnDone(c)
    BY <2>12 DEF ConnDone
  <2>13. CASE SubLock(c)
    BY <2>13 DEF SubLock
  <2>14. CASE SubTest(c)
    BY <2>14 DEF SubTest
  <2>15. CASE SubUnlock(c)
    BY <2>15 DEF SubUnlock
  <2>16. CASE SubSpin(c)
    BY <2>16 DEF SubSpin
  <2>17. CASE SubCopy(c)
    BY <2>17 DEF SubCopy
  <2>18. CASE SubId(c)
    BY <2>18 DEF SubId
  <2>19. CASE SubSize(c)
    BY <2>19 DEF SubSize
  <2>20. CASE SubDone(c)
    BY <2>20 DEF SubDone
  <2>21. CASE Answered(c)
    BY <2>21 DEF Answered
  <2>22. CASE Left(c)
    BY <2>22 DEF Left
  <2>23. CASE Return(c)
    BY <2>23 DEF Return
  <2>24. CASE StartUp(c)
    BY <2>24 DEF StartUp
  <2>25. CASE Call(c)
    BY <2>25 DEF Call
  <2>26. CASE CallDropped(c)
    BY <2>26 DEF CallDropped
  <2>27. CASE Goodbye(c)
    BY <2>27 DEF Goodbye
  <2>28. CASE Crash(c)
    BY <2>28 DEF Crash
  <2>. QED
    BY <1>1, <2>1, <2>2, <2>3, <2>4, <2>5, <2>6, <2>7, <2>8, <2>9, <2>10,
       <2>11, <2>12, <2>13, <2>14, <2>15, <2>16, <2>17, <2>18, <2>19, <2>20,
       <2>21, <2>22, <2>23, <2>24, <2>25, <2>26, <2>27, <2>28
    DEF ClientStep, ProgramStep
<1>2. CASE ServerStep
  <2>1. CASE SCheck
    BY <2>1 DEF SCheck
  <2>2. CASE SExecCall
    BY <2>2 DEF SExecCall
  <2>3. CASE SExecGoodbye
    BY <2>3 DEF SExecGoodbye
  <2>4. CASE SClear
    BY <2>4 DEF SClear
  <2>5. CASE SRelWipe
    BY <2>5 DEF SRelWipe
  <2>. QED
    BY <1>2, <2>1, <2>2, <2>3, <2>4, <2>5
    DEF ServerStep, SPollConnect, SAdd, SAck, SPollSubmit, SGetId, SGetSize,
        SCopy, SUnstage, SBind, SReply, SRelLock, SRelRead, SRelWrite,
        SRelUnlock
<1>. QED
  BY <1>1, <1>2 DEF Next

(* The staging area is written under the lock while SUBMIT is down, and its
   owner waits for the answer. *)
LEMMA StageStep ==
  ASSUME ClientTypeOK, SharedTypeOK, StageInv, LockMutex, FlagInv, RanInv,
         TakenInv, IdInv, Next
  PROVE  StageInv'
<1> USE SlotsNotZero
<1> USE DEF Goto, SGoto, TakeLock, DropLock, NewBatch, EndRound, lockVars,
            stageVars, slotVars, loopVars, connVars, relVars, serverVars,
            callVars, clientVars, StageInv, ClientTypeOK, SharedTypeOK,
            LockMutex, FlagInv, RanInv, TakenInv, IdInv, InFlight, WaitPcs,
            SubmitPcs, StagingPcs, NoSlotPcs, TakenPcs, Batch, Request,
            Batches, Requests, ClientHolds, LockPcs
<1>1. ASSUME NEW c \in Clients, ClientStep(c) \/ ProgramStep(c)
      PROVE  StageInv'
  <2>1. CASE SubTest(c)
    BY <2>1 DEF SubTest
  <2>2. CASE SubFlag(c)
    BY <2>2 DEF SubFlag
  <2>3. CASE SubCopy(c)
    BY <2>3 DEF SubCopy
  <2>4. CASE SubGo(c)
    BY <2>4 DEF SubGo
  <2>5. CASE Answered(c)
    BY <2>5 DEF Answered
  <2>6. CASE Left(c)
    BY <2>6 DEF Left
  <2>7. CASE ClaimLock(c)
    BY <2>7 DEF ClaimLock
  <2>8. CASE ClaimRead(c)
    BY <2>8 DEF ClaimRead
  <2>9. CASE ClaimWrite(c)
    BY <2>9 DEF ClaimWrite
  <2>10. CASE ClaimFull(c)
    BY <2>10 DEF ClaimFull
  <2>11. CASE ConnTest(c)
    BY <2>11 DEF ConnTest
  <2>12. CASE ConnUnlock(c)
    BY <2>12 DEF ConnUnlock
  <2>13. CASE ConnSpin(c)
    BY <2>13 DEF ConnSpin
  <2>14. CASE ConnLock(c)
    BY <2>14 DEF ConnLock
  <2>15. CASE ConnWrite(c)
    BY <2>15 DEF ConnWrite
  <2>16. CASE ConnDone(c)
    BY <2>16 DEF ConnDone
  <2>17. CASE SubLock(c)
    BY <2>17 DEF SubLock
  <2>18. CASE SubUnlock(c)
    BY <2>18 DEF SubUnlock
  <2>19. CASE SubSpin(c)
    BY <2>19 DEF SubSpin
  <2>20. CASE SubId(c)
    BY <2>20 DEF SubId
  <2>21. CASE SubSize(c)
    BY <2>21 DEF SubSize
  <2>22. CASE SubDone(c)
    BY <2>22 DEF SubDone
  <2>23. CASE Return(c)
    BY <2>23 DEF Return
  <2>24. CASE StartUp(c)
    BY <2>24 DEF StartUp
  <2>25. CASE Call(c)
    BY <2>25 DEF Call
  <2>26. CASE CallDropped(c)
    BY <2>26 DEF CallDropped
  <2>27. CASE Goodbye(c)
    BY <2>27 DEF Goodbye
  <2>28. CASE Crash(c)
    BY <2>28 DEF Crash
  <2>. QED
    BY <1>1, <2>1, <2>2, <2>3, <2>4, <2>5, <2>6, <2>7, <2>8, <2>9, <2>10,
       <2>11, <2>12, <2>13, <2>14, <2>15, <2>16, <2>17, <2>18, <2>19, <2>20,
       <2>21, <2>22, <2>23, <2>24, <2>25, <2>26, <2>27, <2>28
    DEF ClientStep, ProgramStep
<1>2. CASE ServerStep
  <2>1. CASE SCheck
    BY <2>1 DEF SCheck
  <2>2. CASE SUnstage
    BY <2>2 DEF SUnstage
  <2>3. CASE SExecCall
    BY <2>3 DEF SExecCall
  <2>4. CASE SExecGoodbye
    BY <2>4 DEF SExecGoodbye
  <2>. QED
    BY <1>2, <2>1, <2>2, <2>3, <2>4
    DEF ServerStep, SPollConnect, SAdd, SAck, SPollSubmit, SGetId, SGetSize,
        SCopy, SBind, SReply, SClear, SRelLock, SRelWipe, SRelRead, SRelWrite,
        SRelUnlock
<1>. QED
  BY <1>1, <1>2 DEF Next

(* The server takes the staged buffer whole, and its owner waits until the
   server lowers the flag. *)
LEMMA TakenStep ==
  ASSUME ClientTypeOK, SharedTypeOK, ServerTypeOK, StageInv, TakenInv,
         FlagInv, IdInv, RanInv, SizeInv, Next
  PROVE  TakenInv'
<1> USE SlotsNotZero
<1> USE DEF Goto, SGoto, TakeLock, DropLock, NewBatch, EndRound, lockVars,
            stageVars, slotVars, loopVars, connVars, relVars, serverVars,
            callVars, clientVars, TakenInv, ClientTypeOK, SharedTypeOK,
            ServerTypeOK, StageInv, FlagInv, IdInv, RanInv, SizeInv, InFlight,
            Served, WaitPcs, SubmitPcs, StagingPcs, NoSlotPcs, TakenPcs,
            AnswerPcs, Batch, Request, Batches, Requests
<1>1. ASSUME NEW c \in Clients, ClientStep(c) \/ ProgramStep(c)
      PROVE  TakenInv'
  <2>1. CASE SubCopy(c)
    BY <2>1 DEF SubCopy
  <2>2. CASE SubGo(c)
    BY <2>2 DEF SubGo
  <2>3. CASE Answered(c)
    BY <2>3 DEF Answered
  <2>4. CASE Left(c)
    BY <2>4 DEF Left
  <2>5. CASE ClaimLock(c)
    BY <2>5 DEF ClaimLock
  <2>6. CASE ClaimRead(c)
    BY <2>6 DEF ClaimRead
  <2>7. CASE ClaimWrite(c)
    BY <2>7 DEF ClaimWrite
  <2>8. CASE ClaimFull(c)
    BY <2>8 DEF ClaimFull
  <2>9. CASE ConnTest(c)
    BY <2>9 DEF ConnTest
  <2>10. CASE ConnUnlock(c)
    BY <2>10 DEF ConnUnlock
  <2>11. CASE ConnSpin(c)
    BY <2>11 DEF ConnSpin
  <2>12. CASE ConnLock(c)
    BY <2>12 DEF ConnLock
  <2>13. CASE ConnWrite(c)
    BY <2>13 DEF ConnWrite
  <2>14. CASE ConnDone(c)
    BY <2>14 DEF ConnDone
  <2>15. CASE SubLock(c)
    BY <2>15 DEF SubLock
  <2>16. CASE SubTest(c)
    BY <2>16 DEF SubTest
  <2>17. CASE SubUnlock(c)
    BY <2>17 DEF SubUnlock
  <2>18. CASE SubSpin(c)
    BY <2>18 DEF SubSpin
  <2>19. CASE SubFlag(c)
    BY <2>19 DEF SubFlag
  <2>20. CASE SubId(c)
    BY <2>20 DEF SubId
  <2>21. CASE SubSize(c)
    BY <2>21 DEF SubSize
  <2>22. CASE SubDone(c)
    BY <2>22 DEF SubDone
  <2>23. CASE Return(c)
    BY <2>23 DEF Return
  <2>24. CASE StartUp(c)
    BY <2>24 DEF StartUp
  <2>25. CASE Call(c)
    BY <2>25 DEF Call
  <2>26. CASE CallDropped(c)
    BY <2>26 DEF CallDropped
  <2>27. CASE Goodbye(c)
    BY <2>27 DEF Goodbye
  <2>28. CASE Crash(c)
    BY <2>28 DEF Crash
  <2>. QED
    BY <1>1, <2>1, <2>2, <2>3, <2>4, <2>5, <2>6, <2>7, <2>8, <2>9, <2>10,
       <2>11, <2>12, <2>13, <2>14, <2>15, <2>16, <2>17, <2>18, <2>19, <2>20,
       <2>21, <2>22, <2>23, <2>24, <2>25, <2>26, <2>27, <2>28
    DEF ClientStep, ProgramStep
<1>2. CASE ServerStep
  <2>1. CASE SPollSubmit
    BY <2>1 DEF SPollSubmit
  <2>2. CASE SCheck
    BY <2>2 DEF SCheck
  <2>3. CASE SCopy
    BY <2>3 DEF SCopy
  <2>4. CASE SUnstage
    BY <2>4 DEF SUnstage
  <2>5. CASE SExecCall
    BY <2>5 DEF SExecCall
  <2>6. CASE SExecGoodbye
    BY <2>6 DEF SExecGoodbye
  <2>7. CASE SReply
    BY <2>7 DEF SReply
  <2>8. CASE SClear
    BY <2>8 DEF SClear
  <2>9. CASE SPollConnect
    BY <2>9 DEF SPollConnect
  <2>10. CASE SAdd
    BY <2>10 DEF SAdd
  <2>11. CASE SAck
    BY <2>11 DEF SAck
  <2>12. CASE SGetId
    BY <2>12 DEF SGetId
  <2>13. CASE SGetSize
    BY <2>13 DEF SGetSize
  <2>14. CASE SBind
    BY <2>14 DEF SBind
  <2>15. CASE SRelLock
    BY <2>15 DEF SRelLock
  <2>16. CASE SRelWipe
    BY <2>16 DEF SRelWipe
  <2>17. CASE SRelRead
    BY <2>17 DEF SRelRead
  <2>18. CASE SRelWrite
    BY <2>18 DEF SRelWrite
  <2>19. CASE SRelUnlock
    BY <2>19 DEF SRelUnlock
  <2>. QED
    BY <1>2, <2>1, <2>2, <2>3, <2>4, <2>5, <2>6, <2>7, <2>8, <2>9, <2>10,
       <2>11, <2>12, <2>13, <2>14, <2>15, <2>16, <2>17, <2>18, <2>19
    DEF ServerStep
<1>. QED
  BY <1>1, <1>2 DEF Next

(* The staging registers describe the staged buffer. *)
LEMMA SizeStep ==
  ASSUME ClientTypeOK, SharedTypeOK, ServerTypeOK, SizeInv, StageInv,
         TakenInv, Next
  PROVE  SizeInv'
<1> USE FifoAssumption
<1> USE DEF Goto, SGoto, TakeLock, DropLock, NewBatch, EndRound, lockVars,
            stageVars, slotVars, loopVars, connVars, relVars, serverVars,
            callVars, clientVars, SizeInv, ClientTypeOK, SharedTypeOK,
            ServerTypeOK, StageInv, TakenInv, InFlight, WaitPcs, SubmitPcs,
            StagingPcs, TakenPcs, AnswerPcs, Batch, Request, Batches,
            Requests, Acceptable
<1>1. ASSUME NEW c \in Clients, ClientStep(c) \/ ProgramStep(c)
      PROVE  SizeInv'
  <2>1. CASE ConnDone(c)
    BY <2>1 DEF ConnDone
  <2>2. CASE SubCopy(c)
    BY <2>2 DEF SubCopy
  <2>3. CASE SubId(c)
    BY <2>3 DEF SubId
  <2>4. CASE SubSize(c)
    BY <2>4 DEF SubSize
  <2>5. CASE SubGo(c)
    BY <2>5 DEF SubGo
  <2>6. CASE Call(c)
    BY <2>6 DEF Call
  <2>7. CASE Goodbye(c)
    BY <2>7 DEF Goodbye
  <2>8. CASE ClaimLock(c) \/ ClaimRead(c) \/ ClaimWrite(c) \/ ClaimFull(c)
    BY <2>8 DEF ClaimLock, ClaimRead, ClaimWrite, ClaimFull
  <2>9. CASE ConnTest(c) \/ ConnUnlock(c) \/ ConnSpin(c) \/ ConnLock(c) \/ ConnWrite(c)
    BY <2>9 DEF ConnTest, ConnUnlock, ConnSpin, ConnLock, ConnWrite
  <2>10. CASE SubLock(c) \/ SubTest(c) \/ SubUnlock(c) \/ SubSpin(c)
    BY <2>10 DEF SubLock, SubTest, SubUnlock, SubSpin
  <2>11. CASE SubFlag(c) \/ SubDone(c) \/ Answered(c) \/ Left(c) \/ Return(c)
    BY <2>11 DEF SubFlag, SubDone, Answered, Left, Return
  <2>12. CASE StartUp(c) \/ CallDropped(c) \/ Crash(c)
    BY <2>12 DEF StartUp, CallDropped, Crash
  <2>. QED
    BY <1>1, <2>1, <2>2, <2>3, <2>4, <2>5, <2>6, <2>7, <2>8, <2>9, <2>10, <2>11, <2>12
    DEF ClientStep, ProgramStep
<1>2. CASE ServerStep
  <2>1. CASE SGetId
    BY <2>1 DEF SGetId
  <2>2. CASE SGetSize
    BY <2>2 DEF SGetSize
  <2>3. CASE SCheck
    BY <2>3 DEF SCheck
  <2>4. CASE SCopy
    BY <2>4 DEF SCopy
  <2>5. CASE SUnstage
    BY <2>5 DEF SUnstage
  <2>6. CASE SExecCall
    BY <2>6 DEF SExecCall
  <2>7. CASE SExecGoodbye
    BY <2>7 DEF SExecGoodbye
  <2>. QED
    BY <1>2, <2>1, <2>2, <2>3, <2>4, <2>5, <2>6, <2>7
    DEF ServerStep, SPollConnect, SAdd, SAck, SPollSubmit, SBind, SReply,
        SClear, SRelLock, SRelWipe, SRelRead, SRelWrite, SRelUnlock
<1>. QED
  BY <1>1, <1>2 DEF Next

(* The slot of an executed goodbye has lost its owner, and cannot be claimed
   before its bit is cleared. *)
LEMMA ReleaseStep ==
  ASSUME ClientTypeOK, ServerTypeOK, SharedTypeOK, ReleaseInv, SlotExclusive,
         MaskInv, TakenInv, LockMutex, Next
  PROVE  ReleaseInv'
<1> USE SlotsNotZero
<1> USE DEF Goto, SGoto, TakeLock, DropLock, NewBatch, EndRound, lockVars,
            stageVars, slotVars, loopVars, connVars, relVars, serverVars,
            callVars, clientVars, ReleaseInv, ClientTypeOK, ServerTypeOK,
            SharedTypeOK, SlotExclusive, MaskInv, TakenInv, LockMutex, Owns,
            Served, InFlight, WaitPcs, TakenPcs, AnswerPcs, ReleasePcs,
            LockPcs, ClientHolds, ServerHolds, FreeSlots, Batch, Request,
            Batches, Requests
<1>1. ASSUME NEW c \in Clients, ClientStep(c) \/ ProgramStep(c)
      PROVE  ReleaseInv'
  <2>1. CASE ClaimWrite(c)
    BY <2>1 DEF ClaimWrite
  <2>2. CASE SubDone(c)
    BY <2>2 DEF SubDone
  <2>. QED
    BY <1>1, <2>1, <2>2
    DEF ClientStep, ProgramStep, ClaimLock, ClaimRead, ClaimFull, ConnTest,
        ConnUnlock, ConnSpin, ConnLock, ConnWrite, ConnDone, SubLock, SubTest,
        SubUnlock, SubSpin, SubFlag, SubCopy, SubId, SubSize, SubGo, Answered,
        Left, Return, StartUp, Call, CallDropped, Goodbye, Crash
<1>2. CASE ServerStep
  <2>1. CASE SExecCall
    BY <2>1 DEF SExecCall
  <2>2. CASE SExecGoodbye
    BY <2>2 DEF SExecGoodbye
  <2>3. CASE SClear
    BY <2>3 DEF SClear
  <2>4. CASE SRelWrite
    BY <2>4 DEF SRelWrite
  <2>5. CASE SRelUnlock
    BY <2>5 DEF SRelUnlock
  <2>. QED
    BY <1>2, <2>1, <2>2, <2>3, <2>4, <2>5
    DEF ServerStep, SPollConnect, SAdd, SAck, SPollSubmit, SGetId, SGetSize,
        SCheck, SCopy, SUnstage, SBind, SReply, SRelLock, SRelWipe, SRelRead
<1>. QED
  BY <1>1, <1>2 DEF Next

(* A slot is claimed under the lock when its bit is clear, hence when nobody
   owns it; the server clears the bit of a slot without owner only. *)
LEMMA SlotStep ==
  ASSUME ClientTypeOK, ServerTypeOK, SharedTypeOK, SlotExclusive, MaskInv,
         ReleaseInv, IdInv, RanInv, FlagInv, TakenInv, Next
  PROVE  SlotExclusive'
<1> USE SlotsNotZero
<1> USE DEF Goto, SGoto, TakeLock, DropLock, NewBatch, EndRound, lockVars,
            stageVars, slotVars, loopVars, connVars, relVars, serverVars,
            callVars, clientVars, SlotExclusive, ClientTypeOK, ServerTypeOK,
            SharedTypeOK, MaskInv, ReleaseInv, IdInv, RanInv, FlagInv,
            TakenInv, Owns, Served, InFlight, WaitPcs, SubmitPcs, NoSlotPcs,
            ReleasePcs, FreeSlots, TakenPcs, Batch, Request, Batches, Requests
<1>1. ASSUME NEW c \in Clients, ClientStep(c) \/ ProgramStep(c)
      PROVE  SlotExclusive'
  <2>1. CASE ClaimWrite(c)
    BY <2>1 DEF ClaimWrite
  <2>2. CASE ConnDone(c)
    BY <2>2 DEF ConnDone
  <2>3. CASE SubGo(c)
    BY <2>3 DEF SubGo
  <2>4. CASE SubDone(c)
    BY <2>4 DEF SubDone
  <2>5. CASE Left(c)
    BY <2>5 DEF Left
  <2>6. CASE Call(c)
    BY <2>6 DEF Call
  <2>7. CASE Goodbye(c)
    BY <2>7 DEF Goodbye
  <2>8. CASE ClaimLock(c)
    BY <2>8 DEF ClaimLock
  <2>9. CASE ClaimRead(c)
    BY <2>9 DEF ClaimRead
  <2>10. CASE ClaimFull(c)
    BY <2>10 DEF ClaimFull
  <2>11. CASE ConnTest(c)
    BY <2>11 DEF ConnTest
  <2>12. CASE ConnUnlock(c)
    BY <2>12 DEF ConnUnlock
  <2>13. CASE ConnSpin(c)
    BY <2>13 DEF ConnSpin
  <2>14. CASE ConnLock(c)
    BY <2>14 DEF ConnLock
  <2>15. CASE ConnWrite(c)
    BY <2>15 DEF ConnWrite
  <2>16. CASE SubLock(c)
    BY <2>16 DEF SubLock
  <2>17. CASE SubTest(c)
    BY <2>17 DEF SubTest
  <2>18. CASE SubUnlock(c)
    BY <2>18 DEF SubUnlock
  <2>19. CASE SubSpin(c)
    BY <2>19 DEF SubSpin
  <2>20. CASE SubFlag(c)
    BY <2>20 DEF SubFlag
  <2>21. CASE SubCopy(c)
    BY <2>21 DEF SubCopy
  <2>22. CASE SubId(c)
    BY <2>22 DEF SubId
  <2>23. CASE SubSize(c)
    BY <2>23 DEF SubSize
  <2>24. CASE Answered(c)
    BY <2>24 DEF Answered
  <2>25. CASE Return(c)
    BY <2>25 DEF Return
  <2>26. CASE StartUp(c)
    BY <2>26 DEF StartUp
  <2>27. CASE CallDropped(c)
    BY <2>27 DEF CallDropped
  <2>28. CASE Crash(c)
    BY <2>28 DEF Crash
  <2>. QED
    BY <1>1, <2>1, <2>2, <2>3, <2>4, <2>5, <2>6, <2>7, <2>8, <2>9, <2>10,
       <2>11, <2>12, <2>13, <2>14, <2>15, <2>16, <2>17, <2>18, <2>19, <2>20,
       <2>21, <2>22, <2>23, <2>24, <2>25, <2>26, <2>27, <2>28
    DEF ClientStep, ProgramStep
<1>2. CASE ServerStep
  <2>1. CASE SExecCall
    BY <2>1 DEF SExecCall
  <2>2. CASE SExecGoodbye
    BY <2>2 DEF SExecGoodbye
  <2>3. CASE SRelWrite
    BY <2>3 DEF SRelWrite
  <2>. QED
    BY <1>2, <2>1, <2>2, <2>3
    DEF ServerStep, SPollConnect, SAdd, SAck, SPollSubmit, SGetId, SGetSize,
        SCheck, SCopy, SUnstage, SBind, SReply, SClear, SRelLock, SRelWipe,
        SRelRead, SRelUnlock
<1>. QED
  BY <1>1, <1>2 DEF Next

-----------------------------------------------------------------------------
(* The registers as the server initialises them satisfy the invariant.     *)
LEMMA SlotInit == Init => SlotIInv
<1> SUFFICES ASSUME Init PROVE SlotIInv
  OBVIOUS
<1> USE SlotsNotZero DEF Init
<1>1. TypeOK
  BY DEF TypeOK, SharedTypeOK, ServerTypeOK, ClientTypeOK, Pcs, LoopPcs, Kinds
<1>2. LockMutex
  BY DEF LockMutex, ClientHolds, ServerHolds, LockPcs, ReleasePcs
<1>3. IdInv /\ RanInv /\ MaskInv
  BY DEF IdInv, RanInv, MaskInv, NoSlotPcs, SubmitPcs, WaitPcs
<1>4. FlagInv /\ StageInv /\ TakenInv
  BY DEF FlagInv, StageInv, TakenInv, InFlight, WaitPcs, StagingPcs, TakenPcs,
         AnswerPcs
<1>5. SizeInv
  BY DEF SizeInv, SubmitPcs, WaitPcs, TakenPcs, AnswerPcs
<1>6. ReleaseInv /\ SlotExclusive
  BY DEF ReleaseInv, SlotExclusive, Owns, AnswerPcs, ReleasePcs
<1>. QED
  BY <1>1, <1>2, <1>3, <1>4, <1>5, <1>6 DEF SlotIInv

(* Every step preserves it.                                                *)
LEMMA SlotNext == SlotIInv /\ [Next]_vars => SlotIInv'
<1> SUFFICES ASSUME SlotIInv, [Next]_vars PROVE SlotIInv'
  OBVIOUS
<1> USE DEF SlotIInv, TypeOK
<1>1. CASE Next
  <2>1. SharedTypeOK'
    BY <1>1, SharedTypeStep
  <2>2. ServerTypeOK'
    BY <1>1, ServerTypeStep
  <2>3. ClientTypeOK'
    BY <1>1, ClientTypeStep
  <2>4. IdInv'
    BY <1>1, IdStep
  <2>5. LockMutex'
    BY <1>1, LockStep
  <2>6. RanInv'
    BY <1>1, RanStep
  <2>7. MaskInv'
    BY <1>1, MaskStep
  <2>8. FlagInv'
    BY <1>1, FlagStep
  <2>9. StageInv'
    BY <1>1, StageStep
  <2>10. TakenInv'
    BY <1>1, TakenStep
  <2>11. SizeInv'
    BY <1>1, SizeStep
  <2>12. ReleaseInv'
    BY <1>1, ReleaseStep
  <2>13. SlotExclusive'
    BY <1>1, SlotStep
  <2>. QED
    BY <2>1, <2>2, <2>3, <2>4, <2>5, <2>6, <2>7, <2>8, <2>9, <2>10, <2>11,
       <2>12, <2>13
<1>2. CASE UNCHANGED vars
  <2> USE <1>2
  <2> USE DEF vars, lockVars, stageVars, slotVars, serverVars, loopVars,
              connVars, relVars, clientVars, callVars
  <2>1. TypeOK'
    BY DEF SharedTypeOK, ServerTypeOK, ClientTypeOK
  <2>2. IdInv' /\ RanInv' /\ MaskInv'
    BY DEF IdInv, RanInv, MaskInv
  <2>3. LockMutex'
    BY DEF LockMutex, ClientHolds, ServerHolds
  <2>4. FlagInv'
    BY DEF FlagInv, InFlight
  <2>5. StageInv'
    BY DEF StageInv, InFlight, Batch, Request
  <2>6. TakenInv'
    BY DEF TakenInv, InFlight, Served, Batch, Request
  <2>7. SizeInv'
    BY DEF SizeInv
  <2>8. ReleaseInv' /\ SlotExclusive'
    BY DEF ReleaseInv, SlotExclusive, Owns, Served
  <2>. QED
    BY <2>1, <2>2, <2>3, <2>4, <2>5, <2>6, <2>7, <2>8
<1>. QED
  BY <1>1, <1>2

(* SlotIInv holds in every reachable state.                                *)
THEOREM SlotInvariant == Spec => []SlotIInv
  BY SlotInit, SlotNext, PTL DEF Spec

-----------------------------------------------------------------------------
(* Registers, staged buffers and program counters have their types.        *)
THEOREM TypeCorrect == Spec => []TypeOK
<1>1. SlotIInv => TypeOK
  BY DEF SlotIInv
<1>. QED
  BY <1>1, SlotInvariant, PTL

(* The lock of inc/sharedgl.h is a lock: spin_lock and sgl_spin_lock never *)
(* let two processes in, and the word is 1 exactly while one is in.        *)
THEOREM LockIsMutex == Spec => []LockMutex
<1>1. SlotIInv => LockMutex
  BY DEF SlotIInv
<1>. QED
  BY <1>1, SlotInvariant, PTL

(* shm_claim_slot never gives out a slot that has an owner, whatever the   *)
(* server is still doing for an earlier one.                               *)
THEOREM SlotsAreExclusive == Spec => []SlotExclusive
<1>1. SlotIInv => SlotExclusive
  BY DEF SlotIInv
<1>. QED
  BY <1>1, SlotInvariant, PTL

LEMMA StagingIsGood == SlotIInv => StageConsistent
  BY GarbageAssumption
     DEF SlotIInv, StageConsistent, StageInv, TakenInv, SizeInv, TypeOK,
         SharedTypeOK, ClientTypeOK, Acceptable, InFlight, SubmitPcs, Batch,
         Request, Batches, Requests

(* The id, the size and the words the server takes are of one buffer, and  *)
(* it never has to reject or cut off what a client staged.                 *)
THEOREM StagingIsConsistent == Spec => []StageConsistent
  BY StagingIsGood, SlotInvariant, PTL

(* Between the raise of SUBMIT and the server's store of 0 nobody writes   *)
(* the staging area: its copy sees one buffer.                             *)
THEOREM StagingIsFrozen == Spec => StageFrozen
<1>1. SlotIInv /\ [Next]_vars
        => [submit = 1 => UNCHANGED <<stage, stageId, stageSize>>]_vars
  <2> SUFFICES ASSUME SlotIInv, Next, submit = 1
               PROVE  UNCHANGED <<stage, stageId, stageSize>>
    OBVIOUS
  <2> USE DEF SlotIInv, StageInv, StagingPcs, Goto, stageVars
  <2>1. ASSUME NEW c \in Clients, ClientStep(c) \/ ProgramStep(c)
        PROVE  UNCHANGED <<stage, stageId, stageSize>>
    BY <2>1 DEF ClientStep, ProgramStep, ClaimLock, ClaimRead, ClaimWrite, ClaimFull, ConnTest, ConnUnlock,
                ConnSpin, ConnLock, ConnWrite, ConnDone, SubLock, SubTest,
                SubUnlock, SubSpin, SubFlag, SubCopy, SubId, SubSize,
                SubGo, SubDone, Answered, Left, Return, StartUp,
                Call, CallDropped, Goodbye, Crash
  <2>2. CASE ServerStep
    BY <2>2 DEF ServerStep, SPollConnect, SAdd, SAck, SPollSubmit, SGetId, SGetSize,
                SCheck, SCopy, SUnstage, SBind, SExecCall, SExecGoodbye,
                SReply, SClear, SRelLock, SRelWipe, SRelRead, SRelWrite,
                SRelUnlock
  <2>. QED
    BY <2>1, <2>2 DEF Next
<1>. QED
  BY <1>1, SlotInvariant, PTL DEF Spec, StageFrozen
-----------------------------------------------------------------------------
(* What a step of one client leaves alone                                  *)
LEMMA ClientFrame ==
  ASSUME ClientTypeOK, NEW c \in Clients, ClientStep(c) \/ ProgramStep(c)
  PROVE  /\ alive[c] /\ UNCHANGED serverVars
         /\ \A d \in Clients \ {c} :
              /\ pc'[d] = pc[d] /\ alive'[d] = alive[d] /\ id'[d] = id[d]
              /\ kind'[d] = kind[d] /\ bit'[d] = bit[d] /\ size'[d] = size[d]
         /\ pc[c] \notin StagingPcs => UNCHANGED stageVars
         /\ pc'[c] \in WaitPcs =>
              /\ id'[c] = id[c] /\ kind'[c] = kind[c] /\ bit'[c] = bit[c]
              /\ size'[c] = size[c]
              /\ \/ pc[c] \in WaitPcs
                 \/ pc[c] = "subGo" /\ stage' = stage /\ (pc'[c] = "subGo" \/ submit' = 1)
<1> USE DEF Goto, serverVars, stageVars, callVars, ClientTypeOK, StagingPcs, WaitPcs, NewBatch
<1>1. CASE SubTest(c)
  BY <1>1 DEF SubTest
<1>2. CASE SubFlag(c)
  BY <1>2 DEF SubFlag
<1>3. CASE SubCopy(c)
  BY <1>3 DEF SubCopy
<1>4. CASE SubGo(c)
  BY <1>4 DEF SubGo
<1>5. CASE Answered(c)
  BY <1>5 DEF Answered
<1>6. CASE Left(c)
  BY <1>6 DEF Left
<1>7. CASE ClaimLock(c)
  BY <1>7 DEF ClaimLock
<1>8. CASE ClaimRead(c)
  BY <1>8 DEF ClaimRead
<1>9. CASE ClaimWrite(c)
  BY <1>9 DEF ClaimWrite
<1>10. CASE ClaimFull(c)
  BY <1>10 DEF ClaimFull
<1>11. CASE ConnTest(c)
  BY <1>11 DEF ConnTest
<1>12. CASE ConnUnlock(c)
  BY <1>12 DEF ConnUnlock
<1>13. CASE ConnSpin(c)
  BY <1>13 DEF ConnSpin
<1>14. CASE ConnLock(c)
  BY <1>14 DEF ConnLock
<1>15. CASE ConnWrite(c)
  BY <1>15 DEF ConnWrite
<1>16. CASE ConnDone(c)
  BY <1>16 DEF ConnDone
<1>17. CASE SubLock(c)
  BY <1>17 DEF SubLock
<1>18. CASE SubUnlock(c)
  BY <1>18 DEF SubUnlock
<1>19. CASE SubSpin(c)
  BY <1>19 DEF SubSpin
<1>20. CASE SubId(c)
  BY <1>20 DEF SubId
<1>21. CASE SubSize(c)
  BY <1>21 DEF SubSize
<1>22. CASE SubDone(c)
  BY <1>22 DEF SubDone
<1>23. CASE Return(c)
  BY <1>23 DEF Return
<1>24. CASE StartUp(c)
  BY <1>24 DEF StartUp
<1>25. CASE Call(c)
  BY <1>25 DEF Call
<1>26. CASE CallDropped(c)
  BY <1>26 DEF CallDropped
<1>27. CASE Goodbye(c)
  BY <1>27 DEF Goodbye
<1>28. CASE Crash(c)
  BY <1>28 DEF Crash
<1>. QED
  BY <1>1, <1>2, <1>3, <1>4, <1>5, <1>6, <1>7, <1>8, <1>9, <1>10, <1>11,
     <1>12, <1>13, <1>14, <1>15, <1>16, <1>17, <1>18, <1>19, <1>20, <1>21,
     <1>22, <1>23, <1>24, <1>25, <1>26, <1>27, <1>28
  DEF ClientStep, ProgramStep

(* ... and what one of the server leaves alone                             *)
LEMMA ServerFrame ==
  ASSUME SlotIInv, ServerStep
  PROVE  /\ UNCHANGED <<clientVars, stage, stageId, stageSize>>
         /\ submit' = submit \/ (spc = "unstage" /\ submit' = 0)
         /\ exec' = exec \/ spc \in {"copy", "clear"}
         /\ spc \in TakenPcs => spc' \in TakenPcs \/ spc = "exec"
         /\ spc # "copy" => spc' # "unstage"
         /\ spc = "copy" => spc' = "unstage" /\ exec' = stage
         /\ spc = "unstage" => spc' = "bind"
         /\ spc \notin {"copy"} \cup TakenPcs => spc' \notin TakenPcs
         /\ ran' = IF spc = "exec" THEN [ran EXCEPT ![exec.req.from] = exec.req.bit] ELSE ran
<1> USE DEF SGoto, EndRound, stageVars, loopVars, TakenPcs
<1>1. CASE SPollConnect
  BY <1>1 DEF SPollConnect
<1>2. CASE SAdd
  BY <1>2 DEF SAdd
<1>3. CASE SAck
  BY <1>3 DEF SAck
<1>4. CASE SPollSubmit
  BY <1>4 DEF SPollSubmit
<1>5. CASE SGetId
  BY <1>5 DEF SGetId
<1>6. CASE SGetSize
  BY <1>6 DEF SGetSize
<1>7. CASE SCheck
  <2>1. Acceptable
    BY <1>7, StagingIsGood DEF SCheck, StageConsistent
  <2>. QED
    BY <1>7, <2>1 DEF SCheck
<1>8. CASE SCopy
  <2>1. stage \in Batches /\ stage.words = sSize /\ sSize \in Nat
    BY <1>8 DEF SCopy, SlotIInv, TakenInv, StageInv, SizeInv, TypeOK, ServerTypeOK
  <2>. QED
    BY <1>8, <2>1 DEF SCopy
<1>9. CASE SUnstage
  BY <1>9 DEF SUnstage
<1>10. CASE SBind
  BY <1>10 DEF SBind
<1>11. CASE SExecCall
  BY <1>11 DEF SExecCall
<1>12. CASE SExecGoodbye
  BY <1>12 DEF SExecGoodbye
<1>13. CASE SReply
  BY <1>13 DEF SReply
<1>14. CASE SClear
  BY <1>14 DEF SClear
<1>15. CASE SRelLock
  BY <1>15 DEF SRelLock
<1>16. CASE SRelWipe
  BY <1>16 DEF SRelWipe
<1>17. CASE SRelRead
  BY <1>17 DEF SRelRead
<1>18. CASE SRelWrite
  BY <1>18 DEF SRelWrite
<1>19. CASE SRelUnlock
  BY <1>19 DEF SRelUnlock
<1>. QED
  BY <1>1, <1>2, <1>3, <1>4, <1>5, <1>6, <1>7, <1>8, <1>9, <1>10, <1>11,
     <1>12, <1>13, <1>14, <1>15, <1>16, <1>17, <1>18, <1>19
  DEF ServerStep

(* A published buffer cannot be overwritten: whoever wants to stage waits  *)
(* until SUBMIT is down, and by then the server has its copy.              *)
KeptInv == BuffersKept /\ (spc = "unstage" => exec = stage)

LEMMA KeptStep == SlotIInv /\ KeptInv /\ [Next]_vars => KeptInv'
<1> SUFFICES ASSUME SlotIInv, KeptInv, [Next]_vars PROVE KeptInv'
  OBVIOUS
<1>1. CASE UNCHANGED vars
  BY <1>1 DEF vars, stageVars, serverVars, loopVars, clientVars, callVars, KeptInv, BuffersKept,
              Kept, InFlight, Batch, Request
<1>2. ASSUME NEW c \in Clients, ClientStep(c) \/ ProgramStep(c) PROVE KeptInv'
  <2>0. ClientTypeOK
    BY DEF SlotIInv, TypeOK
  <2>1. /\ UNCHANGED <<spc, exec, ran>>
        /\ \A d \in Clients \ {c} : InFlight(d)' <=> InFlight(d)
        /\ \A d \in Clients \ {c} : Batch(d)' = Batch(d)
    BY <1>2, <2>0, ClientFrame DEF serverVars, loopVars, InFlight, Batch, Request
  <2>2. pc[c] \in StagingPcs => submit = 0
    BY DEF SlotIInv, StageInv
  <2>3. pc[c] \notin StagingPcs => UNCHANGED stageVars
    BY <1>2, <2>0, ClientFrame
  <2>4. spc = "unstage" => submit = 1
    BY DEF SlotIInv, TakenInv
  <2>5. ASSUME NEW d \in Clients \ {c}, InFlight(d) PROVE Kept(d)'
    <3>1. Kept(d)
      BY <2>5 DEF KeptInv, BuffersKept
    <3>. QED
      BY <2>1, <2>2, <2>3, <3>1 DEF Kept, stageVars
  <2>6. ASSUME InFlight(c)' PROVE Kept(c)'
    <3>1. /\ Batch(c)' = Batch(c)
          /\ \/ pc[c] \in WaitPcs
             \/ pc[c] = "subGo" /\ stage' = stage /\ (pc'[c] = "subGo" \/ submit' = 1)
      BY <1>2, <2>0, <2>6, ClientFrame DEF InFlight, Batch, Request
    <3>2. CASE pc[c] \in WaitPcs
      <4>1. InFlight(c) /\ pc[c] \notin StagingPcs
        <5>1. bit'[c] = bit[c]
          BY <1>2, <2>0, <2>6, ClientFrame DEF InFlight
        <5>. QED
          BY <2>1, <2>6, <3>2, <5>1 DEF InFlight, WaitPcs, StagingPcs
      <4>2. Kept(c)
        BY <4>1 DEF KeptInv, BuffersKept
      <4>. QED
        BY <2>1, <2>3, <3>1, <4>1, <4>2 DEF Kept, stageVars
    <3>3. CASE pc[c] = "subGo" /\ stage' = stage /\ (pc'[c] = "subGo" \/ submit' = 1)
      <4>1. stage = Batch(c) /\ submit' = 1
        BY <2>6, <3>3 DEF SlotIInv, InFlight, WaitPcs, StageInv
      <4>. QED
        BY <3>1, <3>3, <4>1 DEF Kept
    <3>. QED
      BY <3>1, <3>2, <3>3
  <2>7. spc' = "unstage" => exec' = stage'
    BY <2>1, <2>2, <2>3, <2>4 DEF KeptInv, stageVars
  <2>8. \A d \in Clients : InFlight(d)' => Kept(d)'
    BY <2>1, <2>5, <2>6
  <2>. QED
    BY <2>7, <2>8 DEF KeptInv, BuffersKept
<1>3. CASE ServerStep
  <2>1. /\ UNCHANGED <<clientVars, stage>>
        /\ submit' = submit \/ (spc = "unstage" /\ submit' = 0)
        /\ exec' = exec \/ spc \in {"copy", "clear"}
        /\ spc \in TakenPcs => spc' \in TakenPcs \/ spc = "exec"
        /\ spc # "copy" => spc' # "unstage"
        /\ spc = "copy" => spc' = "unstage" /\ exec' = stage
        /\ spc = "unstage" => spc' = "bind"
        /\ ran' = IF spc = "exec" THEN [ran EXCEPT ![exec.req.from] = exec.req.bit] ELSE ran
    BY <1>3, ServerFrame
  <2>2. \A d \in Clients : Batch(d)' = Batch(d)
    BY <2>1 DEF clientVars, callVars, Batch, Request
  <2>3. ASSUME NEW d \in Clients, InFlight(d)' PROVE Kept(d)'
    <3>1. CASE spc = "exec"
      <4>1. exec \in Batches /\ InFlight(exec.req.from) /\ exec = Batch(exec.req.from)
        BY <3>1 DEF SlotIInv, TakenInv, TakenPcs
      <4>2. exec.req.from \in Clients /\ exec.req.bit = bit[exec.req.from]
        BY <4>1 DEF Batches, Requests, Batch, Request
      <4>3. InFlight(d) /\ d # exec.req.from
        <5>1. ran \in [Clients -> {0, 1}] /\ pc[d] \in WaitPcs /\ ran'[d] # bit[d]
          BY <2>1, <2>3 DEF clientVars, callVars, InFlight, SlotIInv, TypeOK, ServerTypeOK
        <5>. QED
          BY <2>1, <3>1, <4>2, <5>1 DEF InFlight
      <4>4. Kept(d) /\ exec # Batch(d)
        BY <4>1, <4>3 DEF KeptInv, BuffersKept, Batch, Request
      <4>. QED
        BY <2>1, <2>2, <3>1, <4>4 DEF Kept
    <3>2. CASE spc # "exec"
      <4>1. Kept(d)
        BY <2>1, <2>3, <3>2 DEF KeptInv, BuffersKept, InFlight, clientVars, callVars
      <4>. QED
        BY <2>1, <2>2, <3>2, <4>1 DEF Kept, TakenPcs, KeptInv
    <3>. QED
      BY <3>1, <3>2
  <2>4. spc' = "unstage" => exec' = stage'
    BY <2>1
  <2>. QED
    BY <2>3, <2>4 DEF KeptInv, BuffersKept
<1>. QED
  BY <1>1, <1>2, <1>3 DEF Next

(* No published buffer is lost before the server runs it                   *)
(* (submit_shm, the copy in sgl_cmd_processor_start).                      *)
THEOREM BuffersAreKept == Spec => []BuffersKept
<1>1. Init => KeptInv
  BY DEF Init, KeptInv, BuffersKept, InFlight, WaitPcs
<1>2. KeptInv => BuffersKept
  BY DEF KeptInv
<1>. QED
  BY <1>1, <1>2, KeptStep, SlotInvariant, PTL DEF Spec

(* Whatever the server runs was published and not run before: SUBMIT and   *)
(* the flag of the slot are polled over and over, and yet no buffer is run *)
(* twice.                                                                  *)
THEOREM BuffersRunOnce == Spec => RunsOnce
<1>1. SlotIInv /\ [Next]_vars =>
        [\A c \in Clients : ran'[c] # ran[c] => InFlight(c) /\ ran'[c] = bit[c]]_vars
  <2> SUFFICES ASSUME SlotIInv, Next, NEW c \in Clients, ran'[c] # ran[c]
               PROVE  InFlight(c) /\ ran'[c] = bit[c]
    BY DEF vars, serverVars
  <2>1. ASSUME NEW d \in Clients, ClientStep(d) \/ ProgramStep(d) PROVE FALSE
    BY <2>1, ClientFrame DEF SlotIInv, TypeOK, serverVars
  <2>2. CASE ServerStep
    <3>1. spc = "exec" /\ ran' = [ran EXCEPT ![exec.req.from] = exec.req.bit]
      BY <2>2, ServerFrame
    <3>2. exec \in Batches /\ InFlight(exec.req.from) /\ exec = Batch(exec.req.from)
      BY <3>1 DEF SlotIInv, TakenInv, TakenPcs
    <3>3. exec.req.from \in Clients /\ exec.req.bit = bit[exec.req.from]
      BY <3>2 DEF Batches, Requests, Batch, Request
    <3>4. c = exec.req.from
      BY <3>1, <3>3 DEF SlotIInv, TypeOK, ServerTypeOK
    <3>. QED
      BY <3>1, <3>2, <3>3, <3>4 DEF SlotIInv, TypeOK, ServerTypeOK
  <2>. QED
    BY <2>1, <2>2 DEF Next
<1>. QED
  BY <1>1, SlotInvariant, PTL DEF Spec, RunsOnce

(* A program killed inside a critical section keeps LOCK for ever: no      *)
(* other program ever gets past its spin_lock again, and the server        *)
(* releases no slot.  spin_lock has neither an owner nor a time limit, so  *)
(* SurvivorsServed has to except these deaths.                             *)
THEOREM LockedForGood ==
  ASSUME NEW c \in Clients
  PROVE  Spec => [](DeadHolder(c) =>
           [](lock = 1 /\ ~ServerHolds /\ \A d \in Clients \ {c} : ~ClientHolds(d)))
<1>1. SlotIInv /\ DeadHolder(c)
        => lock = 1 /\ ~ServerHolds /\ \A d \in Clients \ {c} : ~ClientHolds(d)
  BY DEF SlotIInv, LockMutex, DeadHolder
<1>2. SlotIInv /\ DeadHolder(c) /\ [Next]_vars => DeadHolder(c)'
  <2> SUFFICES ASSUME SlotIInv, DeadHolder(c), [Next]_vars PROVE DeadHolder(c)'
    OBVIOUS
  <2>1. CASE UNCHANGED vars
    BY <2>1 DEF vars, clientVars, DeadHolder, ClientHolds
  <2>2. ASSUME NEW d \in Clients, ClientStep(d) \/ ProgramStep(d) PROVE DeadHolder(c)'
    BY <2>2, ClientFrame DEF SlotIInv, TypeOK, DeadHolder, ClientHolds
  <2>3. CASE ServerStep
    BY <2>3, ServerFrame DEF clientVars, DeadHolder, ClientHolds
  <2>. QED
    BY <2>1, <2>2, <2>3 DEF Next
<1>. QED
  BY <1>1, <1>2, SlotInvariant, PTL DEF Spec
=============================================================================
