-------------------------- MODULE ShmServiceProofs --------------------------
(***************************************************************************)
(* The shared-memory transport on top of the slot invariant of             *)
(* ShmTransportProofs: first connections, GL contexts and the contents of  *)
(* the mailbox slots, then results, and that ShmTransport implements       *)
(* RenderService: its refinement mapping takes initial states to initial   *)
(* states and every step to a step of the service or to none.  After that, *)
(* where a published buffer is until its sender has the answer, and, as    *)
(* long as what should go on can go on (NeverStuck), that it gets there.   *)
(***************************************************************************)
EXTENDS ShmTransportProofs

(* CONNECT is written under the lock when it is 0, by the owner of a slot
   without connection; the server turns it into one connection. *)
LEMMA ConnStep ==
  ASSUME ClientTypeOK, ServerTypeOK, SharedTypeOK, ConnInv, CreateInv,
         SlotExclusive, IdInv, LockMutex, TakenInv, RanInv, FlagInv, MaskInv,
         Next
  PROVE  ConnInv'
<1> USE SlotsNotZero
<1> USE DEF Goto, SGoto, TakeLock, DropLock, NewBatch, EndRound, lockVars,
            stageVars, slotVars, loopVars, connVars, relVars, serverVars,
            callVars, clientVars, ConnInv, ClientTypeOK, ServerTypeOK,
            SharedTypeOK, CreateInv, SlotExclusive, IdInv, LockMutex,
            TakenInv, RanInv, FlagInv, MaskInv, Owns, Served, InFlight,
            ConnPcs, WaitPcs, SubmitPcs, NoSlotPcs, TakenPcs, AnswerPcs,
            FreeSlots, Batch, Request, Batches, Requests, ClientHolds,
            LockPcs, BeforeAnswer
<1>1. ASSUME NEW c \in Clients, ClientStep(c) \/ ProgramStep(c)
      PROVE  ConnInv'
  <2>1. CASE ClaimLock(c)
    BY <2>1 DEF ClaimLock
  <2>2. CASE ClaimRead(c)
    BY <2>2 DEF ClaimRead
  <2>3. CASE ClaimWrite(c)
    BY <2>3 DEF ClaimWrite
  <2>4. CASE ClaimFull(c)
    BY <2>4 DEF ClaimFull
  <2>5. CASE ConnTest(c)
    BY <2>5 DEF ConnTest
  <2>6. CASE ConnUnlock(c)
    BY <2>6 DEF ConnUnlock
  <2>7. CASE ConnSpin(c)
    BY <2>7 DEF ConnSpin
  <2>8. CASE ConnLock(c)
    BY <2>8 DEF ConnLock
  <2>9. CASE ConnWrite(c)
    BY <2>9 DEF ConnWrite
  <2>10. CASE ConnDone(c)
    BY <2>10 DEF ConnDone
  <2>11. CASE SubLock(c)
    BY <2>11 DEF SubLock
  <2>12. CASE SubTest(c)
    BY <2>12 DEF SubTest
  <2>13. CASE SubUnlock(c)
    BY <2>13 DEF SubUnlock
  <2>14. CASE SubSpin(c)
    BY <2>14 DEF SubSpin
  <2>15. CASE SubGo(c)
    BY <2>15 DEF SubGo
  <2>16. CASE SubDone(c)
    BY <2>16 DEF SubDone
  <2>17. CASE Answered(c)
    BY <2>17 DEF Answered
  <2>18. CASE Left(c)
    <3>1. /\ pc[c] = "subWait" /\ pc' = [pc EXCEPT ![c] = "off"]
          /\ id' = [id EXCEPT ![c] = 0] /\ kind[c] = "goodbye"
          /\ slotSubmit[id[c]] # 1
      BY <2>18 DEF Left
    <3>2. UNCHANGED <<conns, connect, spc, sCreg, kind, bit, ran>>
      BY <2>18 DEF Left
    <3>3. ~Owns(c) /\ ~Owns(c)'
      BY <3>1, <3>2
    <3>4. \A d \in Clients \ {c} : pc'[d] = pc[d] /\ id'[d] = id[d] /\ (Owns(d)' <=> Owns(d))
      BY <3>1, <3>2
    <3>. QED
      BY <3>1, <3>2, <3>3, <3>4
  <2>19. CASE Call(c)
    BY <2>19 DEF Call
  <2>20. CASE Goodbye(c)
    BY <2>20 DEF Goodbye
  <2>21. CASE SubFlag(c)
    BY <2>21 DEF SubFlag
  <2>22. CASE SubCopy(c)
    BY <2>22 DEF SubCopy
  <2>23. CASE SubId(c)
    BY <2>23 DEF SubId
  <2>24. CASE SubSize(c)
    BY <2>24 DEF SubSize
  <2>25. CASE Return(c)
    BY <2>25 DEF Return
  <2>26. CASE StartUp(c)
    BY <2>26 DEF StartUp
  <2>27. CASE CallDropped(c)
    BY <2>27 DEF CallDropped
  <2>28. CASE Crash(c)
    BY <2>28 DEF Crash
  <2>. QED
    BY <1>1, <2>1, <2>2, <2>3, <2>4, <2>5, <2>6, <2>7, <2>8, <2>9, <2>10,
       <2>11, <2>12, <2>13, <2>14, <2>15, <2>16, <2>17, <2>18, <2>19, <2>20,
       <2>21, <2>22, <2>23, <2>24, <2>25, <2>26, <2>27, <2>28
    DEF ClientStep, ProgramStep
<1>2. CASE ServerStep
  <2>1. CASE SPollConnect
    BY <2>1 DEF SPollConnect
  <2>2. CASE SAdd
    BY <2>2 DEF SAdd
  <2>3. CASE SAck
    <3>1. UNCHANGED <<conns, clientVars, ran>> /\ spc = "ack" /\ spc' = "conn"
          /\ connect' = 0
      BY <2>3 DEF SAck
    <3>2. ASSUME NEW c \in Clients, Owns(c)', pc'[c] \notin ConnPcs
          PROVE  conns'[id'[c]] # 0 /\ connect' # id'[c]
      BY <3>1, <3>2
    <3>3. ASSUME NEW c \in Clients, pc'[c] \in ConnPcs
          PROVE  conns'[id'[c]] = 0 /\ connect' # id'[c]
      BY <3>1, <3>3
    <3>4. ASSUME NEW s \in Slots, conns'[s] = 1
          PROVE  \E c \in Clients : Owns(c)' /\ id'[c] = s
      BY <3>1, <3>4
    <3>5. \A s \in Slots : conns'[s] \in {0, 1}
      BY <3>1
    <3>. QED
      BY <3>1, <3>2, <3>3, <3>4, <3>5
  <2>4. CASE SExecCall
    BY <2>4 DEF SExecCall
  <2>5. CASE SExecGoodbye
    BY <2>5 DEF SExecGoodbye
  <2>6. CASE SPollSubmit
    BY <2>6 DEF SPollSubmit
  <2>7. CASE SGetId
    BY <2>7 DEF SGetId
  <2>8. CASE SGetSize
    BY <2>8 DEF SGetSize
  <2>9. CASE SCheck
    BY <2>9 DEF SCheck
  <2>10. CASE SCopy
    BY <2>10 DEF SCopy
  <2>11. CASE SUnstage
    BY <2>11 DEF SUnstage
  <2>12. CASE SBind
    BY <2>12 DEF SBind
  <2>13. CASE SReply
    BY <2>13 DEF SReply
  <2>14. CASE SClear
    BY <2>14 DEF SClear
  <2>15. CASE SRelLock
    BY <2>15 DEF SRelLock
  <2>16. CASE SRelWipe
    BY <2>16 DEF SRelWipe
  <2>17. CASE SRelRead
    BY <2>17 DEF SRelRead
  <2>18. CASE SRelWrite
    BY <2>18 DEF SRelWrite
  <2>19. CASE SRelUnlock
    BY <2>19 DEF SRelUnlock
  <2>. QED
    BY <1>2, <2>1, <2>2, <2>3, <2>4, <2>5, <2>6, <2>7, <2>8, <2>9, <2>10,
       <2>11, <2>12, <2>13, <2>14, <2>15, <2>16, <2>17, <2>18, <2>19
    DEF ServerStep
<1>. QED
  BY <1>1, <1>2 DEF Next

(* Between the answer to a first buffer and the next look at SUBMIT the
   server looks at CONNECT. *)
LEMMA CreateStep ==
  ASSUME ClientTypeOK, ServerTypeOK, SharedTypeOK, ConnInv, CreateInv,
         SlotExclusive, IdInv, TakenInv, RanInv, FlagInv, ReleaseInv, MaskInv,
         Next
  PROVE  CreateInv'
<1> USE SlotsNotZero
<1> USE DEF Goto, SGoto, TakeLock, DropLock, NewBatch, EndRound, lockVars,
            stageVars, slotVars, loopVars, connVars, relVars, serverVars,
            callVars, clientVars, CreateInv, ClientTypeOK, ServerTypeOK,
            SharedTypeOK, ConnInv, SlotExclusive, IdInv, TakenInv, RanInv,
            FlagInv, ReleaseInv, MaskInv, Owns, Served, InFlight, ConnPcs,
            WaitPcs, SubmitPcs, NoSlotPcs, TakenPcs, AnswerPcs, Batch,
            Request, Batches, Requests, BeforeAnswer, FreeSlots
<1>1. ASSUME NEW c \in Clients, ClientStep(c) \/ ProgramStep(c)
      PROVE  CreateInv'
  <2>1. CASE ClaimWrite(c)
    <3>1. PICK s \in FreeSlots(slotMask) : id' = [id EXCEPT ![c] = s]
      BY <2>1 DEF ClaimWrite
    <3>2. connect # s
      BY <3>1
    <3>3. ASSUME NEW d \in Clients, Owns(d)', connect' = id'[d]
          PROVE  d # c /\ Owns(d) /\ connect = id[d]
      BY <2>1, <3>1, <3>2, <3>3 DEF ClaimWrite
    <3>. QED
      BY <2>1, <3>3 DEF ClaimWrite
  <2>2. CASE ConnWrite(c)
    <3>1. Owns(c) /\ connect' = id[c] /\ pc' = [pc EXCEPT ![c] = "connDone"]
      BY <2>2 DEF ConnWrite
    <3>2. ASSUME NEW d \in Clients, Owns(d)', connect' = id'[d]
          PROVE  d = c
      <4>1. SUFFICES ASSUME d # c PROVE FALSE
        OBVIOUS
      <4>2. Owns(d) /\ id[d] = id[c]
        BY <2>2, <3>1, <3>2, <4>1 DEF ConnWrite
      <4>. QED
        BY <3>1, <4>1, <4>2
    <3>. QED
      BY <2>2, <3>1, <3>2 DEF ConnWrite
  <2>3. CASE ConnDone(c)
    BY <2>3 DEF ConnDone
  <2>4. CASE SubGo(c)
    BY <2>4 DEF SubGo
  <2>5. CASE SubDone(c)
    BY <2>5 DEF SubDone
  <2>6. CASE Answered(c)
    BY <2>6 DEF Answered
  <2>7. CASE Left(c)
    BY <2>7 DEF Left
  <2>8. CASE Call(c)
    BY <2>8 DEF Call
  <2>9. CASE Goodbye(c)
    BY <2>9 DEF Goodbye
  <2>10. CASE ClaimLock(c)
    BY <2>10 DEF ClaimLock
  <2>11. CASE ClaimRead(c)
    BY <2>11 DEF ClaimRead
  <2>12. CASE ClaimFull(c)
    BY <2>12 DEF ClaimFull
  <2>13. CASE ConnTest(c)
    BY <2>13 DEF ConnTest
  <2>14. CASE ConnUnlock(c)
    BY <2>14 DEF ConnUnlock
  <2>15. CASE ConnSpin(c)
    BY <2>15 DEF ConnSpin
  <2>16. CASE ConnLock(c)
    BY <2>16 DEF ConnLock
  <2>17. CASE SubLock(c)
    BY <2>17 DEF SubLock
  <2>18. CASE SubTest(c)
    BY <2>18 DEF SubTest
  <2>19. CASE SubUnlock(c)
    BY <2>19 DEF SubUnlock
  <2>20. CASE SubSpin(c)
    BY <2>20 DEF SubSpin
  <2>21. CASE SubFlag(c)
    BY <2>21 DEF SubFlag
  <2>22. CASE SubCopy(c)
    BY <2>22 DEF SubCopy
  <2>23. CASE SubId(c)
    BY <2>23 DEF SubId
  <2>24. CASE SubSize(c)
    BY <2>24 DEF SubSize
  <2>25. CASE Return(c)
    BY <2>25 DEF Return
  <2>26. CASE StartUp(c)
    BY <2>26 DEF StartUp
  <2>27. CASE CallDropped(c)
    BY <2>27 DEF CallDropped
  <2>28. CASE Crash(c)
    BY <2>28 DEF Crash
  <2>. QED
    BY <1>1, <2>1, <2>2, <2>3, <2>4, <2>5, <2>6, <2>7, <2>8, <2>9, <2>10,
       <2>11, <2>12, <2>13, <2>14, <2>15, <2>16, <2>17, <2>18, <2>19, <2>20,
       <2>21, <2>22, <2>23, <2>24, <2>25, <2>26, <2>27, <2>28
    DEF ClientStep, ProgramStep
<1>2. CASE ServerStep
  <2>1. CASE SPollConnect
    BY <2>1 DEF SPollConnect
  <2>2. CASE SAck
    BY <2>2 DEF SAck
  <2>3. CASE SExecCall
    BY <2>3 DEF SExecCall
  <2>4. CASE SExecGoodbye
    BY <2>4 DEF SExecGoodbye
  <2>5. CASE SClear
    BY <2>5 DEF SClear
  <2>. QED
    BY <1>2, <2>1, <2>2, <2>3, <2>4, <2>5
    DEF ServerStep, SAdd, SPollSubmit, SGetId, SGetSize, SCheck, SCopy,
        SUnstage, SBind, SReply, SRelLock, SRelWipe, SRelRead, SRelWrite,
        SRelUnlock
<1>. QED
  BY <1>1, <1>2 DEF Next

(* The server writes only into the slot it answers and the slot it wipes. *)
LEMMA CleanStep ==
  ASSUME ClientTypeOK, ServerTypeOK, SharedTypeOK, CleanInv, SlotExclusive,
         IdInv, TakenInv, SizeInv, ReleaseInv, MaskInv, LockMutex, Next
  PROVE  CleanInv'
<1> USE SlotsNotZero
<1> USE DEF Goto, SGoto, TakeLock, DropLock, NewBatch, EndRound, lockVars,
            stageVars, slotVars, loopVars, connVars, relVars, serverVars,
            callVars, clientVars, CleanInv, ClientTypeOK, ServerTypeOK,
            SharedTypeOK, SlotExclusive, IdInv, TakenInv, SizeInv, ReleaseInv,
            MaskInv, LockMutex, Owns, Served, InFlight, Fresh,
            ClaimedSlotClean, ConnPcs, WaitPcs, SubmitPcs, NoSlotPcs,
            TakenPcs, AnswerPcs, ReleasePcs, LockPcs, ClientHolds,
            ServerHolds, FreeSlots, Batch, Request, Batches, Requests
<1>1. ASSUME NEW c \in Clients, ClientStep(c) \/ ProgramStep(c)
      PROVE  CleanInv'
  <2>1. CASE ClaimWrite(c)
    BY <2>1 DEF ClaimWrite
  <2>2. CASE SubFlag(c)
    BY <2>2 DEF SubFlag
  <2>3. CASE CallDropped(c)
    BY <2>3 DEF CallDropped
  <2>4. CASE ClaimLock(c)
    BY <2>4 DEF ClaimLock
  <2>5. CASE ClaimRead(c)
    BY <2>5 DEF ClaimRead
  <2>6. CASE ClaimFull(c)
    BY <2>6 DEF ClaimFull
  <2>7. CASE ConnTest(c)
    BY <2>7 DEF ConnTest
  <2>8. CASE ConnUnlock(c)
    BY <2>8 DEF ConnUnlock
  <2>9. CASE ConnSpin(c)
    BY <2>9 DEF ConnSpin
  <2>10. CASE ConnLock(c)
    BY <2>10 DEF ConnLock
  <2>11. CASE ConnWrite(c)
    BY <2>11 DEF ConnWrite
  <2>12. CASE ConnDone(c)
    BY <2>12 DEF ConnDone
  <2>13. CASE SubLock(c)
    BY <2>13 DEF SubLock
  <2>14. CASE SubTest(c)
    BY <2>14 DEF SubTest
  <2>15. CASE SubUnlock(c)
    BY <2>15 DEF SubUnlock
  <2>16. CASE SubSpin(c)
    BY <2>16 DEF SubSpin
  <2>17. CASE SubCopy(c)
    BY <2>17 DEF SubCopy
  <2>18. CASE SubId(c)
    BY <2>18 DEF SubId
  <2>19. CASE SubSize(c)
    BY <2>19 DEF SubSize
  <2>20. CASE SubGo(c)
    BY <2>20 DEF SubGo
  <2>21. CASE SubDone(c)
    BY <2>21 DEF SubDone
  <2>22. CASE Answered(c)
    BY <2>22 DEF Answered
  <2>23. CASE Left(c)
    BY <2>23 DEF Left
  <2>24. CASE Return(c)
    BY <2>24 DEF Return
  <2>25. CASE StartUp(c)
    BY <2>25 DEF StartUp
  <2>26. CASE Call(c)
    BY <2>26 DEF Call
  <2>27. CASE Goodbye(c)
    BY <2>27 DEF Goodbye
  <2>28. CASE Crash(c)
    BY <2>28 DEF Crash
  <2>. QED
    BY <1>1, <2>1, <2>2, <2>3, <2>4, <2>5, <2>6, <2>7, <2>8, <2>9, <2>10,
       <2>11, <2>12, <2>13, <2>14, <2>15, <2>16, <2>17, <2>18, <2>19, <2>20,
       <2>21, <2>22, <2>23, <2>24, <2>25, <2>26, <2>27, <2>28
    DEF ClientStep, ProgramStep
<1>2. CASE ServerStep
  <2>1. CASE SCheck
    <3>1. /\ \A s \in Slots : slotSubmit'[s] = slotSubmit[s] \/ slotSubmit'[s] = 0
          /\ \A s \in Slots : slotRet'[s] = slotRet[s] \/ slotRet'[s] = NoResult
      BY <2>1 DEF SCheck
    <3>2. /\ spc \notin {"relRead", "relWrite"} /\ spc' \notin {"relRead", "relWrite"}
          /\ UNCHANGED <<slotMask, clientVars>>
      BY <2>1 DEF SCheck
    <3>3. \A s \in Slots \ slotMask' : slotSubmit'[s] = 0 /\ slotRet'[s] = NoResult
      BY <3>1, <3>2
    <3>4. \A c \in Clients : Fresh(c)' => Fresh(c) /\ id'[c] = id[c] /\ id[c] \in Slots
      BY <3>2
    <3>5. ClaimedSlotClean'
      BY <3>1, <3>4
    <3>. QED
      BY <3>2, <3>3, <3>5
  <2>2. CASE SReply
    BY <2>2 DEF SReply
  <2>3. CASE SClear
    BY <2>3 DEF SClear
  <2>4. CASE SRelWipe
    BY <2>4 DEF SRelWipe
  <2>5. CASE SRelWrite
    BY <2>5 DEF SRelWrite
  <2>. QED
    BY <1>2, <2>1, <2>2, <2>3, <2>4, <2>5
    DEF ServerStep, SPollConnect, SAdd, SAck, SPollSubmit, SGetId, SGetSize,
        SCopy, SUnstage, SBind, SExecCall, SExecGoodbye, SRelLock, SRelRead,
        SRelUnlock
<1>. QED
  BY <1>1, <1>2 DEF Next

(* When a buffer other than the first is taken, its sender is connected. *)
LEMMA ContextStep ==
  ASSUME ClientTypeOK, ServerTypeOK, SharedTypeOK, CallsInOwnContext, ConnInv,
         CreateInv, IdInv, TakenInv, SizeInv, RanInv, Next
  PROVE  CallsInOwnContext'
<1> USE SlotsNotZero
<1> USE DEF Goto, SGoto, TakeLock, DropLock, NewBatch, EndRound, lockVars,
            stageVars, slotVars, loopVars, connVars, relVars, serverVars,
            callVars, clientVars, CallsInOwnContext, ClientTypeOK,
            ServerTypeOK, SharedTypeOK, ConnInv, CreateInv, IdInv, TakenInv,
            SizeInv, RanInv, Owns, Served, InFlight, ConnPcs, WaitPcs,
            SubmitPcs, NoSlotPcs, TakenPcs, AnswerPcs, Batch, Request,
            Batches, Requests, BeforeAnswer
<1>1. ASSUME NEW c \in Clients, ClientStep(c) \/ ProgramStep(c)
      PROVE  CallsInOwnContext'
  <2>. QED
    BY <1>1
    DEF ClientStep, ProgramStep, ClaimLock, ClaimRead, ClaimWrite, ClaimFull,
        ConnTest, ConnUnlock, ConnSpin, ConnLock, ConnWrite, ConnDone,
        SubLock, SubTest, SubUnlock, SubSpin, SubFlag, SubCopy, SubId,
        SubSize, SubGo, SubDone, Answered, Left, Return, StartUp, Call,
        CallDropped, Goodbye, Crash
<1>2. CASE ServerStep
  <2>1. CASE SCopy
    BY <2>1 DEF SCopy
  <2>2. CASE SBind
    BY <2>2 DEF SBind
  <2>. QED
    BY <1>2, <2>1, <2>2
    DEF ServerStep, SPollConnect, SAdd, SAck, SPollSubmit, SGetId, SGetSize,
        SCheck, SUnstage, SExecCall, SExecGoodbye, SReply, SClear, SRelLock,
        SRelWipe, SRelRead, SRelWrite, SRelUnlock
<1>. QED
  BY <1>1, <1>2 DEF Next

-----------------------------------------------------------------------------
(* The invariant holds when the server has just started.                   *)
LEMMA ConnInit == Init => ConnIInv
<1> SUFFICES ASSUME Init PROVE ConnIInv
  OBVIOUS
<1> USE SlotsNotZero DEF Init
<1>1. SlotIInv
  BY SlotInit
<1>2. ConnInv
  BY DEF ConnInv, Owns, ConnPcs
<1>3. CreateInv /\ CallsInOwnContext
  BY DEF CreateInv, CallsInOwnContext, Owns
<1>4. CleanInv
  BY DEF CleanInv, ClaimedSlotClean, Fresh, ConnPcs
<1>. QED
  BY <1>1, <1>2, <1>3, <1>4 DEF ConnIInv

(* Every step preserves it.                                                *)
LEMMA ConnNext == ConnIInv /\ [Next]_vars => ConnIInv'
<1> SUFFICES ASSUME ConnIInv, [Next]_vars PROVE ConnIInv'
  OBVIOUS
<1> USE DEF ConnIInv
<1>0. SlotIInv'
  BY SlotNext
<1>1. CASE Next
  <2> USE DEF SlotIInv, TypeOK
  <2>1. ConnInv'
    BY <1>1, ConnStep
  <2>2. CreateInv'
    BY <1>1, CreateStep
  <2>3. CleanInv'
    BY <1>1, CleanStep
  <2>4. CallsInOwnContext'
    BY <1>1, ContextStep
  <2>. QED
    BY <1>0, <2>1, <2>2, <2>3, <2>4
<1>2. CASE UNCHANGED vars
  <2> USE <1>2
  <2> USE DEF vars, lockVars, stageVars, slotVars, serverVars, loopVars,
              connVars, relVars, clientVars, callVars
  <2>1. ConnInv'
    BY DEF ConnInv, Owns, Served
  <2>2. CreateInv'
    BY DEF CreateInv, Owns, Served, BeforeAnswer
  <2>3. CleanInv'
    BY DEF CleanInv, ClaimedSlotClean, Fresh
  <2>4. CallsInOwnContext'
    BY DEF CallsInOwnContext
  <2>. QED
    BY <1>0, <2>1, <2>2, <2>3, <2>4
<1>. QED
  BY <1>1, <1>2

(* ConnIInv holds in every reachable state.                                *)
THEOREM ConnInvariant == Spec => []ConnIInv
  BY ConnInit, ConnNext, PTL DEF Spec

-----------------------------------------------------------------------------
(* connection_add runs once per claimed slot and connection_rem before the *)
(* slot is free: one context per owned slot at most, none for a free one.  *)
THEOREM ConnectionsAreMatched == Spec => []ConnectionsMatchSlots
<1>1. ConnIInv => ConnectionsMatchSlots
  <2> SUFFICES ASSUME ConnIInv, NEW s \in Slots
               PROVE  conns[s] <= 1 /\ (conns[s] = 1 => s \in slotMask)
    BY DEF ConnectionsMatchSlots
  <2>1. conns[s] <= 1
    BY DEF ConnIInv, ConnInv
  <2>2. conns[s] = 1 => s \in slotMask
    BY DEF ConnIInv, ConnInv, SlotIInv, SlotExclusive
  <2>. QED
    BY <2>1, <2>2
<1>. QED
  BY <1>1, ConnInvariant, PTL

(* A claimed slot holds nothing of its former owner.                       *)
THEOREM ClaimedSlotsAreClean == Spec => []ClaimedSlotClean
<1>1. ConnIInv => ClaimedSlotClean
  BY DEF ConnIInv, CleanInv
<1>. QED
  BY <1>1, ConnInvariant, PTL

(* Calls and goodbyes run in the context of their sender's connection.     *)
THEOREM CallsRunInOwnContext == Spec => []CallsInOwnContext
<1>1. ConnIInv => CallsInOwnContext
  BY DEF ConnIInv
<1>. QED
  BY <1>1, ConnInvariant, PTL

-----------------------------------------------------------------------------
(* Results and the service                                                 *)

(* A step that leaves the results alone and takes no buffer keeps ReplyInv. *)
LEMMA CheckKeepsReplies ==
  ASSUME ReplyInv, spc = "check", spc' = "copy",
         UNCHANGED <<slotRet, clientVars, exec, sRet, ran>>
  PROVE  ReplyInv'
<1>1. \A c \in Clients : Served(c)' = Served(c) /\ Request(c)' = Request(c)
  BY DEF Served, Request, clientVars, callVars
<1>. QED
  BY <1>1 DEF ReplyInv, clientVars, callVars, TakenPcs

(* The server writes the result of a buffer into the slot of its sender, and
   the sender looks at it only when its flag is down. *)
LEMMA ReplyStep ==
  ASSUME ClientTypeOK, ServerTypeOK, SharedTypeOK, ReplyInv, SlotExclusive,
         IdInv, RanInv, TakenInv, FlagInv, SizeInv, ReleaseInv, StageInv, Next
  PROVE  ReplyInv'
<1> USE SlotsNotZero
<1> USE DEF Goto, SGoto, TakeLock, DropLock, NewBatch, EndRound, lockVars,
            stageVars, slotVars, loopVars, connVars, relVars, serverVars,
            callVars, clientVars, ReplyInv, ClientTypeOK, ServerTypeOK,
            SharedTypeOK, SlotExclusive, IdInv, RanInv, TakenInv, FlagInv,
            SizeInv, ReleaseInv, StageInv, Owns, Served, InFlight, WaitPcs,
            SubmitPcs, NoSlotPcs, TakenPcs, AnswerPcs, ReleasePcs, Batch,
            Request, Batches, Requests, Acceptable, FreeSlots
<1>1. ASSUME NEW c \in Clients, ClientStep(c) \/ ProgramStep(c)
      PROVE  ReplyInv'
  <2>1. CASE ClaimWrite(c)
    BY <2>1 DEF ClaimWrite
  <2>2. CASE ConnDone(c)
    BY <2>2 DEF ConnDone
  <2>3. CASE SubGo(c)
    BY <2>3 DEF SubGo
  <2>4. CASE SubDone(c)
    BY <2>4 DEF SubDone
  <2>5. CASE Answered(c)
    BY <2>5 DEF Answered
  <2>6. CASE Left(c)
    BY <2>6 DEF Left
  <2>7. CASE Return(c)
    BY <2>7 DEF Return
  <2>8. CASE Call(c)
    BY <2>8 DEF Call
  <2>9. CASE CallDropped(c)
    <3>1. /\ pc[c] = "run" /\ pc' = [pc EXCEPT ![c] = "dropped"]
          /\ slotRet' = [slotRet EXCEPT ![id[c]] = NoResult]
          /\ UNCHANGED <<id, callVars, spc, exec, sRet, ran>>
      BY <2>9 DEF CallDropped
    <3>2. id[c] # 0 /\ Owns(c)
      BY <3>1
    <3>3. \A d \in Clients \ {c} : Owns(d) => id[d] # id[c]
      BY <3>2
    <3>. QED
      BY <3>1, <3>2, <3>3
  <2>10. CASE Goodbye(c)
    BY <2>10 DEF Goodbye
  <2>11. CASE ClaimLock(c)
    BY <2>11 DEF ClaimLock
  <2>12. CASE ClaimRead(c)
    BY <2>12 DEF ClaimRead
  <2>13. CASE ClaimFull(c)
    BY <2>13 DEF ClaimFull
  <2>14. CASE ConnTest(c)
    BY <2>14 DEF ConnTest
  <2>15. CASE ConnUnlock(c)
    BY <2>15 DEF ConnUnlock
  <2>16. CASE ConnSpin(c)
    BY <2>16 DEF ConnSpin
  <2>17. CASE ConnLock(c)
    BY <2>17 DEF ConnLock
  <2>18. CASE ConnWrite(c)
    BY <2>18 DEF ConnWrite
  <2>19. CASE SubLock(c)
    BY <2>19 DEF SubLock
  <2>20. CASE SubTest(c)
    BY <2>20 DEF SubTest
  <2>21. CASE SubUnlock(c)
    BY <2>21 DEF SubUnlock
  <2>22. CASE SubSpin(c)
    BY <2>22 DEF SubSpin
  <2>23. CASE SubFlag(c)
    BY <2>23 DEF SubFlag
  <2>24. CASE SubCopy(c)
    BY <2>24 DEF SubCopy
  <2>25. CASE SubId(c)
    BY <2>25 DEF SubId
  <2>26. CASE SubSize(c)
    BY <2>26 DEF SubSize
  <2>27. CASE StartUp(c)
    BY <2>27 DEF StartUp
  <2>28. CASE Crash(c)
    BY <2>28 DEF Crash
  <2>. QED
    BY <1>1, <2>1, <2>2, <2>3, <2>4, <2>5, <2>6, <2>7, <2>8, <2>9, <2>10,
       <2>11, <2>12, <2>13, <2>14, <2>15, <2>16, <2>17, <2>18, <2>19, <2>20,
       <2>21, <2>22, <2>23, <2>24, <2>25, <2>26, <2>27, <2>28
    DEF ClientStep, ProgramStep
<1>2. CASE ServerStep
  <2>1. CASE SCheck
    <3>1. Acceptable
      BY <2>1 DEF SCheck
    <3>2. UNCHANGED <<slotRet, clientVars, exec, sRet, ran>> /\ spc' = "copy"
      BY <2>1, <3>1 DEF SCheck
    <3>. QED
      BY <2>1, <3>2, CheckKeepsReplies DEF SCheck
  <2>2. CASE SCopy
    BY <2>2 DEF SCopy
  <2>3. CASE SExecCall
    BY <2>3 DEF SExecCall
  <2>4. CASE SExecGoodbye
    BY <2>4 DEF SExecGoodbye
  <2>5. CASE SReply
    BY <2>5 DEF SReply
  <2>6. CASE SClear
    BY <2>6 DEF SClear
  <2>7. CASE SRelWipe
    BY <2>7 DEF SRelWipe
  <2>8. CASE SPollConnect
    BY <2>8 DEF SPollConnect
  <2>9. CASE SAdd
    BY <2>9 DEF SAdd
  <2>10. CASE SAck
    BY <2>10 DEF SAck
  <2>11. CASE SPollSubmit
    BY <2>11 DEF SPollSubmit
  <2>12. CASE SGetId
    BY <2>12 DEF SGetId
  <2>13. CASE SGetSize
    BY <2>13 DEF SGetSize
  <2>14. CASE SUnstage
    BY <2>14 DEF SUnstage
  <2>15. CASE SBind
    BY <2>15 DEF SBind
  <2>16. CASE SRelLock
    BY <2>16 DEF SRelLock
  <2>17. CASE SRelRead
    BY <2>17 DEF SRelRead
  <2>18. CASE SRelWrite
    BY <2>18 DEF SRelWrite
  <2>19. CASE SRelUnlock
    BY <2>19 DEF SRelUnlock
  <2>. QED
    BY <1>2, <2>1, <2>2, <2>3, <2>4, <2>5, <2>6, <2>7, <2>8, <2>9, <2>10,
       <2>11, <2>12, <2>13, <2>14, <2>15, <2>16, <2>17, <2>18, <2>19
    DEF ServerStep
<1>. QED
  BY <1>1, <1>2 DEF Next

-----------------------------------------------------------------------------
(* ReplyIInv is inductive.                                                 *)
LEMMA ReplyInit == Init => ReplyIInv
<1> SUFFICES ASSUME Init PROVE ReplyIInv
  OBVIOUS
<1>1. SlotIInv
  BY SlotInit
<1>2. ReplyInv
  BY DEF Init, ReplyInv, Served, WaitPcs, TakenPcs
<1>. QED
  BY <1>1, <1>2 DEF ReplyIInv

LEMMA ReplyNext == ReplyIInv /\ [Next]_vars => ReplyIInv'
<1> SUFFICES ASSUME ReplyIInv, [Next]_vars PROVE ReplyIInv'
  OBVIOUS
<1> USE DEF ReplyIInv
<1>1. SlotIInv'
  BY SlotNext
<1>2. CASE Next
  <2>1. ReplyInv'
    BY <1>2, ReplyStep DEF SlotIInv, TypeOK
  <2>. QED
    BY <1>1, <2>1
<1>3. CASE UNCHANGED vars
  <2>1. ReplyInv'
    BY <1>3 DEF ReplyInv, Served, Request, vars, lockVars, stageVars, slotVars,
                serverVars, loopVars, connVars, relVars, clientVars, callVars
  <2>. QED
    BY <1>1, <2>1
<1>. QED
  BY <1>2, <1>3

(* Every call that is about to read its result finds its own.              *)
THEOREM ReplyInvariant == Spec => []ReplyIInv
  BY ReplyInit, ReplyNext, PTL DEF Spec

-----------------------------------------------------------------------------
(* A step that leaves the phases, the requests and the results as they are *)
(* is no step of the service.                                              *)
LEMMA StutterLemma ==
  ASSUME \A c \in Clients : Phase(c)' = Phase(c) /\ Request(c)' = Request(c),
         got' = got
  PROVE  UNCHANGED Service!vars
  BY DEF Service!vars

(* A step of one client changes the abstract state of that client only.    *)
LEMMA OthersLemma ==
  ASSUME ClientTypeOK, NEW c \in Clients, ClientStep(c) \/ ProgramStep(c)
  PROVE  \A d \in Clients \ {c} :
           Phase(d)' = Phase(d) /\ Request(d)' = Request(d) /\ got'[d] = got[d]
<1>1. \A d \in Clients \ {c} :
        /\ pc'[d] = pc[d] /\ alive'[d] = alive[d] /\ ran'[d] = ran[d]
        /\ kind'[d] = kind[d] /\ bit'[d] = bit[d] /\ got'[d] = got[d]
  BY DEF ClientTypeOK, Goto, NewBatch, serverVars, callVars, clientVars,
         ClientStep, ProgramStep, ClaimLock, ClaimRead, ClaimWrite, ClaimFull, ConnTest, ConnUnlock,
         ConnSpin, ConnLock, ConnWrite, ConnDone, SubLock, SubTest,
         SubUnlock, SubSpin, SubFlag, SubCopy, SubId, SubSize,
         SubGo, SubDone, Answered, Left, Return, StartUp,
         Call, CallDropped, Goodbye, Crash
<1>. QED
  BY <1>1 DEF Phase, Request

(* Its own: what the client's steps are to the service.                    *)
LEMMA ClientRefines ==
  ASSUME ReplyIInv, NEW c \in Clients, ClientStep(c) \/ ProgramStep(c)
  PROVE  Service!Next \/ UNCHANGED Service!vars
<1> USE DEF ReplyIInv, SlotIInv, TypeOK, ClientTypeOK, ServerTypeOK
<1> DEFINE P == [d \in Clients |-> Phase(d)]
           R == [d \in Clients |-> Request(d)]
<1>0. /\ \A d \in Clients \ {c} : Phase(d)' = Phase(d)
      /\ \A d \in Clients \ {c} : Request(d)' = Request(d)
      /\ \A d \in Clients \ {c} : got'[d] = got[d]
      /\ got' \in [Clients -> Requests \cup {NoResult}]
  <2>1. SlotIInv'
    BY SlotNext DEF Next
  <2>. QED
    BY <2>1, OthersLemma
<1>1. ASSUME NEW k \in Kinds,
             Phase(c) = IF k = "create" THEN "closed" ELSE "idle",
             Phase(c)' = "asked",
             Request(c)' = [from |-> c, kind |-> k, bit |-> 1 - bit[c]],
             got'[c] = NoResult
      PROVE  Service!Ask(c, k)
  <2>1. P' = [P EXCEPT ![c] = "asked"]
    BY <1>0, <1>1
  <2>2. R' = [R EXCEPT ![c] = [from |-> c, kind |-> k, bit |-> 1 - @.bit]]
    BY <1>0, <1>1 DEF Request
  <2>3. got' = [got EXCEPT ![c] = NoResult]
    BY <1>0, <1>1
  <2>. QED
    BY <1>1, <2>1, <2>2, <2>3 DEF Service!Ask
<1>2. ASSUME Phase(c)' = Phase(c), Request(c)' = Request(c), got'[c] = got[c]
      PROVE  UNCHANGED Service!vars
  <2>1. got' = got
    BY <1>0, <1>2
  <2>. QED
    BY <1>0, <1>2, <2>1, StutterLemma
<1>13. ASSUME NEW v, Phase(c)' = v, Request(c)' = Request(c)
       PROVE  P' = [P EXCEPT ![c] = v] /\ R' = R
  BY <1>0, <1>13
<1> USE DEF Goto, NewBatch, Phase, Request, SubmitPcs, WaitPcs, serverVars,
            clientVars, callVars, RanInv
<1>3. CASE ConnDone(c)
  <2>1. Service!Ask(c, "create")
    BY <1>1, <1>3 DEF ConnDone, Kinds
  <2>. QED
    BY <2>1 DEF Service!Next, Service!Kinds
<1>4. CASE Call(c)
  <2>1. Service!Ask(c, "call")
    BY <1>1, <1>4 DEF Call, Kinds
  <2>. QED
    BY <2>1 DEF Service!Next, Service!Kinds
<1>5. CASE Goodbye(c)
  <2>1. Service!Ask(c, "goodbye")
    BY <1>1, <1>5 DEF Goodbye, Kinds
  <2>. QED
    BY <2>1 DEF Service!Next, Service!Kinds
<1>6. CASE CallDropped(c)
  <2>1. Phase(c) = "idle" /\ Phase(c)' = "refused" /\ Request(c)' = Request(c)
        /\ got'[c] = NoResult
    BY <1>6 DEF CallDropped
  <2>2. P' = [P EXCEPT ![c] = "refused"] /\ R' = R
    BY <1>13, <2>1
  <2>3. got' = [got EXCEPT ![c] = NoResult]
    BY <1>0, <2>1
  <2>4. Service!AskRefused(c)
    BY <2>1, <2>2, <2>3 DEF Service!AskRefused
  <2>. QED
    BY <2>4 DEF Service!Next
<1>7. CASE Answered(c)
  <2>1. ran[c] = bit[c]
    BY <1>7 DEF Answered, FlagInv, InFlight
  <2>. QED
    BY <1>2, <1>7, <2>1 DEF Answered
<1>8. CASE Left(c)
  <2>1. ran[c] = bit[c]
    BY <1>8 DEF Left, FlagInv, InFlight
  <2>2. Phase(c) = "done" /\ Request(c).kind = "goodbye"
    BY <1>8, <2>1 DEF Left
  <2>3. Phase(c)' = "closed"
    BY <1>8 DEF Left
  <2>4. alive[c] /\ Request(c)' = Request(c) /\ got' = got
    BY <1>8 DEF Left
  <2>5. P' = [P EXCEPT ![c] = "closed"] /\ R' = R
    BY <1>13, <2>3, <2>4
  <2>6. Service!Leave(c)
    BY <2>2, <2>4, <2>5 DEF Service!Leave
  <2>. QED
    BY <2>6 DEF Service!Next
<1>9. CASE Return(c)
  <2>1. Phase(c)' = "idle" /\ Request(c)' = Request(c)
        /\ got' = [got EXCEPT ![c] = slotRet[id[c]]]
    BY <1>9 DEF Return
  <2>2. P' = [P EXCEPT ![c] = "idle"] /\ R' = R
    BY <1>13, <2>1
  <2>3. CASE pc[c] = "ret"
    <3>1. Phase(c) = "done" /\ Request(c).kind # "goodbye"
          /\ slotRet[id[c]] = Request(c)
      BY <1>9, <2>3 DEF Return, ReplyInv
    <3>2. Service!GetResult(c)
      BY <2>1, <2>2, <3>1 DEF Service!GetResult
    <3>. QED
      BY <3>2 DEF Service!Next
  <2>4. CASE pc[c] = "dropped"
    <3>1. Phase(c) = "refused" /\ slotRet[id[c]] = NoResult
      BY <1>9, <2>4 DEF Return, ReplyInv
    <3>2. Service!GetRefused(c)
      BY <2>1, <2>2, <3>1 DEF Service!GetRefused
    <3>. QED
      BY <3>2 DEF Service!Next
  <2>. QED
    BY <1>9, <2>3, <2>4 DEF Return
<1>10. CASE Crash(c)
  <2>1. Phase(c)' = "dead" /\ Request(c)' = Request(c) /\ got' = got
    BY <1>10 DEF Crash
  <2>2. P' = [P EXCEPT ![c] = "dead"] /\ R' = R
    BY <1>13, <2>1
  <2>3. Service!Die(c)
    BY <2>1, <2>2 DEF Service!Die
  <2>. QED
    BY <2>3 DEF Service!Next
<1>11. CASE \/ StartUp(c) \/ ClaimLock(c) \/ ClaimRead(c) \/ ClaimWrite(c)
            \/ ClaimFull(c) \/ ConnTest(c) \/ ConnUnlock(c) \/ ConnSpin(c)
            \/ ConnLock(c) \/ ConnWrite(c)
  BY <1>2, <1>11 DEF StartUp, ClaimLock, ClaimRead, ClaimWrite, ClaimFull,
       ConnTest, ConnUnlock, ConnSpin, ConnLock, ConnWrite
<1>12. CASE \/ SubLock(c) \/ SubTest(c) \/ SubUnlock(c) \/ SubSpin(c)
            \/ SubFlag(c) \/ SubCopy(c) \/ SubId(c) \/ SubSize(c)
            \/ SubGo(c) \/ SubDone(c)
  BY <1>2, <1>12 DEF SubLock, SubTest, SubUnlock, SubSpin, SubFlag, SubCopy,
       SubId, SubSize, SubGo, SubDone
<1>. QED
  BY <1>3, <1>4, <1>5, <1>6, <1>7, <1>8, <1>9, <1>10, <1>11, <1>12
     DEF ClientStep, ProgramStep

(* The run of a buffer is the service's Run, unless its sender is dead; no *)
(* other step of the server is one of the service.                         *)
LEMMA ServerRefines ==
  ASSUME ReplyIInv, ServerStep
  PROVE  Service!Next \/ UNCHANGED Service!vars
<1> USE DEF ReplyIInv, SlotIInv, TypeOK, ClientTypeOK, ServerTypeOK
<1> DEFINE P == [d \in Clients |-> Phase(d)]
           R == [d \in Clients |-> Request(d)]
<1>0. UNCHANGED clientVars
  BY DEF ServerStep, SPollConnect, SAdd, SAck, SPollSubmit, SGetId, SGetSize,
         SCheck, SCopy, SUnstage, SBind, SExecCall, SExecGoodbye,
         SReply, SClear, SRelLock, SRelWipe, SRelRead, SRelWrite,
         SRelUnlock
<1>1. (\A c \in Clients : Request(c)' = Request(c)) /\ got' = got
  BY <1>0 DEF Request, clientVars, callVars
<1>2. CASE SExecCall \/ SExecGoodbye
  <2>1. PICK x \in Clients :
          /\ pc[x] \in WaitPcs /\ ran[x] # bit[x]
          /\ ran' = [ran EXCEPT ![x] = bit[x]]
    BY <1>2 DEF SExecCall, SExecGoodbye, SGoto, TakenInv, TakenPcs, InFlight,
                Batch, Request, Batches, Requests
  <2>2. ran'[x] = bit[x] /\ \A d \in Clients \ {x} : ran'[d] = ran[d]
    BY <2>1
  <2>3. \A d \in Clients \ {x} : Phase(d)' = Phase(d)
    BY <1>0, <2>2 DEF Phase, clientVars, callVars
  <2>4. CASE alive[x]
    <3>1. Phase(x) = "asked" /\ Phase(x)' = "done"
      BY <1>0, <2>1, <2>2, <2>4 DEF Phase, clientVars, callVars, SubmitPcs, WaitPcs
    <3>2. P' = [P EXCEPT ![x] = "done"] /\ R' = R
      BY <1>1, <2>1, <2>3, <3>1
    <3>3. Service!Run(x)
      BY <1>1, <2>1, <3>1, <3>2 DEF Service!Run
    <3>. QED
      BY <2>1, <3>3 DEF Service!Next
  <2>5. CASE ~alive[x]
    <3>1. Phase(x)' = Phase(x)
      BY <1>0, <2>5 DEF Phase, clientVars
    <3>. QED
      BY <1>1, <2>3, <3>1, StutterLemma
  <2>. QED
    BY <2>4, <2>5
<1>3. CASE ran' = ran
  <2>1. \A c \in Clients : Phase(c)' = Phase(c)
    BY <1>0, <1>3 DEF Phase, clientVars, callVars
  <2>. QED
    BY <1>1, <2>1, StutterLemma
<1>. QED
  BY <1>2, <1>3 DEF ServerStep, SPollConnect, SAdd, SAck, SPollSubmit, SGetId, SGetSize,
         SCheck, SCopy, SUnstage, SBind, SReply, SClear,
         SRelLock, SRelWipe, SRelRead, SRelWrite, SRelUnlock,
         loopVars, connVars, relVars

(* Each buffer is run once and answered with its own result; a dropped one *)
(* is not run and yields zero: ShmTransport implements RenderService.      *)
THEOREM TransportImplementsService == Spec => ServiceSpec
<1>1. Init => Service!Init
  BY DEF Init, Service!Init, Phase, Request, SubmitPcs, WaitPcs
<1>2. ReplyIInv /\ [Next]_vars => [Service!Next]_(Service!vars)
  <2> SUFFICES ASSUME ReplyIInv, [Next]_vars
               PROVE  Service!Next \/ UNCHANGED Service!vars
    OBVIOUS
  <2>1. CASE Next
    BY <2>1, ClientRefines, ServerRefines DEF Next
  <2>2. CASE UNCHANGED vars
    <3>1. \A c \in Clients : Phase(c)' = Phase(c) /\ Request(c)' = Request(c)
      BY <2>2 DEF Phase, Request, vars, serverVars, clientVars, callVars
    <3>2. got' = got
      BY <2>2 DEF vars, clientVars
    <3>. QED
      BY <3>1, <3>2, StutterLemma
  <2>. QED
    BY <2>1, <2>2
<1>. QED
  BY <1>1, <1>2, ReplyInvariant, PTL DEF Spec, ServiceSpec, Service!Spec

(* What a call returned is the value of the program's latest buffer, never *)
(* that of another one, and it is returned once: a program that has handed *)
(* over again, that waits or that left has none.                           *)
ResultsAreOwn ==
  \A c \in Clients :
    got[c] # NoResult => got[c] = Request(c) /\ (alive[c] => pc[c] = "run")

(* The same of the service, from which it follows                          *)
Phases == [c \in Clients |-> Phase(c)]
Asked == [c \in Clients |-> Request(c)]
Promise ==
  \A c \in Clients : got[c] # NoResult => got[c] = Asked[c] /\ Phases[c] \in {"idle", "dead"}

LEMMA PromiseStep ==
  ASSUME ClientTypeOK, Promise, [Service!Next]_(Service!vars) PROVE Promise'
<1> DEFINE P == Phases
           R == Asked
<1>1. P \in [Clients -> {Phase(c) : c \in Clients}] /\ DOMAIN R = Clients /\ DOMAIN got = Clients
  BY DEF Phases, Asked, ClientTypeOK
<1>2. CASE UNCHANGED Service!vars
  BY <1>2 DEF Service!vars, Promise, Phases, Asked
<1>3. ASSUME NEW c \in Clients,
             \/ \E k \in Service!Kinds : Service!Ask(c, k)
             \/ Service!AskRefused(c) \/ Service!Run(c)
             \/ Service!GetResult(c) \/ Service!GetRefused(c) \/ Service!Leave(c)
             \/ Service!Die(c)
      PROVE  Promise'
  <2>1. /\ \A d \in Clients \ {c} : P'[d] = P[d] /\ R'[d] = R[d] /\ got'[d] = got[d]
        /\ \/ got'[c] = NoResult
           \/ got'[c] = R'[c] /\ P'[c] = "idle"
           \/ got'[c] = got[c] /\ R'[c] = R[c] /\ (P'[c] = "dead" \/ P[c] \in {"asked", "done"})
    <3>1. ASSUME NEW k \in Service!Kinds, Service!Ask(c, k) PROVE
          /\ \A d \in Clients \ {c} : P'[d] = P[d] /\ R'[d] = R[d] /\ got'[d] = got[d]
          /\ got'[c] = NoResult
      BY <1>1, <3>1 DEF Service!Ask, Phases, Asked
    <3>2. CASE Service!AskRefused(c)
      BY <1>1, <3>2 DEF Service!AskRefused, Phases, Asked
    <3>3. CASE Service!Run(c)
      BY <1>1, <3>3 DEF Service!Run, Phases, Asked
    <3>4. CASE Service!GetResult(c)
      BY <1>1, <3>4 DEF Service!GetResult, Phases, Asked
    <3>5. CASE Service!GetRefused(c)
      BY <1>1, <3>5 DEF Service!GetRefused, Phases, Asked
    <3>6. CASE Service!Leave(c)
      BY <1>1, <3>6 DEF Service!Leave, Phases, Asked
    <3>7. CASE Service!Die(c)
      BY <1>1, <3>7 DEF Service!Die, Phases, Asked
    <3>. QED
      BY <1>3, <3>1, <3>2, <3>3, <3>4, <3>5, <3>6, <3>7
  <2>. QED
    BY <2>1 DEF Promise
<1>. QED
  BY <1>2, <1>3 DEF Service!Next

THEOREM ResultsOwn == Spec => []ResultsAreOwn
<1>1. Init => Promise
  BY DEF Init, Promise
<1>2. TypeOK => ClientTypeOK
  BY DEF TypeOK
<1>3. ClientTypeOK /\ Promise /\ [Service!Next]_(Service!vars) => Promise'
  BY PromiseStep
<1>4. ClientTypeOK /\ Promise => ResultsAreOwn
  BY DEF Promise, ResultsAreOwn, Phases, Asked, Phase, ClientTypeOK, SubmitPcs, WaitPcs
<1>. QED
  BY <1>1, <1>2, <1>3, <1>4, TypeCorrect, TransportImplementsService, PTL
     DEF ServiceSpec, Service!Spec, Spec

-----------------------------------------------------------------------------
(* A program that was killed with a connection, unless its goodbye was on  *)
(* the way, keeps its slot and its GL context for as long as the server    *)
(* runs: nothing in wait_shm or after it looks whether a client is alive   *)
(* (the run gone shows one such program; this is every one).               *)
THEOREM StrandedForGood ==
  ASSUME NEW c \in Clients, NEW s \in Slots
  PROVE  Spec => [](Stranded(c, s) => [](s \in slotMask /\ conns[s] > 0))
<1>1. SlotIInv /\ Stranded(c, s) => s \in slotMask /\ conns[s] > 0
  BY DEF SlotIInv, SlotExclusive, Stranded
<1>2. SlotIInv /\ Stranded(c, s) /\ [Next]_vars => Stranded(c, s)'
  <2> SUFFICES ASSUME SlotIInv, Stranded(c, s), [Next]_vars PROVE Stranded(c, s)'
    OBVIOUS
  <2>1. CASE UNCHANGED vars
    BY <2>1 DEF vars, serverVars, connVars, clientVars, callVars, Stranded, Owns, Served
  <2>2. ASSUME NEW d \in Clients, ClientStep(d) \/ ProgramStep(d) PROVE Stranded(c, s)'
    <3>1. ClientTypeOK /\ d # c
      BY <2>2, ClientFrame DEF SlotIInv, TypeOK, Stranded
    <3>2. /\ pc'[c] = pc[c] /\ alive'[c] = alive[c] /\ id'[c] = id[c] /\ kind'[c] = kind[c]
          /\ bit'[c] = bit[c] /\ ran' = ran /\ conns' = conns
      BY <2>2, <3>1, ClientFrame DEF serverVars, connVars
    <3>. QED
      BY <3>2 DEF Stranded, Owns, Served
  <2>3. CASE ServerStep
    <3>1. UNCHANGED clientVars
      BY <2>3, ServerFrame
    <3>2. conns'[s] > 0
      <4>1. conns \in [Slots -> Nat] /\ conns[s] > 0
        BY DEF SlotIInv, TypeOK, ServerTypeOK, Stranded
      <4>2. CASE SAdd
        BY <4>1, <4>2 DEF SAdd
      <4>3. CASE SExecGoodbye
        <5>1. spc = "exec" /\ exec.req.kind = "goodbye" /\ conns' = [conns EXCEPT ![exec.id] = 0]
          BY <4>3 DEF SExecGoodbye, SGoto
        <5>2. exec \in Batches /\ InFlight(exec.req.from) /\ exec = Batch(exec.req.from)
          BY <5>1 DEF SlotIInv, TakenInv, TakenPcs
        <5>3. exec.req.from \in Clients /\ exec.id = id[exec.req.from]
              /\ kind[exec.req.from] = "goodbye" /\ pc[exec.req.from] \in WaitPcs
          BY <5>1, <5>2 DEF Batches, Requests, Batch, Request, InFlight
        <5>4. exec.id \in Slots /\ Owns(exec.req.from)
          BY <5>2, <5>3, SlotsNotZero DEF Batches, Owns, Served, InFlight
        <5>5. exec.id # s
          BY <5>3, <5>4 DEF SlotIInv, SlotExclusive, Stranded
        <5>. QED
          BY <4>1, <5>1, <5>5
      <4>4. conns' = conns \/ SAdd \/ SExecGoodbye
        BY <2>3 DEF ServerStep, SPollConnect, SAck, SPollSubmit, SGetId, SGetSize, SCheck,
                    SCopy, SUnstage, SBind, SExecCall, SReply, SClear, SRelLock, SRelWipe,
                    SRelRead, SRelWrite, SRelUnlock, connVars
      <4>. QED
        BY <4>1, <4>2, <4>3, <4>4
    <3>. QED
      BY <3>1, <3>2 DEF clientVars, callVars, Stranded, Owns, Served
  <2>. QED
    BY <2>1, <2>2, <2>3 DEF Next
<1>. QED
  BY <1>1, <1>2, SlotInvariant, PTL DEF Spec

-----------------------------------------------------------------------------
(* Where a published buffer is                                             *)

(* A program whose flag is up stays with its buffer                        *)
LEMMA StaysWithBuffer ==
  ASSUME ClientTypeOK, NEW c \in Clients, ClientStep(c) \/ ProgramStep(c),
         \/ pc[c] \in StagingPcs
         \/ pc[c] \in WaitPcs /\ slotSubmit[id[c]] = 1
  PROVE  /\ pc'[c] \in StagingPcs \cup WaitPcs /\ (pc[c] \in WaitPcs => pc'[c] \in WaitPcs)
         /\ id'[c] = id[c] /\ kind'[c] = kind[c] /\ bit'[c] = bit[c] /\ size'[c] = size[c]
         /\ slotSubmit' = slotSubmit
<1> USE DEF Goto, callVars, ClientTypeOK, StagingPcs, WaitPcs, slotVars
<1>1. CASE SubCopy(c) \/ SubId(c) \/ SubSize(c)
  BY <1>1 DEF SubCopy, SubId, SubSize
<1>2. CASE SubGo(c) \/ SubDone(c)
  BY <1>2 DEF SubGo, SubDone
<1>3. CASE Crash(c)
  BY <1>3 DEF Crash
<1>4. CASE ~(SubCopy(c) \/ SubId(c) \/ SubSize(c) \/ SubGo(c) \/ SubDone(c) \/ Crash(c))
  BY <1>4 DEF ClientStep, ProgramStep, ClaimLock, ClaimRead, ClaimWrite, ClaimFull, ConnTest,
     ConnUnlock, ConnSpin, ConnLock, ConnWrite, ConnDone, SubLock, SubTest, SubUnlock, SubSpin,
     SubFlag, Answered, Left, Return, StartUp, Call, CallDropped, Goodbye
<1>. QED
  BY <1>1, <1>2, <1>3, <1>4

(* The flags are written by their owners, and lowered by the server        *)
LEMMA ClientFlags ==
  ASSUME ClientTypeOK, NEW c \in Clients, ClientStep(c) \/ ProgramStep(c)
  PROVE  \/ slotSubmit' = slotSubmit
         \/ /\ pc[c] = "subFlag" /\ pc'[c] = "subCopy" /\ id'[c] = id[c]
            /\ slotSubmit' = [slotSubmit EXCEPT ![id[c]] = 1]
<1>1. CASE SubFlag(c)
  BY <1>1 DEF SubFlag, Goto, ClientTypeOK
<1>2. CASE ~SubFlag(c)
  BY <1>2 DEF ClientStep, ProgramStep, ClaimLock, ClaimRead, ClaimWrite, ClaimFull, ConnTest,
     ConnUnlock, ConnSpin, ConnLock, ConnWrite, ConnDone, SubLock, SubTest, SubUnlock, SubSpin,
     SubCopy, SubId, SubSize, SubGo, SubDone, Answered, Left, Return, StartUp, Call, CallDropped,
     Goodbye, Crash, slotVars
<1>. QED
  BY <1>1, <1>2

(* What the server does to the flags, on its way round the loop            *)
LEMMA ServerFlags ==
  ASSUME SlotIInv, ServerStep
  PROVE  /\ \A s \in Slots : slotSubmit'[s] = 1 => slotSubmit[s] = 1
         /\ spc = "reply" => spc' = "clear"
         /\ spc = "clear" => slotSubmit'[sId] = 0
         /\ spc = "exec" => spc' = "reply"
         /\ spc # "clear" /\ spc \notin {"copy"} => exec' = exec
         /\ spc \notin {"clear", "relWipe"} => slotSubmit' = slotSubmit
<1>0. SharedTypeOK /\ ServerTypeOK
  BY DEF SlotIInv, TypeOK
<1>1. CASE SCheck
  <2>1. Acceptable
    BY <1>1, StagingIsGood DEF SCheck, StageConsistent, SGoto
  <2>2. slotSubmit' = slotSubmit
    BY <1>0, <1>1, <2>1 DEF SCheck, SharedTypeOK
  <2>. QED
    BY <1>1, <2>2 DEF SCheck, SGoto, AnswerPcs, loopVars
<1>2. CASE SReply \/ SClear \/ SRelWipe
  BY <1>0, <1>2 DEF SReply, SClear, SRelWipe, SGoto, AnswerPcs, loopVars, SharedTypeOK,
     ServerTypeOK, EndRound, SlotIInv, SizeInv, TakenInv, Batches
<1>3. CASE SExecCall \/ SExecGoodbye
  BY <1>3 DEF SExecCall, SExecGoodbye, SGoto, AnswerPcs, loopVars, slotVars
<1>4. CASE ~(SCheck \/ SReply \/ SClear \/ SRelWipe \/ SExecCall \/ SExecGoodbye)
  BY <1>4 DEF ServerStep, SPollConnect, SAdd, SAck, SPollSubmit, SGetId, SGetSize, SCopy, SUnstage,
     SBind, SRelLock, SRelRead, SRelWrite, SRelUnlock, SGoto, AnswerPcs, loopVars, slotVars
<1>. QED
  BY <1>1, <1>2, <1>3, <1>4

(* No flag stays up without an owner's buffer behind it                    *)
LEMMA RaisedStep == SlotIInv /\ SlotIInv' /\ RaisedInv /\ [Next]_vars => RaisedInv'
<1> SUFFICES ASSUME SlotIInv, SlotIInv', RaisedInv, [Next]_vars,
                    NEW s \in Slots, slotSubmit'[s] = 1
             PROVE  \E c \in Clients : RaisedFor(c, s)'
  BY DEF RaisedInv
<1>0. SharedTypeOK /\ ServerTypeOK /\ ClientTypeOK
  BY DEF SlotIInv, TypeOK
<1>1. CASE UNCHANGED vars
  BY <1>1 DEF vars, slotVars, serverVars, loopVars, clientVars, callVars, RaisedInv, RaisedFor,
     InFlight
<1>2. ASSUME NEW c \in Clients, ClientStep(c) \/ ProgramStep(c)
      PROVE  \E d \in Clients : RaisedFor(d, s)'
  <2>1. /\ UNCHANGED <<spc, exec, ran>>
        /\ \A d \in Clients \ {c} : pc'[d] = pc[d] /\ id'[d] = id[d] /\ bit'[d] = bit[d]
    BY <1>0, <1>2, ClientFrame DEF serverVars, loopVars
  <2>2. ASSUME slotSubmit[s] # 1
        PROVE  RaisedFor(c, s)'
    <3>1. pc'[c] = "subCopy" /\ id'[c] = id[c] /\ slotSubmit' = [slotSubmit EXCEPT ![id[c]] = 1]
      BY <1>0, <1>2, <2>2, ClientFlags
    <3>2. id[c] = s
      BY <1>0, <2>2, <3>1 DEF SharedTypeOK
    <3>. QED
      BY <3>1, <3>2 DEF RaisedFor, StagingPcs
  <2>3. ASSUME NEW d \in Clients \ {c}, RaisedFor(d, s)
        PROVE  RaisedFor(d, s)'
    BY <2>1, <2>3 DEF RaisedFor, InFlight
  <2>4. ASSUME RaisedFor(c, s)
        PROVE  RaisedFor(c, s)'
    <3>1. \/ pc[c] \in StagingPcs
          \/ pc[c] \in WaitPcs /\ slotSubmit[id[c]] = 1
      <4>1. CASE InFlight(c)
        BY <4>1 DEF InFlight, SlotIInv, FlagInv
      <4>2. CASE spc \in AnswerPcs /\ exec.req.from = c
        BY <4>2 DEF SlotIInv, TakenInv, Served, Batch
      <4>. QED
        BY <2>4, <4>1, <4>2 DEF RaisedFor
    <3>2. /\ pc'[c] \in StagingPcs \cup WaitPcs /\ (pc[c] \in WaitPcs => pc'[c] \in WaitPcs)
          /\ id'[c] = id[c] /\ bit'[c] = bit[c]
      BY <1>0, <1>2, <3>1, StaysWithBuffer
    <3>3. pc[c] \in StagingPcs => ran[c] # bit[c]
      BY DEF SlotIInv, RanInv, StagingPcs, SubmitPcs, WaitPcs
    <3>. QED
      BY <2>1, <2>4, <3>2, <3>3 DEF RaisedFor, InFlight
  <2>. QED
    BY <2>2, <2>3, <2>4 DEF RaisedInv
<1>3. CASE ServerStep
  <2>1. slotSubmit[s] = 1
    BY <1>3, ServerFlags
  <2>2. PICK d \in Clients : RaisedFor(d, s)
    BY <2>1 DEF RaisedInv
  <2>3. /\ pc' = pc /\ id' = id /\ bit' = bit
        /\ ran' = IF spc = "exec" THEN [ran EXCEPT ![exec.req.from] = exec.req.bit] ELSE ran
    BY <1>3, ServerFrame DEF clientVars, callVars
  <2>4. CASE pc[d] \in StagingPcs
    BY <2>2, <2>3, <2>4 DEF RaisedFor
  <2>5. CASE InFlight(d)
    <3>1. CASE spc = "exec" /\ exec.req.from = d
      BY <1>3, <2>2, <2>3, <3>1, ServerFlags DEF RaisedFor, AnswerPcs
    <3>2. CASE ~(spc = "exec" /\ exec.req.from = d)
      <4>1. ran'[d] = ran[d]
        BY <1>0, <2>3, <3>2 DEF ServerTypeOK
      <4>. QED
        BY <2>2, <2>3, <2>5, <4>1 DEF RaisedFor, InFlight
    <3>. QED
      BY <3>1, <3>2
  <2>6. CASE spc \in AnswerPcs /\ exec.req.from = d
    <3>1. sId = s
      BY <2>2, <2>6 DEF SlotIInv, TakenInv, SizeInv, Batch, RaisedFor
    <3>2. spc' \in AnswerPcs /\ spc # "clear"
      BY <1>3, <2>6, <3>1, ServerFlags DEF AnswerPcs
    <3>. QED
      BY <1>3, <2>2, <2>3, <2>6, <3>2, ServerFlags DEF RaisedFor, AnswerPcs
  <2>. QED
    BY <2>2, <2>4, <2>5, <2>6 DEF RaisedFor
<1>. QED
  BY <1>1, <1>2, <1>3 DEF Next

(* The three invariants that say where a buffer is, together               *)
LEMMA SpecRaised == Spec => [](SlotIInv /\ KeptInv /\ RaisedInv)
<1>1. Init => KeptInv /\ RaisedInv
  BY DEF Init, KeptInv, BuffersKept, InFlight, WaitPcs, RaisedInv
<1>. QED
  BY <1>1, KeptStep, RaisedStep, SlotInvariant, PTL DEF Spec

(* A program whose buffer was run, and was no goodbye, has a raised flag   *)
(* only while the server answers it                                        *)
LEMMA RaisedWhileAnswered ==
  ASSUME SlotIInv, RaisedInv, NEW c \in Clients,
         Served(c), kind[c] # "goodbye", slotSubmit[id[c]] = 1
  PROVE  spc \in AnswerPcs /\ exec = Batch(c)
<1>0. Owns(c) /\ id[c] \in Slots
  BY DEF Served, Owns, SlotIInv, IdInv, NoSlotPcs, WaitPcs, TypeOK, ClientTypeOK
<1>1. PICK d \in Clients : RaisedFor(d, id[c])
  BY <1>0 DEF RaisedInv
<1>2. id[d] = id[c] /\ id[d] # 0
  BY <1>0, <1>1, SlotsNotZero DEF RaisedFor
<1>3. CASE InFlight(d) \/ pc[d] \in StagingPcs
  <2>1. Owns(d)
    BY <1>2, <1>3 DEF Owns, Served, InFlight, StagingPcs, WaitPcs
  <2>2. d = c
    BY <1>0, <1>2, <2>1 DEF SlotIInv, SlotExclusive
  <2>. QED
    BY <1>3, <2>2 DEF Served, InFlight, StagingPcs, WaitPcs
<1>4. CASE spc \in AnswerPcs /\ exec.req.from = d
  <2>1. Served(d) /\ exec = Batch(d)
    BY <1>4 DEF SlotIInv, TakenInv
  <2>2. CASE kind[d] = "goodbye"
    <3>1. release = id[c]
      BY <1>2, <1>4, <2>1, <2>2 DEF SlotIInv, ReleaseInv, Batch, Request
    <3>. QED
      BY <1>0, <1>2, <3>1 DEF SlotIInv, ReleaseInv
  <2>3. CASE kind[d] # "goodbye"
    <3>1. Owns(d)
      BY <1>2, <2>3 DEF Owns
    <3>2. d = c
      BY <1>0, <1>2, <3>1 DEF SlotIInv, SlotExclusive
    <3>. QED
      BY <1>4, <2>1, <3>2
  <2>. QED
    BY <2>2, <2>3
<1>. QED
  BY <1>1, <1>3, <1>4 DEF RaisedFor

(* Every buffer that submit_shm published, but for a goodbye, is staged,   *)
(* or the server has it, or writes its answer, or has lowered the flag:    *)
(* exactly one of these.                                                   *)
THEOREM ShmAccounts == Spec => []WaitersAccounted
<1>1. ASSUME SlotIInv, KeptInv, RaisedInv, NEW c \in Clients,
             pc[c] \in WaitPcs, kind[c] # "goodbye"
      PROVE  \E p \in AllPlaces : Places(c) = {p}
  <2>0. /\ id[c] \in Slots /\ slotSubmit[id[c]] \in {0, 1}
        /\ Batch(c).req.from = c /\ Batch(c).id = id[c]
    BY <1>1 DEF SlotIInv, IdInv, NoSlotPcs, WaitPcs, TypeOK, ClientTypeOK, SharedTypeOK, Batch,
       Request
  <2>1. CASE InFlight(c)
    <3>1. slotSubmit[id[c]] = 1
      BY <1>1, <2>1 DEF SlotIInv, FlagInv
    <3>2. ~(spc \in AnswerPcs /\ exec = Batch(c))
      BY <1>1, <2>0, <2>1 DEF SlotIInv, TakenInv, Served, InFlight
    <3>3. Kept(c)
      BY <1>1, <2>1 DEF KeptInv, BuffersKept
    <3>4. CASE spc \in TakenPcs /\ exec = Batch(c)
      <4>1. ~(submit = 1 /\ spc # "unstage" /\ stage = Batch(c))
        BY <1>1, <2>0, <3>4 DEF SlotIInv, TakenInv, TakenPcs
      <4>2. Places(c) = {"taken"}
        BY <3>1, <3>2, <3>4, <4>1 DEF Places, AllPlaces
      <4>. QED
        BY <4>2 DEF AllPlaces
    <3>5. CASE ~(spc \in TakenPcs /\ exec = Batch(c))
      <4>1. submit = 1 /\ spc # "unstage" /\ stage = Batch(c)
        BY <1>1, <3>3, <3>5 DEF Kept, KeptInv, TakenPcs
      <4>2. Places(c) = {"staged"}
        BY <3>1, <3>2, <3>5, <4>1 DEF Places, AllPlaces
      <4>. QED
        BY <4>2 DEF AllPlaces
    <3>. QED
      BY <3>4, <3>5
  <2>2. CASE ~InFlight(c)
    <3>1. Served(c)
      BY <1>1, <2>2 DEF Served, InFlight
    <3>2. ~(submit = 1 /\ spc # "unstage" /\ stage = Batch(c))
      BY <1>1, <2>0, <2>2 DEF SlotIInv, StageInv
    <3>3. ~(spc \in TakenPcs /\ exec = Batch(c))
      BY <1>1, <2>0, <2>2 DEF SlotIInv, TakenInv
    <3>4. CASE slotSubmit[id[c]] = 0
      <4>1. ~(spc \in AnswerPcs /\ exec = Batch(c))
        BY <1>1, <2>0, <3>4 DEF SlotIInv, TakenInv
      <4>2. Places(c) = {"back"}
        BY <3>2, <3>3, <3>4, <4>1 DEF Places, AllPlaces
      <4>. QED
        BY <4>2 DEF AllPlaces
    <3>5. CASE slotSubmit[id[c]] = 1
      <4>1. spc \in AnswerPcs /\ exec = Batch(c)
        BY <1>1, <3>1, <3>5, RaisedWhileAnswered
      <4>2. Places(c) = {"reply"}
        BY <3>2, <3>3, <3>5, <4>1 DEF Places, AllPlaces
      <4>. QED
        BY <4>2 DEF AllPlaces
    <3>. QED
      BY <2>0, <3>4, <3>5
  <2>. QED
    BY <2>1, <2>2
<1>2. SlotIInv /\ KeptInv /\ RaisedInv => WaitersAccounted
  BY <1>1 DEF WaitersAccounted
<1>. QED
  BY <1>2, SpecRaised, PTL

-----------------------------------------------------------------------------
(* Liveness.  The hypothesis []NeverStuck stands for what is ENABLED where: *)
(* TLC checks it as an invariant.                                          *)

(* Fairness, taken apart for one program and for the server                *)
LEMMA FairAll == FairSpec => \A c \in Clients : ClientFair(c)
BY PTL DEF FairSpec

LEMMA FairClient ==
  ASSUME NEW c \in Clients
  PROVE  FairSpec => WF_vars(ClientStep(c))
<1>1. FairSpec => ClientFair(c)
  BY FairAll
<1>. QED
  BY <1>1, PTL DEF ClientFair

LEMMA FairServer == FairSpec => Spec /\ WF_vars(ServerStep)
BY PTL DEF FairSpec

(* A live program at one line                                              *)
At(c, k) == alive[c] /\ pc[c] = k

(* Where the steps of a program lead                                       *)
LEMMA ClientPath ==
  ASSUME ClientTypeOK, NEW c \in Clients, ClientStep(c)
  PROVE  /\ alive[c] /\ alive'[c]
         /\ pc[c] = "claim" => pc'[c] = "claimRead"
         /\ pc[c] = "claimRead" => pc'[c] = "claimWrite"
         /\ pc[c] = "claimWrite" => pc'[c] = "connTest" \/ (pc'[c] = "off" /\ lock' = 0)
         /\ pc[c] = "connTest" =>
              IF connect # 0 THEN pc'[c] = "connUnlock" ELSE pc'[c] = "connWrite"
         /\ pc[c] = "connUnlock" => pc'[c] = "connSpin" /\ lock' = 0
         /\ pc[c] = "connSpin" => pc'[c] = "connLock"
         /\ pc[c] = "connLock" => pc'[c] = "connTest"
         /\ pc[c] = "connWrite" => pc'[c] = "connDone"
         /\ pc[c] = "connDone" => pc'[c] = "subLock" /\ lock' = 0
         /\ pc[c] = "subLock" => pc'[c] = "subTest"
         /\ pc[c] = "subTest" =>
              IF submit = 1 THEN pc'[c] = "subUnlock" ELSE pc'[c] = "subFlag"
         /\ pc[c] = "subUnlock" => pc'[c] = "subSpin" /\ lock' = 0
         /\ pc[c] = "subSpin" => pc'[c] = "subLock"
         /\ pc[c] = "subFlag" => pc'[c] = "subCopy"
         /\ pc[c] = "subCopy" => pc'[c] = "subId"
         /\ pc[c] = "subId" => pc'[c] = "subSize"
         /\ pc[c] = "subSize" => pc'[c] = "subGo"
         /\ pc[c] = "subGo" => pc'[c] = "subDone" /\ submit' = 1
         /\ pc[c] = "subDone" => pc'[c] = "subWait" /\ lock' = 0
         /\ pc[c] = "subWait" => IF kind[c] = "goodbye" THEN pc'[c] = "off" ELSE pc'[c] = "ret"
         /\ pc[c] \in {"ret", "dropped"} => pc'[c] = "run"
<1> USE DEF Goto, ClientTypeOK, DropLock
<1>1. CASE ClaimLock(c) \/ ClaimRead(c)
  BY <1>1 DEF ClaimLock, ClaimRead
<1>2. CASE ClaimWrite(c) \/ ClaimFull(c)
  BY <1>2 DEF ClaimWrite, ClaimFull
<1>3. CASE ConnTest(c) \/ ConnUnlock(c) \/ ConnSpin(c)
  BY <1>3 DEF ConnTest, ConnUnlock, ConnSpin
<1>4. CASE ConnLock(c) \/ ConnWrite(c) \/ ConnDone(c)
  BY <1>4 DEF ConnLock, ConnWrite, ConnDone
<1>5. CASE SubLock(c) \/ SubTest(c) \/ SubUnlock(c)
  BY <1>5 DEF SubLock, SubTest, SubUnlock
<1>6. CASE SubSpin(c) \/ SubFlag(c) \/ SubCopy(c)
  BY <1>6 DEF SubSpin, SubFlag, SubCopy
<1>7. CASE SubId(c) \/ SubSize(c) \/ SubGo(c)
  BY <1>7 DEF SubId, SubSize, SubGo
<1>8. CASE SubDone(c) \/ Answered(c) \/ Left(c)
  BY <1>8 DEF SubDone, Answered, Left
<1>9. CASE Return(c)
  BY <1>9 DEF Return
<1>. QED
  BY <1>1, <1>2, <1>3, <1>4, <1>5, <1>6, <1>7, <1>8, <1>9 DEF ClientStep

(* A program that the library is busy for moves by these steps only        *)
LEMMA ClientMoves ==
  ASSUME ClientTypeOK, NEW c \in Clients, [Next]_vars, pc[c] \notin {"off", "run"}
  PROVE  \/ ClientStep(c)
         \/ pc'[c] = pc[c] /\ kind'[c] = kind[c] /\ id'[c] = id[c] /\ bit'[c] = bit[c]
<1>1. CASE UNCHANGED vars
  BY <1>1 DEF vars, clientVars, callVars
<1>2. ASSUME NEW d \in Clients, d # c, ClientStep(d) \/ ProgramStep(d)
      PROVE  pc'[c] = pc[c] /\ kind'[c] = kind[c] /\ id'[c] = id[c] /\ bit'[c] = bit[c]
  BY <1>2, ClientFrame
<1>3. CASE ProgramStep(c)
  BY <1>3 DEF ProgramStep, StartUp, Call, CallDropped, Goodbye, Crash, Goto, callVars
<1>4. CASE ServerStep
  BY <1>4 DEF ServerStep, SPollConnect, SAdd, SAck, SPollSubmit, SGetId, SGetSize, SCheck, SCopy,
     SUnstage, SBind, SExecCall, SExecGoodbye, SReply, SClear, SRelLock, SRelWipe, SRelRead,
     SRelWrite, SRelUnlock, clientVars, callVars
<1>. QED
  BY <1>1, <1>2, <1>3, <1>4 DEF Next

(* Where the steps of the server lead                                      *)
LEMMA ServerPath ==
  ASSUME SlotIInv, ServerStep
  PROVE  /\ spc = "conn" => IF connect # 0 THEN spc' = "add" ELSE spc' = "poll"
         /\ spc = "add" => spc' = "ack"
         /\ spc = "ack" => spc' = "conn" /\ connect' = 0
         /\ spc = "poll" => IF submit = 1 THEN spc' = "getId" ELSE spc' = "conn"
         /\ spc = "getId" => spc' = "getSize"
         /\ spc = "getSize" => spc' = "check"
         /\ spc = "check" => spc' = "copy"
         /\ spc = "copy" => spc' = "unstage"
         /\ spc = "unstage" => spc' = "bind" /\ submit' = 0
         /\ spc = "bind" => spc' = "exec"
         /\ spc = "exec" => spc' = "reply"
         /\ spc = "reply" => spc' = "clear"
         /\ spc = "clear" => IF release # 0 THEN spc' = "relLock" ELSE spc' = "conn"
         /\ spc = "relLock" => spc' = "relWipe"
         /\ spc = "relWipe" => spc' = "relRead"
         /\ spc = "relRead" => spc' = "relWrite"
         /\ spc = "relWrite" => spc' = "relUnlock" /\ release \notin slotMask'
         /\ spc = "relUnlock" => spc' = "conn" /\ lock' = 0
         /\ spc # "ack" => connect' = connect
         /\ spc # "unstage" => submit' = submit
         /\ spc \notin {"relLock", "relUnlock"} => lock' = lock
         /\ spc # "relWrite" => slotMask' = slotMask
         /\ spc \notin {"exec", "relUnlock"} => release' = release
<1>0. spc = "check" => Acceptable
  BY StagingIsGood DEF StageConsistent
<1> USE DEF SGoto, DropLock, lockVars, stageVars, relVars
<1>1. CASE SPollConnect \/ SAdd \/ SAck
  BY <1>1 DEF SPollConnect, SAdd, SAck
<1>2. CASE SPollSubmit \/ SGetId \/ SGetSize
  BY <1>2 DEF SPollSubmit, SGetId, SGetSize
<1>3. CASE SCheck
  BY <1>0, <1>3 DEF SCheck
<1>4. CASE SCopy \/ SUnstage \/ SBind
  BY <1>4 DEF SCopy, SUnstage, SBind
<1>5. CASE SExecCall \/ SExecGoodbye
  BY <1>5 DEF SExecCall, SExecGoodbye
<1>6. CASE SReply \/ SClear
  BY <1>6 DEF SReply, SClear
<1>7. CASE SRelLock \/ SRelWipe \/ SRelRead
  BY <1>7 DEF SRelLock, SRelWipe, SRelRead
<1>8. CASE SRelWrite \/ SRelUnlock
  BY <1>8 DEF SRelWrite, SRelUnlock
<1>. QED
  BY <1>1, <1>2, <1>3, <1>4, <1>5, <1>6, <1>7, <1>8 DEF ServerStep

(* Nobody but the server moves the server                                  *)
LEMMA ServerMoves ==
  ASSUME SlotIInv, [Next]_vars
  PROVE  ServerStep \/ UNCHANGED <<spc, release, exec>>
<1>1. ASSUME NEW c \in Clients, ClientStep(c) \/ ProgramStep(c)
      PROVE  UNCHANGED <<spc, release, exec>>
  BY <1>1, ClientFrame DEF SlotIInv, TypeOK, serverVars, relVars, loopVars
<1>2. CASE UNCHANGED vars
  BY <1>2 DEF vars, serverVars, relVars, loopVars
<1>. QED
  BY <1>1, <1>2 DEF Next

-----------------------------------------------------------------------------
(* Nobody stays where he need not wait                                     *)

(* No line of the loop, and no line of a program, is the last one          *)
ServerLeaves(k) == (spc = k) ~> ~(spc = k)
ClientLeaves(c, k) == At(c, k) ~> ~At(c, k)

(* The server stops at no line, but for the lock that a release takes      *)
LEMMA ServerGoesOn ==
  ASSUME NEW k \in LoopPcs \ {"relLock"}
  PROVE  FairSpec /\ []NeverStuck => ServerLeaves(k)
<1>1. SlotIInv /\ spc = k /\ <<ServerStep>>_vars => ~(spc = k)'
  BY ServerPath DEF LoopPcs, ReleasePcs
<1>2. NeverStuck /\ spc = k => ENABLED <<ServerStep>>_vars
  BY DEF NeverStuck, ServerWaits
<1>. QED
  BY <1>1, <1>2, SlotInvariant, FairServer, PTL DEF Spec, ServerLeaves

(* Nor does a program that holds the lock or has its result                *)
LEMMA ClientGoesOn ==
  ASSUME NEW c \in Clients, NEW k \in LockPcs \cup {"ret", "dropped"}
  PROVE  FairSpec /\ []NeverStuck => ClientLeaves(c, k)
<1>1. SlotIInv /\ At(c, k) /\ <<ClientStep(c)>>_vars => ~At(c, k)'
  <2> SUFFICES ASSUME SlotIInv, At(c, k), ClientStep(c) PROVE pc'[c] # k
    BY DEF At
  <2>1. ClientTypeOK
    BY DEF SlotIInv, TypeOK
  <2>. QED
    BY <2>1, ClientPath DEF At, LockPcs
<1>2. NeverStuck /\ At(c, k) => ENABLED <<ClientStep(c)>>_vars
  <2>1. NeverStuck => GoesOn(c)
    BY DEF NeverStuck
  <2>2. At(c, k) => alive[c] /\ ~ClientWaits(c)
    BY DEF At, ClientWaits, LockPcs
  <2>. QED
    BY <2>1, <2>2 DEF GoesOn
<1>. QED
  BY <1>1, <1>2, SlotInvariant, FairServer, FairClient, PTL DEF Spec, ClientLeaves

(* Without crashes nobody dies, with the lock or without it                *)
AliveForEver(c) == []alive[c]
LEMMA EverybodyLives ==
  ASSUME MayCrash = {}
  PROVE  Spec => \A c \in Clients : []alive[c]
<1>1. Init => \A c \in Clients : alive[c]
  BY DEF Init
<1>2. SlotIInv /\ (\A c \in Clients : alive[c]) /\ [Next]_vars => (\A c \in Clients : alive[c])'
  <2> SUFFICES ASSUME SlotIInv, \A c \in Clients : alive[c], [Next]_vars
               PROVE  alive' = alive
    OBVIOUS
  <2>1. ASSUME NEW c \in Clients, ClientStep(c) \/ ProgramStep(c)
        PROVE  alive' = alive
    BY <2>1 DEF ClientStep, ProgramStep, ClaimLock, ClaimRead, ClaimWrite, ClaimFull, ConnTest,
       ConnUnlock, ConnSpin, ConnLock, ConnWrite, ConnDone, SubLock, SubTest, SubUnlock, SubSpin,
       SubFlag, SubCopy, SubId, SubSize, SubGo, SubDone, Answered, Left, Return,
       StartUp, Call, CallDropped, Goodbye, Crash
  <2>2. CASE ServerStep
    BY <2>2, ServerFrame DEF clientVars
  <2>3. CASE UNCHANGED vars
    BY <2>3 DEF vars, clientVars
  <2>. QED
    BY <2>1, <2>2, <2>3 DEF Next
<1>3. Spec => [](\A c \in Clients : alive[c])
  BY <1>1, <1>2, SlotInvariant, PTL DEF Spec
<1>4. [](\A c \in Clients : alive[c]) => \A c \in Clients : []alive[c]
  OBVIOUS
<1>. QED
  BY <1>3, <1>4, PTL

LEMMA NobodyIsStranded ==
  ASSUME MayCrash = {}
  PROVE  Spec => []~LockStranded
<1>1. (\A c \in Clients : []alive[c]) => [](\A c \in Clients : alive[c])
  OBVIOUS
<1>2. (\A c \in Clients : alive[c]) => ~LockStranded
  BY DEF LockStranded
<1>. QED
  BY <1>1, <1>2, EverybodyLives, PTL

-----------------------------------------------------------------------------
(* Finitely many programs.  What each of finitely many programs has done   *)
(* with from some moment on, all of them have done with from the last of   *)
(* these moments on.  That is no assumption on the code, it holds of every *)
(* formula; but it takes an induction over the set of programs whose       *)
(* hypothesis is temporal, which the prover cannot be given.  So the       *)
(* theorems about any number of programs have the two instances they need  *)
(* as the hypothesis FinitelyMany; the two steps of the induction are      *)
(* proved here, and with them FinitelyMany for up to three programs.       *)

WritesNoMore(c) == <>[]~(pc[c] = "connWrite")
HoldsNoMore(c) == <>[]~ClientHolds(c)
NoConnect == \A c \in Clients : ~(pc[c] = "connWrite")
ConnectsCease == <>[]NoConnect

WritersSettle(S) ==
  (\A c \in S : WritesNoMore(c)) => <>[](\A c \in S : ~(pc[c] = "connWrite"))
HoldersSettle(S) ==
  (\A c \in S : HoldsNoMore(c)) => <>[](\A c \in S : ~ClientHolds(c))
FinitelyMany == WritersSettle(Clients) /\ HoldersSettle(Clients)

(* The start of the induction                                              *)
LEMMA NobodySettles == WritersSettle({}) /\ HoldersSettle({})
<1>1. (\A c \in {} : ~(pc[c] = "connWrite")) /\ (\A c \in {} : ~ClientHolds(c))
  OBVIOUS
<1>. QED
  BY <1>1, PTL DEF WritersSettle, HoldersSettle

(* Its step                                                                *)
LEMMA OneMoreSettles ==
  ASSUME NEW S, NEW d
  PROVE  /\ WritersSettle(S) => WritersSettle(S \cup {d})
         /\ HoldersSettle(S) => HoldersSettle(S \cup {d})
<1>1. /\ (\A c \in S \cup {d} : WritesNoMore(c))
            => (\A c \in S : WritesNoMore(c)) /\ WritesNoMore(d)
      /\ (\A c \in S \cup {d} : HoldsNoMore(c))
            => (\A c \in S : HoldsNoMore(c)) /\ HoldsNoMore(d)
  OBVIOUS
<1>2. /\ (\A c \in S : ~(pc[c] = "connWrite")) /\ ~(pc[d] = "connWrite")
            => (\A c \in S \cup {d} : ~(pc[c] = "connWrite"))
      /\ (\A c \in S : ~ClientHolds(c)) /\ ~ClientHolds(d)
            => (\A c \in S \cup {d} : ~ClientHolds(c))
  OBVIOUS
<1>3. WritersSettle(S) => WritersSettle(S \cup {d})
  BY <1>1, <1>2, PTL DEF WritersSettle, WritesNoMore
<1>4. HoldersSettle(S) => HoldersSettle(S \cup {d})
  BY <1>1, <1>2, PTL DEF HoldersSettle, HoldsNoMore
<1>. QED
  BY <1>3, <1>4

(* Up to three programs, as in the runs                                    *)
LEMMA FewProgramsSettle ==
  ASSUME NEW a, NEW b, NEW d, Clients = {a, b, d}
  PROVE  FinitelyMany
<1>1. Clients = (({} \cup {a}) \cup {b}) \cup {d}
  OBVIOUS
<1>2. WritersSettle((({} \cup {a}) \cup {b}) \cup {d})
  BY NobodySettles, OneMoreSettles
<1>3. HoldersSettle((({} \cup {a}) \cup {b}) \cup {d})
  BY NobodySettles, OneMoreSettles
<1>. QED
  BY <1>1, <1>2, <1>3 DEF FinitelyMany

-----------------------------------------------------------------------------
(* The registers, the round of the server                                  *)

(* CONNECT stays down when no program is about to write it                 *)
LEMMA ConnectStays ==
  ASSUME SlotIInv, NoConnect, connect = 0, [Next]_vars
  PROVE  (connect = 0)'
<1>1. ASSUME NEW c \in Clients, ClientStep(c) \/ ProgramStep(c)
      PROVE  connect' = connect
  <2>1. ~ConnWrite(c)
    BY DEF ConnWrite, Goto, NoConnect
  <2>. QED
    BY <1>1, <2>1 DEF ClientStep, ProgramStep, ClaimLock, ClaimRead, ClaimWrite, ClaimFull,
       ConnTest, ConnUnlock, ConnSpin, ConnLock, ConnDone, SubLock, SubTest, SubUnlock, SubSpin,
       SubFlag, SubCopy, SubId, SubSize, SubGo, SubDone, Answered, Left, Return, StartUp, Call,
       CallDropped, Goodbye, Crash, lockVars
<1>2. CASE ServerStep
  BY <1>2, ServerPath
<1>3. CASE UNCHANGED vars
  BY <1>3 DEF vars, lockVars
<1>. QED
  BY <1>1, <1>2, <1>3 DEF Next

(* Only the server lowers SUBMIT                                           *)
LEMMA SubmitStays ==
  ASSUME SlotIInv, [Next]_vars, submit = 1
  PROVE  \/ (submit = 1)'
         \/ ServerStep /\ spc = "unstage" /\ (submit = 0)'
<1>1. ASSUME NEW c \in Clients, ClientStep(c) \/ ProgramStep(c)
      PROVE  submit' = 1
  <2>1. pc[c] \notin StagingPcs
    BY DEF SlotIInv, StageInv
  <2>. QED
    BY <1>1, <2>1, ClientFrame DEF SlotIInv, TypeOK, stageVars
<1>2. CASE ServerStep
  BY <1>2, ServerFrame
<1>3. CASE UNCHANGED vars
  BY <1>3 DEF vars, stageVars
<1>. QED
  BY <1>1, <1>2, <1>3 DEF Next

(* The way round the loop of the server, line by line                      *)
LEMMA RoundPath ==
  ASSUME SlotIInv, [Next]_vars
  PROVE  /\ spc = "conn" => (spc = "conn")' \/ (spc = "add")' \/ (spc = "poll")'
         /\ spc = "conn" /\ connect = 0 => (spc = "conn")' \/ (spc = "poll")'
         /\ spc = "add" => (spc = "add")' \/ (spc = "ack")'
         /\ spc = "ack" => (spc = "ack")' \/ ((spc = "conn")' /\ (connect = 0)')
         /\ spc = "poll" /\ submit = 1 => (spc = "poll")' \/ (spc = "getId")'
         /\ spc = "getId" => (spc = "getId")' \/ (spc = "getSize")'
         /\ spc = "getSize" => (spc = "getSize")' \/ (spc = "check")'
         /\ spc = "check" => (spc = "check")' \/ (spc = "copy")'
         /\ spc = "copy" => (spc = "copy")' \/ (spc = "unstage")'
         /\ spc = "unstage" => (spc = "unstage")' \/ (submit = 0)'
         /\ spc = "bind" => (spc = "bind")' \/ (spc = "exec")'
         /\ spc = "exec" => (spc = "exec")' \/ (spc = "reply")'
         /\ spc = "reply" => (spc = "reply")' \/ (spc = "clear")'
         /\ spc = "clear" => (spc = "clear")' \/ (spc = "relLock")' \/ (spc = "conn")'
         /\ spc = "relLock" => (spc = "relLock")' \/ (spc = "relWipe")'
         /\ spc = "relWipe" => (spc = "relWipe")' \/ (spc = "relRead")'
         /\ spc = "relRead" => (spc = "relRead")' \/ (spc = "relWrite")'
         /\ spc = "relWrite" => (spc = "relWrite")' \/ (spc = "relUnlock")'
         /\ spc = "relUnlock" => (spc = "relUnlock")' \/ (spc = "conn")'
BY ServerPath, ServerMoves

(* The lines that the server leaves in the end, by name                    *)
LEMMA LoopLeaves ==
  FairSpec /\ []NeverStuck =>
    /\ ServerLeaves("conn") /\ ServerLeaves("add") /\ ServerLeaves("ack")
    /\ ServerLeaves("poll") /\ ServerLeaves("getId") /\ ServerLeaves("getSize")
    /\ ServerLeaves("check") /\ ServerLeaves("copy") /\ ServerLeaves("unstage")
    /\ ServerLeaves("bind") /\ ServerLeaves("exec") /\ ServerLeaves("reply")
    /\ ServerLeaves("clear") /\ ServerLeaves("relWipe") /\ ServerLeaves("relRead")
    /\ ServerLeaves("relWrite") /\ ServerLeaves("relUnlock")
<1>1. FairSpec /\ []NeverStuck => \A k \in LoopPcs \ {"relLock"} : ServerLeaves(k)
  BY ServerGoesOn
<1>. QED
  BY <1>1 DEF LoopPcs, ReleasePcs

-----------------------------------------------------------------------------
(* When programs cease to be started                                       *)

(* One program's part in it                                                *)
LEMMA StartsEnd ==
  ASSUME NEW c \in Clients
  PROVE  StartsCease => <>[]~At(c, "claim")
<1>1. NobodyStarts => ~At(c, "claim")
  BY DEF NobodyStarts, At
<1>. QED
  BY <1>1, PTL DEF StartsCease

(* Who holds the lock is alive and at no line for ever                     *)
PcLeaves(c, k) == (pc[c] = k) ~> ~(pc[c] = k)
LEMMA HolderLeaves ==
  ASSUME NEW c \in Clients, NEW k \in LockPcs
  PROVE  FairSpec /\ []NeverStuck /\ []~LockStranded => PcLeaves(c, k)
<1>1. ~LockStranded => (At(c, k) <=> pc[c] = k)
  BY DEF LockStranded, ClientHolds, At
<1>2. FairSpec /\ []NeverStuck => ClientLeaves(c, k)
  BY ClientGoesOn
<1>. QED
  BY <1>1, <1>2, PTL DEF ClientLeaves, PcLeaves

LEMMA HoldersLeave ==
  ASSUME NEW c \in Clients
  PROVE  FairSpec /\ []NeverStuck /\ []~LockStranded =>
           /\ PcLeaves(c, "claimRead") /\ PcLeaves(c, "claimWrite")
           /\ PcLeaves(c, "connTest") /\ PcLeaves(c, "connUnlock")
           /\ PcLeaves(c, "connWrite") /\ PcLeaves(c, "connDone")
           /\ PcLeaves(c, "subTest") /\ PcLeaves(c, "subUnlock")
           /\ PcLeaves(c, "subFlag") /\ PcLeaves(c, "subCopy")
           /\ PcLeaves(c, "subId") /\ PcLeaves(c, "subSize")
           /\ PcLeaves(c, "subGo") /\ PcLeaves(c, "subDone")
<1>1. FairSpec /\ []NeverStuck /\ []~LockStranded => \A k \in LockPcs : PcLeaves(c, k)
  BY HolderLeaves
<1>. QED
  BY <1>1 DEF LockPcs

(* Who joins, up to the connection                                         *)
JoinPcs == {"claimRead", "claimWrite", "connTest", "connUnlock", "connSpin", "connLock",
            "connWrite"}
Joins(c) == pc[c] \in JoinPcs

(* A program outside the library starts, calls or leaves                   *)
LEMMA ProgramMoves ==
  ASSUME SlotIInv, NEW c \in Clients, [Next]_vars
  PROVE  \/ ClientStep(c) /\ pc[c] \in Pcs \ {"off", "run"}
         \/ pc'[c] = pc[c]
         \/ pc'[c] = "claim" /\ pc[c] = "off"
         \/ pc'[c] \in {"subLock", "dropped"} /\ pc[c] = "run"
<1>0. ClientTypeOK
  BY DEF SlotIInv, TypeOK
<1>1. CASE UNCHANGED vars
  BY <1>1 DEF vars, clientVars
<1>2. ASSUME NEW d \in Clients, d # c, ClientStep(d) \/ ProgramStep(d)
      PROVE  pc'[c] = pc[c]
  BY <1>0, <1>2, ClientFrame
<1>3. CASE ClientStep(c)
  <2>1. pc[c] \notin {"off", "run"}
    BY <1>3 DEF ClientStep, ClaimLock, ClaimRead, ClaimWrite, ClaimFull, ConnTest, ConnUnlock,
       ConnSpin, ConnLock, ConnWrite, ConnDone, SubLock, SubTest, SubUnlock, SubSpin, SubFlag,
       SubCopy, SubId, SubSize, SubGo, SubDone, Answered, Left, Return, Goto
  <2>. QED
    BY <1>0, <1>3, <2>1 DEF ClientTypeOK
<1>4. CASE ProgramStep(c)
  BY <1>0, <1>4 DEF ProgramStep, StartUp, Call, CallDropped, Goodbye, Crash, Goto, ClientTypeOK
<1>5. CASE ServerStep
  BY <1>5, ServerFrame DEF clientVars
<1>. QED
  BY <1>1, <1>2, <1>3, <1>4, <1>5 DEF Next

(* It joins once for each time it is started, and writes CONNECT once then *)
LEMMA WriterStops ==
  ASSUME NEW c \in Clients
  PROVE  FairSpec /\ []NeverStuck /\ []~LockStranded /\ StartsCease => WritesNoMore(c)
<1>1. SlotIInv /\ [Next]_vars =>
        /\ ~At(c, "claim") /\ ~Joins(c) => ~Joins(c)'
        /\ pc[c] = "connWrite" => (pc[c] = "connWrite")' \/ ~Joins(c)'
  <2> SUFFICES ASSUME SlotIInv, [Next]_vars
               PROVE  /\ ~At(c, "claim") /\ ~Joins(c) => ~Joins(c)'
                      /\ pc[c] = "connWrite" => (pc[c] = "connWrite")' \/ ~Joins(c)'
    OBVIOUS
  <2>1. ClientTypeOK
    BY DEF SlotIInv, TypeOK
  <2>. QED
    BY <2>1, ClientPath, ProgramMoves DEF At, Joins, JoinPcs, ClientTypeOK, Pcs, LockPcs,
       SubmitPcs, WaitPcs
<1>2. pc[c] = "connWrite" => Joins(c)
  BY DEF Joins, JoinPcs
<1>. QED
  BY <1>1, <1>2, HoldersLeave, StartsEnd, SlotInvariant, FairServer,
     PTL DEF Spec, PcLeaves, WritesNoMore

LEMMA WritersStop ==
  FairSpec /\ []NeverStuck /\ []~LockStranded /\ StartsCease /\ FinitelyMany => ConnectsCease
<1>1. FairSpec /\ []NeverStuck /\ []~LockStranded /\ StartsCease
        => \A c \in Clients : WritesNoMore(c)
  BY WriterStops
<1>. QED
  BY <1>1, PTL DEF FinitelyMany, WritersSettle, ConnectsCease, NoConnect

(* While SUBMIT stays as it is, and nobody joins any more, a program takes *)
(* the lock a few times at most: then it waits for SUBMIT or CONNECT       *)
(* without the lock, or for nothing.                                       *)

(* The lines of a program that holds the lock to join                      *)
LEMMA JoinPath ==
  ASSUME SlotIInv, NEW c \in Clients, [Next]_vars
  PROVE  /\ ~At(c, "claim") /\ ~(pc[c] = "claimRead") => ~(pc[c] = "claimRead")'
         /\ ~(pc[c] = "claimRead") /\ ~(pc[c] = "claimWrite") => ~(pc[c] = "claimWrite")'
         /\ ~(pc[c] = "connWrite") /\ ~(pc[c] = "connDone") => ~(pc[c] = "connDone")'
         /\ connect = 0 /\ pc[c] = "connTest" => (pc[c] = "connTest")' \/ (pc[c] = "connWrite")'
         /\ ~(connect = 0) /\ pc[c] = "connTest" =>
              (pc[c] = "connTest")' \/ (pc[c] = "connUnlock")'
         /\ pc[c] = "connUnlock" => (pc[c] = "connUnlock")' \/ (pc[c] = "connSpin")'
         /\ ~(connect = 0) /\ pc[c] = "connSpin" => (pc[c] = "connSpin")'
         /\ ~(pc[c] = "connTest") /\ ~(pc[c] = "connUnlock") => ~(pc[c] = "connUnlock")'
<1>1. ClientTypeOK
  BY DEF SlotIInv, TypeOK
<1>2. pc[c] = "connSpin" /\ ClientStep(c) => connect = 0
  BY DEF ClientStep, ClaimLock, ClaimRead, ClaimWrite, ClaimFull, ConnTest, ConnUnlock,
     ConnSpin, ConnLock, ConnWrite, ConnDone, SubLock, SubTest, SubUnlock, SubSpin, SubFlag,
     SubCopy, SubId, SubSize, SubGo, SubDone, Answered, Left, Return, Goto
<1>. QED
  BY <1>1, <1>2, ClientPath, ProgramMoves DEF At, ClientTypeOK, Pcs, LockPcs, SubmitPcs, WaitPcs

(* The lines of a program that holds the lock to submit                    *)
LEMMA StagePath ==
  ASSUME SlotIInv, NEW c \in Clients, [Next]_vars
  PROVE  /\ ~(pc[c] = "subGo") /\ ~(pc[c] = "subDone") => ~(pc[c] = "subDone")'
         /\ submit = 1 /\ pc[c] = "subTest" => (pc[c] = "subTest")' \/ (pc[c] = "subUnlock")'
         /\ ~(submit = 1) /\ pc[c] = "subTest" => (pc[c] = "subTest")' \/ (pc[c] = "subFlag")'
         /\ pc[c] = "subUnlock" => (pc[c] = "subUnlock")' \/ (pc[c] = "subSpin")'
         /\ submit = 1 /\ pc[c] = "subSpin" => (pc[c] = "subSpin")'
         /\ ~(pc[c] = "subTest") /\ ~(pc[c] = "subUnlock") => ~(pc[c] = "subUnlock")'
         /\ pc[c] = "subFlag" => (pc[c] = "subFlag")' \/ (pc[c] = "subCopy")'
         /\ pc[c] = "subCopy" => (pc[c] = "subCopy")' \/ (pc[c] = "subId")'
         /\ pc[c] = "subId" => (pc[c] = "subId")' \/ (pc[c] = "subSize")'
         /\ pc[c] = "subSize" => (pc[c] = "subSize")' \/ (pc[c] = "subGo")'
         /\ pc[c] = "subGo" => (pc[c] = "subGo")' \/ (submit = 1)'
<1>1. ClientTypeOK
  BY DEF SlotIInv, TypeOK
<1>2. pc[c] = "subSpin" /\ ClientStep(c) => submit # 1
  BY DEF ClientStep, ClaimLock, ClaimRead, ClaimWrite, ClaimFull, ConnTest, ConnUnlock,
     ConnSpin, ConnLock, ConnWrite, ConnDone, SubLock, SubTest, SubUnlock, SubSpin, SubFlag,
     SubCopy, SubId, SubSize, SubGo, SubDone, Answered, Left, Return, Goto
<1>. QED
  BY <1>1, <1>2, ClientPath, ProgramMoves DEF ClientTypeOK, Pcs, LockPcs, SubmitPcs, WaitPcs

SubmitRests == <>[](submit = 1) \/ <>[]~(submit = 1)
HeldToJoin(c) ==
  \/ pc[c] = "claimRead" \/ pc[c] = "claimWrite" \/ pc[c] = "connTest"
  \/ pc[c] = "connUnlock" \/ pc[c] = "connWrite" \/ pc[c] = "connDone"
HeldToStage(c) ==
  \/ pc[c] = "subTest" \/ pc[c] = "subUnlock" \/ pc[c] = "subFlag" \/ pc[c] = "subCopy"
  \/ pc[c] = "subId" \/ pc[c] = "subSize" \/ pc[c] = "subGo" \/ pc[c] = "subDone"

LEMMA JoinerStops ==
  ASSUME NEW c \in Clients
  PROVE  FairSpec /\ []NeverStuck /\ []~LockStranded /\ StartsCease /\ ConnectsCease
           => <>[]~HeldToJoin(c)
<1>1. FairSpec /\ []NeverStuck /\ []~LockStranded /\ StartsCease /\ ConnectsCease
        => <>[](~(pc[c] = "claimRead") /\ ~(pc[c] = "claimWrite"))
  BY JoinPath, HoldersLeave, StartsEnd, SlotInvariant, FairServer, PTL DEF Spec, PcLeaves
<1>2. FairSpec /\ []NeverStuck /\ []~LockStranded /\ ConnectsCease
        => <>[](~(pc[c] = "connWrite") /\ ~(pc[c] = "connDone"))
  <2>1. NoConnect => ~(pc[c] = "connWrite")
    BY DEF NoConnect
  <2>. QED
    BY <2>1, JoinPath, HoldersLeave, SlotInvariant, FairServer,
       PTL DEF Spec, PcLeaves, ConnectsCease
<1>3. FairSpec /\ ConnectsCease => <>[](connect = 0) \/ <>[]~(connect = 0)
  BY ConnectStays, SlotInvariant, FairServer, PTL DEF Spec, ConnectsCease
<1>4. FairSpec /\ []NeverStuck /\ []~LockStranded /\ ConnectsCease /\ <>[](connect = 0)
        => <>[](~(pc[c] = "connTest") /\ ~(pc[c] = "connUnlock"))
  BY <1>2, JoinPath, HoldersLeave, SlotInvariant, FairServer, PTL DEF Spec, PcLeaves
<1>5. pc[c] = "connSpin" => ~(pc[c] = "connTest") /\ ~(pc[c] = "connUnlock")
  OBVIOUS
<1>6. FairSpec /\ []NeverStuck /\ []~LockStranded /\ <>[]~(connect = 0)
        => <>[](~(pc[c] = "connTest") /\ ~(pc[c] = "connUnlock"))
  BY <1>5, JoinPath, HoldersLeave, SlotInvariant, FairServer, PTL DEF Spec, PcLeaves
<1>7. HeldToJoin(c) <=>
        \/ pc[c] = "claimRead" \/ pc[c] = "claimWrite" \/ pc[c] = "connTest"
        \/ pc[c] = "connUnlock" \/ pc[c] = "connWrite" \/ pc[c] = "connDone"
  BY DEF HeldToJoin
<1>. QED
  BY <1>1, <1>2, <1>3, <1>4, <1>6, <1>7, PTL

LEMMA StagerStops ==
  ASSUME NEW c \in Clients
  PROVE  FairSpec /\ []NeverStuck /\ []~LockStranded /\ SubmitRests => <>[]~HeldToStage(c)
<1>1. SlotIInv /\ submit = 1 =>
        /\ ~(pc[c] = "subFlag") /\ ~(pc[c] = "subCopy") /\ ~(pc[c] = "subId")
        /\ ~(pc[c] = "subSize") /\ ~(pc[c] = "subGo")
  BY DEF SlotIInv, StageInv, StagingPcs
<1>2. pc[c] = "subSpin" => ~(pc[c] = "subTest") /\ ~(pc[c] = "subUnlock")
  OBVIOUS
<1>3. HeldToStage(c) <=>
        \/ pc[c] = "subTest" \/ pc[c] = "subUnlock" \/ pc[c] = "subFlag" \/ pc[c] = "subCopy"
        \/ pc[c] = "subId" \/ pc[c] = "subSize" \/ pc[c] = "subGo" \/ pc[c] = "subDone"
  BY DEF HeldToStage
<1>4. FairSpec /\ []NeverStuck /\ []~LockStranded /\ <>[](submit = 1) => <>[]~HeldToStage(c)
  <2>1. FairSpec /\ []NeverStuck /\ []~LockStranded /\ <>[](submit = 1)
          => <>[](~(pc[c] = "subTest") /\ ~(pc[c] = "subUnlock"))
    BY <1>2, StagePath, HoldersLeave, SlotInvariant, FairServer, PTL DEF Spec, PcLeaves
  <2>2. FairSpec /\ []NeverStuck /\ []~LockStranded /\ <>[](submit = 1)
          => <>[]~(pc[c] = "subDone")
    BY <1>1, StagePath, HoldersLeave, SlotInvariant, FairServer, PTL DEF Spec, PcLeaves
  <2>. QED
    BY <1>1, <1>3, <2>1, <2>2, SlotInvariant, FairServer, PTL
<1>5. FairSpec /\ []NeverStuck /\ []~LockStranded /\ <>[]~(submit = 1) => <>[]~HeldToStage(c)
  <2>1. FairSpec /\ []NeverStuck /\ []~LockStranded /\ <>[]~(submit = 1)
          => /\ <>[]~(pc[c] = "subGo") /\ <>[]~(pc[c] = "subSize") /\ <>[]~(pc[c] = "subId")
             /\ <>[]~(pc[c] = "subCopy") /\ <>[]~(pc[c] = "subFlag")
    BY StagePath, HoldersLeave, SlotInvariant, FairServer, PTL DEF Spec, PcLeaves
  <2>2. FairSpec /\ []NeverStuck /\ []~LockStranded /\ <>[]~(submit = 1)
          => <>[]~(pc[c] = "subTest")
    BY <2>1, StagePath, HoldersLeave, SlotInvariant, FairServer, PTL DEF Spec, PcLeaves
  <2>3. FairSpec /\ []NeverStuck /\ []~LockStranded /\ <>[]~(submit = 1)
          => <>[]~(pc[c] = "subUnlock") /\ <>[]~(pc[c] = "subDone")
    BY <2>1, <2>2, StagePath, HoldersLeave, SlotInvariant, FairServer, PTL DEF Spec, PcLeaves
  <2>. QED
    BY <1>3, <2>1, <2>2, <2>3, PTL
<1>. QED
  BY <1>4, <1>5, PTL DEF SubmitRests

NoHolder == \A c \in Clients : ~ClientHolds(c)
LEMMA HoldersStop ==
  FairSpec /\ []NeverStuck /\ []~LockStranded /\ StartsCease /\ FinitelyMany /\ SubmitRests
    => <>[]NoHolder
<1>1. ASSUME NEW c \in Clients
      PROVE  FairSpec /\ []NeverStuck /\ []~LockStranded /\ StartsCease /\ ConnectsCease
               /\ SubmitRests => HoldsNoMore(c)
  <2>1. ClientHolds(c) <=> HeldToJoin(c) \/ HeldToStage(c)
    BY DEF ClientHolds, LockPcs, HeldToJoin, HeldToStage
  <2>. QED
    BY <2>1, JoinerStops, StagerStops, PTL DEF HoldsNoMore
<1>2. FairSpec /\ []NeverStuck /\ []~LockStranded /\ StartsCease /\ ConnectsCease /\ SubmitRests
        => \A c \in Clients : HoldsNoMore(c)
  BY <1>1
<1>. QED
  BY <1>2, WritersStop, PTL DEF FinitelyMany, HoldersSettle, NoHolder

(* The release of a slot gets the lock.  While the server tries, nobody    *)
(* lowers SUBMIT; so the programs come to a rest, and who still holds the  *)
(* lock drops it.                                                          *)
ReleaseGetsLock == (spc = "relLock") ~> (spc = "relWipe")
LEMMA LockForRelease ==
  FairSpec /\ []NeverStuck /\ []~LockStranded /\ StartsCease /\ FinitelyMany => ReleaseGetsLock
<1>1. SlotIInv /\ [Next]_vars => (spc = "relLock" /\ submit = 1 => (submit = 1)')
  BY SubmitStays
<1>2. FairSpec /\ <>[](spc = "relLock") => SubmitRests
  BY <1>1, SlotInvariant, FairServer, PTL DEF Spec, SubmitRests
<1>3. SlotIInv /\ NoHolder /\ NeverStuck /\ spc = "relLock" => ENABLED <<ServerStep>>_vars
  BY DEF SlotIInv, LockMutex, NoHolder, ServerHolds, ReleasePcs, NeverStuck, ServerWaits
<1>4. SlotIInv /\ spc = "relLock" /\ <<ServerStep>>_vars => ~(spc = "relLock")'
  BY ServerPath
<1>5. FairSpec /\ []NeverStuck /\ []~LockStranded /\ StartsCease /\ FinitelyMany
        => ~<>[](spc = "relLock")
  BY <1>2, <1>3, <1>4, HoldersStop, SlotInvariant, FairServer, PTL DEF Spec
<1>. QED
  BY <1>5, RoundPath, SlotInvariant, FairServer, PTL DEF Spec, ReleaseGetsLock

-----------------------------------------------------------------------------
(* A release frees its slot                                                *)

(* The slot the server has released is free until it drops the lock        *)
Cleared == spc = "relUnlock" => release \notin slotMask
LEMMA SpecCleared == Spec => []Cleared
<1>1. Init => Cleared
  BY DEF Init, Cleared
<1>2. SlotIInv /\ Cleared /\ [Next]_vars => Cleared'
  <2> SUFFICES ASSUME SlotIInv, Cleared, [Next]_vars PROVE Cleared'
    OBVIOUS
  <2>1. CASE ServerStep
    BY <2>1, ServerPath DEF Cleared, SlotIInv, TypeOK, ServerTypeOK, LoopPcs, ReleasePcs
  <2>2. ASSUME NEW c \in Clients, ClientStep(c) \/ ProgramStep(c)
        PROVE  Cleared'
    <3>1. UNCHANGED <<spc, release>>
      BY <2>2, ClientFrame DEF SlotIInv, TypeOK, serverVars, relVars
    <3>2. spc = "relUnlock" => slotMask' = slotMask
      <4>1. CASE ClaimWrite(c)
        BY <4>1 DEF ClaimWrite, Goto, SlotIInv, LockMutex, ClientHolds, ServerHolds, LockPcs,
           ReleasePcs
      <4>2. CASE ~ClaimWrite(c)
        BY <2>2, <4>2 DEF ClientStep, ProgramStep, ClaimLock, ClaimRead, ClaimFull, ConnTest,
           ConnUnlock, ConnSpin, ConnLock, ConnWrite, ConnDone, SubLock, SubTest, SubUnlock,
           SubSpin, SubFlag, SubCopy, SubId, SubSize, SubGo, SubDone, Answered, Left, Return,
           StartUp, Call, CallDropped, Goodbye, Crash, lockVars
      <4>. QED
        BY <4>1, <4>2
    <3>. QED
      BY <3>1, <3>2 DEF Cleared
  <2>3. CASE UNCHANGED vars
    BY <2>3 DEF Cleared, vars, serverVars, relVars, lockVars
  <2>. QED
    BY <2>1, <2>2, <2>3 DEF Next
<1>. QED
  BY <1>1, <1>2, SlotInvariant, PTL DEF Spec

(* The server at one line of the release of slot s                         *)
Gives(s, k) == spc = k /\ release = s

(* The way of a release, from the goodbye's answer to the cleared bit      *)
LEMMA ReleasePath ==
  ASSUME SlotIInv, NEW s \in Slots, [Next]_vars
  PROVE  /\ Gives(s, "reply") => Gives(s, "reply")' \/ Gives(s, "clear")'
         /\ Gives(s, "clear") => Gives(s, "clear")' \/ Gives(s, "relLock")'
         /\ Gives(s, "relLock") => Gives(s, "relLock")' \/ Gives(s, "relWipe")'
         /\ Gives(s, "relWipe") => Gives(s, "relWipe")' \/ Gives(s, "relRead")'
         /\ Gives(s, "relRead") => Gives(s, "relRead")' \/ Gives(s, "relWrite")'
         /\ Gives(s, "relWrite") => Gives(s, "relWrite")' \/ (s \notin slotMask)'
BY ServerPath, ServerMoves, SlotsNotZero DEF Gives

FreedLater(s) == (release = s ~> s \notin slotMask)
(* The slot of an executed goodbye is freed, once the release has the lock *)
LEMMA SlotFreed ==
  ASSUME NEW s \in Slots
  PROVE  FairSpec /\ []NeverStuck /\ ReleaseGetsLock => FreedLater(s)
<1>1. SlotIInv /\ Cleared /\ release = s =>
        \/ s \notin slotMask
        \/ Gives(s, "reply") \/ Gives(s, "clear") \/ Gives(s, "relLock")
        \/ Gives(s, "relWipe") \/ Gives(s, "relRead") \/ Gives(s, "relWrite")
  BY SlotsNotZero DEF SlotIInv, ReleaseInv, AnswerPcs, ReleasePcs, Cleared, Gives
<1>2. FairSpec /\ []NeverStuck =>
        /\ ServerLeaves("reply") /\ ServerLeaves("clear")
        /\ ServerLeaves("relWipe") /\ ServerLeaves("relRead") /\ ServerLeaves("relWrite")
  BY ServerGoesOn DEF LoopPcs, ReleasePcs
<1>3. /\ Gives(s, "reply") => spc = "reply"
      /\ Gives(s, "clear") => spc = "clear"
      /\ Gives(s, "relWipe") => spc = "relWipe"
      /\ Gives(s, "relRead") => spc = "relRead"
      /\ Gives(s, "relWrite") => spc = "relWrite"
  BY DEF Gives
<1>4. /\ Gives(s, "relLock") => spc = "relLock"
      /\ spc = "relWipe" => ~Gives(s, "relLock")
  BY DEF Gives
<1>5. FairSpec /\ ReleaseGetsLock => (Gives(s, "relLock") ~> Gives(s, "relWipe"))
  BY <1>4, ReleasePath, SlotInvariant, FairServer, PTL DEF Spec, ReleaseGetsLock
<1>6. FairSpec /\ []NeverStuck => (Gives(s, "relWipe") ~> s \notin slotMask)
  BY <1>2, <1>3, ReleasePath, SlotInvariant, FairServer, PTL DEF Spec, ServerLeaves
<1>7. FairSpec /\ []NeverStuck =>
        /\ (Gives(s, "relRead") ~> s \notin slotMask) /\ (Gives(s, "relWrite") ~> s \notin slotMask)
        /\ (Gives(s, "reply") ~> Gives(s, "relLock")) /\ (Gives(s, "clear") ~> Gives(s, "relLock"))
  BY <1>2, <1>3, ReleasePath, SlotInvariant, FairServer, PTL DEF Spec, ServerLeaves
<1>. QED
  BY <1>1, <1>5, <1>6, <1>7, SlotInvariant, SpecCleared, FairServer, PTL DEF FreedLater

(* Without crashes, and unless programs keep being started, a slot whose   *)
(* goodbye was run becomes free: the server gets the lock for              *)
(* sgl_release_client_slot and clears the bit, although spin_lock is not   *)
(* fair and the programs compete for it.                                   *)
THEOREM GoodbyesFreeSlots ==
  ASSUME MayCrash = {}
  PROVE  FairSpec /\ []NeverStuck /\ FinitelyMany => GoodbyeFreesSlot
<1>1. FairSpec /\ []NeverStuck /\ ReleaseGetsLock => \A s \in Slots : FreedLater(s)
  BY SlotFreed
<1>2. (StartsCease => \A s \in Slots : FreedLater(s)) => GoodbyeFreesSlot
  BY DEF FreedLater, GoodbyeFreesSlot
<1>. QED
  BY <1>1, <1>2, LockForRelease, NobodyIsStranded, FairServer, PTL

-----------------------------------------------------------------------------
(* Published buffers are answered                                          *)

(* Then the server gets back to the top of wait_shm                        *)
LEMMA RoundsEnd ==
  FairSpec /\ []NeverStuck =>
    [](ReleaseGetsLock =>
         /\ ((spc = "relLock") ~> (spc = "conn")) /\ ((spc = "relUnlock") ~> (spc = "conn"))
         /\ ((spc = "relWrite") ~> (spc = "conn")) /\ ((spc = "relRead") ~> (spc = "conn"))
         /\ ((spc = "relWipe") ~> (spc = "conn")) /\ ((spc = "clear") ~> (spc = "conn"))
         /\ ((spc = "reply") ~> (spc = "conn")) /\ ((spc = "exec") ~> (spc = "conn"))
         /\ ((spc = "bind") ~> (spc = "conn")))
<1>1. FairSpec /\ []NeverStuck =>
        /\ ((spc = "relUnlock") ~> (spc = "conn")) /\ ((spc = "relWrite") ~> (spc = "conn"))
        /\ ((spc = "relRead") ~> (spc = "conn")) /\ ((spc = "relWipe") ~> (spc = "conn"))
  BY LoopLeaves, RoundPath, SlotInvariant, FairServer, PTL DEF Spec, ServerLeaves
<1>2. FairSpec /\ []NeverStuck =>
        /\ ((spc = "clear") ~> (spc = "conn") \/ (spc = "relLock"))
        /\ ((spc = "reply") ~> (spc = "clear")) /\ ((spc = "exec") ~> (spc = "reply"))
        /\ ((spc = "bind") ~> (spc = "exec"))
  BY LoopLeaves, RoundPath, SlotInvariant, FairServer, PTL DEF Spec, ServerLeaves
<1>. QED
  BY <1>1, <1>2, PTL DEF ReleaseGetsLock

(* Once it saw SUBMIT, the server takes the buffer and lowers SUBMIT       *)
LEMMA TakesBuffer ==
  FairSpec /\ []NeverStuck =>
    /\ ((spc = "getId") ~> submit = 0) /\ ((spc = "getSize") ~> submit = 0)
    /\ ((spc = "check") ~> submit = 0) /\ ((spc = "copy") ~> submit = 0)
    /\ ((spc = "unstage") ~> submit = 0)
    /\ (((spc = "poll") /\ submit = 1) ~> submit = 0)
<1>1. FairSpec /\ []NeverStuck =>
        /\ ((spc = "check") ~> submit = 0) /\ ((spc = "copy") ~> submit = 0)
        /\ ((spc = "unstage") ~> submit = 0)
  BY LoopLeaves, RoundPath, SlotInvariant, FairServer, PTL DEF Spec, ServerLeaves
<1>2. FairSpec /\ []NeverStuck =>
        /\ ((spc = "getId") ~> (spc = "check")) /\ ((spc = "getSize") ~> (spc = "check"))
        /\ (((spc = "poll") /\ submit = 1) ~> (spc = "getId") \/ submit = 0)
  BY LoopLeaves, RoundPath, SubmitStays, SlotInvariant, FairServer, PTL DEF Spec, ServerLeaves
<1>. QED
  BY <1>1, <1>2, PTL

(* The way of submit_shm, up to the raised SUBMIT                          *)
LEMMA SubmitPath ==
  ASSUME SlotIInv, NEW c \in Clients, [Next]_vars, (alive[c])'
  PROVE  /\ At(c, "subLock") => At(c, "subLock")' \/ At(c, "subTest")'
         /\ At(c, "subTest") => At(c, "subTest")' \/ At(c, "subFlag")' \/ submit = 1
         /\ At(c, "subUnlock") => At(c, "subUnlock")' \/ At(c, "subSpin")'
         /\ At(c, "subSpin") => At(c, "subSpin")' \/ At(c, "subLock")'
         /\ At(c, "subFlag") => At(c, "subFlag")' \/ At(c, "subCopy")'
         /\ At(c, "subCopy") => At(c, "subCopy")' \/ At(c, "subId")'
         /\ At(c, "subId") => At(c, "subId")' \/ At(c, "subSize")'
         /\ At(c, "subSize") => At(c, "subSize")' \/ At(c, "subGo")'
         /\ At(c, "subGo") => At(c, "subGo")' \/ (submit = 1)'
<1>1. ClientTypeOK
  BY DEF SlotIInv, TypeOK
<1>. QED
  BY <1>1, ClientPath, ClientMoves DEF At

(* While SUBMIT is down the server comes back to its polling and stays     *)
(* there: it does not hold the lock                                        *)
LEMMA ServerRests ==
  FairSpec /\ []NeverStuck /\ ReleaseGetsLock /\ <>[]~(submit = 1) => <>[]~ServerHolds
<1>1. SlotIInv /\ [Next]_vars =>
        /\ spc = "unstage" => (spc = "unstage")' \/ (spc = "bind")'
        /\ ~(submit = 1) /\ (spc = "conn" \/ spc = "add" \/ spc = "ack" \/ spc = "poll")
             => (spc = "conn" \/ spc = "add" \/ spc = "ack" \/ spc = "poll")'
  BY ServerPath, ServerMoves
<1>2. FairSpec /\ []NeverStuck =>
        /\ ((spc = "check") ~> (spc = "bind")) /\ ((spc = "copy") ~> (spc = "bind"))
        /\ ((spc = "unstage") ~> (spc = "bind"))
  BY <1>1, LoopLeaves, RoundPath, SlotInvariant, FairServer, PTL DEF Spec, ServerLeaves
<1>3. FairSpec /\ []NeverStuck =>
        /\ ((spc = "getId") ~> (spc = "check")) /\ ((spc = "getSize") ~> (spc = "check"))
  BY LoopLeaves, RoundPath, SlotInvariant, FairServer, PTL DEF Spec, ServerLeaves
<1>4. SlotIInv =>
        \/ spc = "conn" \/ spc = "add" \/ spc = "ack" \/ spc = "poll"
        \/ spc = "getId" \/ spc = "getSize" \/ spc = "check" \/ spc = "copy" \/ spc = "unstage"
        \/ spc = "bind" \/ spc = "exec" \/ spc = "reply" \/ spc = "clear" \/ spc = "relLock"
        \/ spc = "relWipe" \/ spc = "relRead" \/ spc = "relWrite" \/ spc = "relUnlock"
  BY DEF SlotIInv, TypeOK, ServerTypeOK, LoopPcs, ReleasePcs
<1>5. spc = "conn" \/ spc = "add" \/ spc = "ack" \/ spc = "poll" => ~ServerHolds
  BY DEF ServerHolds, ReleasePcs
<1>6. FairSpec /\ []NeverStuck /\ ReleaseGetsLock =>
        []<>(spc = "conn" \/ spc = "add" \/ spc = "ack" \/ spc = "poll")
  BY <1>2, <1>3, <1>4, RoundsEnd, SlotInvariant, FairServer, PTL
<1>. QED
  BY <1>1, <1>5, <1>6, SlotInvariant, FairServer, PTL DEF Spec

(* A program that wants to submit sees SUBMIT raised: by itself or by      *)
(* another one.  If it stayed down, everybody else would come to a rest    *)
(* without the lock, and the program would get it.                         *)
LEMMA OnePublishes ==
  ASSUME NEW c \in Clients
  PROVE  FairSpec /\ []NeverStuck /\ []~LockStranded /\ StartsCease /\ FinitelyMany /\ []alive[c]
           => [](pc[c] \in SubmitPcs \ WaitPcs => <>(submit = 1))
<1>1. alive[c] /\ pc[c] \in SubmitPcs \ WaitPcs =>
        \/ At(c, "subLock") \/ At(c, "subTest") \/ At(c, "subUnlock") \/ At(c, "subSpin")
        \/ At(c, "subFlag") \/ At(c, "subCopy") \/ At(c, "subId") \/ At(c, "subSize")
        \/ At(c, "subGo")
  BY DEF SubmitPcs, At
<1>2. FairSpec /\ []NeverStuck =>
        /\ ClientLeaves(c, "subTest") /\ ClientLeaves(c, "subUnlock")
        /\ ClientLeaves(c, "subFlag") /\ ClientLeaves(c, "subCopy")
        /\ ClientLeaves(c, "subId") /\ ClientLeaves(c, "subSize") /\ ClientLeaves(c, "subGo")
  <2>1. FairSpec /\ []NeverStuck => \A k \in LockPcs \cup {"ret", "dropped"} : ClientLeaves(c, k)
    BY ClientGoesOn
  <2>. QED
    BY <2>1 DEF LockPcs
<1>3. FairSpec /\ []NeverStuck /\ []alive[c] =>
        /\ (At(c, "subGo") ~> submit = 1) /\ (At(c, "subSize") ~> submit = 1)
        /\ (At(c, "subId") ~> submit = 1) /\ (At(c, "subCopy") ~> submit = 1)
        /\ (At(c, "subFlag") ~> submit = 1) /\ (At(c, "subTest") ~> submit = 1)
        /\ (At(c, "subUnlock") ~> At(c, "subSpin"))
  BY <1>2, SubmitPath, SlotInvariant, FairServer, PTL DEF Spec, ClientLeaves
<1>4. /\ NeverStuck /\ At(c, "subLock") /\ lock = 0 => ENABLED <<ClientStep(c)>>_vars
      /\ NeverStuck /\ At(c, "subSpin") /\ ~(submit = 1) => ENABLED <<ClientStep(c)>>_vars
  <2>1. NeverStuck => GoesOn(c)
    BY DEF NeverStuck
  <2>. QED
    BY <2>1 DEF GoesOn, At, ClientWaits
<1>5. /\ SlotIInv /\ At(c, "subLock") /\ <<ClientStep(c)>>_vars => ~At(c, "subLock")'
      /\ SlotIInv /\ At(c, "subSpin") /\ <<ClientStep(c)>>_vars => ~At(c, "subSpin")'
  <2>1. SlotIInv => ClientTypeOK
    BY DEF SlotIInv, TypeOK
  <2>. QED
    BY <2>1, ClientPath DEF At
<1>6. FairSpec /\ []NeverStuck /\ []alive[c] => (At(c, "subSpin") ~> At(c, "subLock") \/ submit = 1)
  BY <1>4, <1>5, SubmitPath, SlotInvariant, FairClient, FairServer, PTL DEF Spec
<1>7. SlotIInv /\ NoHolder /\ ~ServerHolds => lock = 0
  BY DEF SlotIInv, LockMutex, NoHolder, TypeOK, SharedTypeOK
<1>8. FairSpec /\ []NeverStuck /\ []~LockStranded /\ StartsCease /\ FinitelyMany
        => (<>[]~(submit = 1) => <>[](lock = 0))
  BY <1>7, LockForRelease, ServerRests, HoldersStop, SlotInvariant, FairServer, PTL DEF SubmitRests
<1>9. FairSpec /\ []NeverStuck /\ []alive[c] =>
        ([]<>(submit = 1) \/ <>[](lock = 0) => (At(c, "subLock") ~> submit = 1))
  <2>1. FairSpec /\ []NeverStuck /\ []alive[c] /\ <>[](lock = 0)
          => (At(c, "subLock") ~> At(c, "subTest"))
    BY <1>4, <1>5, SubmitPath, SlotInvariant, FairClient, FairServer, PTL DEF Spec
  <2>. QED
    BY <1>3, <2>1, PTL
<1>. QED
  BY <1>1, <1>3, <1>6, <1>8, <1>9, PTL

(* The server reads CONNECT and SUBMIT in turn: it comes to SUBMIT when    *)
(* nobody writes CONNECT any more                                          *)
LEMMA Unstages ==
  FairSpec /\ []NeverStuck
    => []([]NoConnect /\ ReleaseGetsLock => (submit = 1 => <>(submit = 0)))
<1>1. FairSpec /\ []NeverStuck =>
        []([]NoConnect => ((spc = "conn") /\ connect = 0 /\ submit = 1 => <>(submit = 0)))
  <2>1. FairSpec /\ []NeverStuck =>
          []([]NoConnect => ((spc = "conn") /\ connect = 0
                               => <>((spc = "poll") \/ submit = 0)))
    BY LoopLeaves, RoundPath, ConnectStays, SlotInvariant, FairServer,
       PTL DEF Spec, ServerLeaves
  <2>2. FairSpec => [](submit = 1 => [](submit = 1) \/ <>(submit = 0))
    BY SubmitStays, SlotInvariant, FairServer, PTL DEF Spec
  <2>. QED
    BY <2>1, <2>2, TakesBuffer, PTL
<1>2. FairSpec /\ []NeverStuck =>
        /\ ((spc = "ack") ~> ((spc = "conn") /\ connect = 0))
        /\ ((spc = "add") ~> (spc = "ack"))
        /\ ((spc = "conn") ~> ((spc = "add") \/ (spc = "poll")))
  BY LoopLeaves, RoundPath, SlotInvariant, FairServer, PTL DEF Spec, ServerLeaves
<1>3. FairSpec => [](submit = 1 => [](submit = 1) \/ <>(submit = 0))
  BY SubmitStays, SlotInvariant, FairServer, PTL DEF Spec
<1>4. SlotIInv =>
        \/ spc = "conn" \/ spc = "add" \/ spc = "ack" \/ spc = "poll"
        \/ spc = "getId" \/ spc = "getSize" \/ spc = "check" \/ spc = "copy" \/ spc = "unstage"
        \/ spc = "bind" \/ spc = "exec" \/ spc = "reply" \/ spc = "clear" \/ spc = "relLock"
        \/ spc = "relWipe" \/ spc = "relRead" \/ spc = "relWrite" \/ spc = "relUnlock"
  BY DEF SlotIInv, TypeOK, ServerTypeOK, LoopPcs, ReleasePcs
<1>5. FairSpec /\ []NeverStuck =>
        []([]NoConnect => ((spc = "ack") /\ submit = 1 => <>(submit = 0)))
  BY <1>1, <1>2, <1>3, PTL
<1>6. FairSpec /\ []NeverStuck =>
        []([]NoConnect => ((spc = "conn") /\ submit = 1 => <>(submit = 0)))
  BY <1>2, <1>3, <1>5, TakesBuffer, PTL
<1>7. FairSpec /\ []NeverStuck =>
        [](ReleaseGetsLock =>
             <>((spc = "conn") \/ (spc = "ack") \/ (spc = "poll") \/ submit = 0))
  BY <1>2, <1>4, RoundsEnd, TakesBuffer, SlotInvariant, FairServer, PTL
<1>. QED
  BY <1>3, <1>5, <1>6, <1>7, TakesBuffer, PTL

(* So a staged buffer makes room for the next one                          *)
LEMMA StageFrees ==
  FairSpec /\ []NeverStuck
    => [](ReleaseGetsLock /\ ConnectsCease => (submit = 1 ~> submit = 0))
<1>1. FairSpec => [](submit = 1 => [](submit = 1) \/ <>(submit = 0))
  BY SubmitStays, SlotInvariant, FairServer, PTL DEF Spec
<1>. QED
  BY <1>1, Unstages, PTL DEF ConnectsCease, ReleaseGetsLock

(* Stations of the buffer of c, from submit_shm to the lowered flag        *)
Waits(c) == pc[c] \in WaitPcs
Staged(c) == Waits(c) /\ InFlight(c) /\ submit = 1 /\ stage = Batch(c)
Has(c, k) == Waits(c) /\ spc = k /\ exec = Batch(c)
Back(c) == Waits(c) /\ Served(c) /\ ~(slotSubmit[id[c]] = 1)

(* A program keeps waiting, with its buffer, while its flag is up          *)
LEMMA WaitsOn ==
  ASSUME SlotIInv, NEW c \in Clients, [Next]_vars, Waits(c), slotSubmit[id[c]] = 1
  PROVE  Waits(c)' /\ Batch(c)' = Batch(c) /\ id'[c] = id[c]
<1>0. ClientTypeOK
  BY DEF SlotIInv, TypeOK
<1>1. CASE UNCHANGED vars
  BY <1>1 DEF vars, clientVars, callVars, Waits, Batch, Request
<1>2. CASE ClientStep(c) \/ ProgramStep(c)
  BY <1>0, <1>2, StaysWithBuffer DEF Waits, Batch, Request
<1>3. ASSUME NEW d \in Clients, d # c, ClientStep(d) \/ ProgramStep(d)
      PROVE  Waits(c)' /\ Batch(c)' = Batch(c) /\ id'[c] = id[c]
  BY <1>0, <1>3, ClientFrame DEF Waits, Batch, Request
<1>4. CASE ServerStep
  BY <1>4, ServerFrame DEF clientVars, callVars, Waits, Batch, Request
<1>. QED
  BY <1>1, <1>2, <1>3, <1>4 DEF Next

(* Only the server runs buffers, and nobody disturbs the staged one        *)
LEMMA RanMoves ==
  ASSUME SlotIInv, [Next]_vars
  PROVE  /\ ServerStep \/ UNCHANGED <<ran, exec, spc>>
         /\ submit = 1 => stage' = stage
<1>0. ClientTypeOK
  BY DEF SlotIInv, TypeOK
<1>1. CASE UNCHANGED vars
  BY <1>1 DEF vars, serverVars, loopVars, stageVars
<1>2. ASSUME NEW c \in Clients, ClientStep(c) \/ ProgramStep(c)
      PROVE  UNCHANGED <<ran, exec, spc>> /\ (submit = 1 => stage' = stage)
  BY <1>0, <1>2, ClientFrame DEF serverVars, loopVars, stageVars, SlotIInv, StageInv
<1>3. CASE ServerStep
  BY <1>3, ServerFrame
<1>. QED
  BY <1>1, <1>2, <1>3 DEF Next

(* The way of a buffer from the staging area to the lowered flag           *)
LEMMA AnswerPath ==
  ASSUME SlotIInv, KeptInv, NEW c \in Clients, [Next]_vars
  PROVE  /\ Staged(c) => Staged(c)' \/ Has(c, "bind")'
         /\ Has(c, "bind") => Has(c, "bind")' \/ Has(c, "exec")'
         /\ Has(c, "exec") => Has(c, "exec")' \/ Has(c, "reply")'
         /\ Has(c, "reply") => Has(c, "reply")' \/ Has(c, "clear")'
         /\ Has(c, "clear") => Has(c, "clear")' \/ Back(c)'
<1>0. /\ Batch(c).req.from = c /\ Batch(c).req.bit = bit[c] /\ Batch(c).id = id[c]
      /\ ServerTypeOK /\ SharedTypeOK
  BY DEF Batch, Request, SlotIInv, TypeOK
<1>1. ASSUME Staged(c) PROVE Staged(c)' \/ Has(c, "bind")'
  <2>1. slotSubmit[id[c]] = 1
    BY <1>1 DEF Staged, SlotIInv, FlagInv
  <2>2. Waits(c)' /\ Batch(c)' = Batch(c) /\ bit'[c] = bit[c]
    BY <1>0, <1>1, <2>1, WaitsOn DEF Staged, Batch, Request
  <2>3. stage' = Batch(c)
    BY <1>1, RanMoves DEF Staged
  <2>4. ~(spc = "exec" /\ exec.req.from = c)
    BY <1>0, <1>1 DEF Staged, SlotIInv, TakenInv
  <2>5. ran'[c] = ran[c]
    BY <1>0, <2>4, RanMoves, ServerFrame DEF ServerTypeOK
  <2>6. InFlight(c)'
    BY <1>1, <2>2, <2>5 DEF Staged, InFlight, Waits
  <2>7. \/ (submit = 1)'
        \/ spc = "unstage" /\ ServerStep
    BY <1>1, SubmitStays DEF Staged
  <2>8. CASE spc = "unstage" /\ ServerStep
    BY <1>1, <2>2, <2>8, ServerFrame DEF Staged, Has, KeptInv
  <2>. QED
    BY <2>2, <2>3, <2>6, <2>7, <2>8 DEF Staged
<1>2. ASSUME Has(c, "bind") \/ Has(c, "exec") \/ Has(c, "reply") \/ Has(c, "clear")
      PROVE  Waits(c)' /\ Batch(c)' = Batch(c) /\ id'[c] = id[c]
  <2>1. slotSubmit[id[c]] = 1
    <3>1. CASE spc \in TakenPcs
      BY <1>0, <1>2, <3>1 DEF Has, SlotIInv, FlagInv, TakenInv
    <3>2. CASE spc \in AnswerPcs
      BY <1>0, <1>2, <3>2 DEF Has, SlotIInv, TakenInv
    <3>. QED
      BY <1>2, <3>1, <3>2 DEF Has, TakenPcs, AnswerPcs
  <2>. QED
    BY <1>2, <2>1, WaitsOn DEF Has
<1>3. Has(c, "bind") => Has(c, "bind")' \/ Has(c, "exec")'
  BY <1>2, RanMoves, ServerPath, ServerFlags DEF Has
<1>4. Has(c, "exec") => Has(c, "exec")' \/ Has(c, "reply")'
  BY <1>2, RanMoves, ServerPath, ServerFlags DEF Has
<1>5. Has(c, "reply") => Has(c, "reply")' \/ Has(c, "clear")'
  BY <1>2, RanMoves, ServerPath, ServerFlags DEF Has
<1>6. Has(c, "clear") => Has(c, "clear")' \/ Back(c)'
  <2> SUFFICES ASSUME Has(c, "clear"), ~Has(c, "clear")' PROVE Back(c)'
    OBVIOUS
  <2>1. ServerStep
    BY <1>2, RanMoves DEF Has
  <2>2. Served(c) /\ sId = id[c]
    BY <1>0 DEF Has, SlotIInv, TakenInv, SizeInv, AnswerPcs
  <2>3. slotSubmit'[id'[c]] = 0
    BY <1>2, <2>1, <2>2, ServerFlags DEF Has
  <2>4. ran'[c] = ran[c] /\ bit'[c] = bit[c]
    BY <2>1, ServerFrame DEF Has, clientVars, callVars
  <2>. QED
    BY <1>2, <2>2, <2>3, <2>4 DEF Back, Served, Waits
<1>. QED
  BY <1>1, <1>3, <1>4, <1>5, <1>6

(* The neighbours of c do nothing                                          *)
Quiet(c) == \A d \in Clients \ {c} : pc[d] \in {"off", "run"}
Calls(c) == Waits(c) /\ kind[c] # "goodbye"
(* Nobody else raises the flag that c waits for                            *)
Sure(c) == kind[c] # "goodbye" \/ Quiet(c)

(* A lowered flag stays down until its owner saw it                        *)
LEMMA BackPath ==
  ASSUME SlotIInv, NEW c \in Clients, [Next]_vars, (alive[c])', Sure(c)
  PROVE  /\ Back(c) /\ At(c, "subDone") =>
              (Back(c) /\ At(c, "subDone"))' \/ (Back(c) /\ At(c, "subWait"))'
         /\ Back(c) /\ At(c, "subWait") =>
              (Back(c) /\ At(c, "subWait"))' \/ (pc[c] \in {"ret", "off"})'
<1>0. ClientTypeOK /\ SharedTypeOK /\ ServerTypeOK
  BY DEF SlotIInv, TypeOK
<1> SUFFICES ASSUME Back(c), alive[c]
             PROVE  \/ Back(c)' /\ pc'[c] = pc[c]
                    \/ pc[c] = "subDone" /\ pc'[c] = "subWait" /\ Back(c)'
                    \/ pc[c] = "subWait" /\ pc'[c] \in {"ret", "off"}
  BY DEF At
<1>1. /\ ~(slotSubmit[id[c]] = 1)' \/ id'[c] # id[c]
  <2>1. ASSUME NEW d \in Clients, ClientStep(d) \/ ProgramStep(d), id'[c] = id[c]
        PROVE  slotSubmit'[id[c]] = 0
    <3>1. slotSubmit[id[c]] = 0 /\ id[c] \in Slots /\ id[c] # 0
      BY <1>0 DEF Back, Waits, SharedTypeOK, ClientTypeOK, SlotIInv, IdInv, NoSlotPcs, WaitPcs
    <3>2. CASE slotSubmit' = slotSubmit
      BY <3>1, <3>2
    <3>3. CASE pc[d] = "subFlag" /\ slotSubmit' = [slotSubmit EXCEPT ![id[d]] = 1]
      <4>1. id[d] # 0 /\ Owns(d)
        BY <3>3 DEF SlotIInv, IdInv, NoSlotPcs, Owns, Served, WaitPcs
      <4>2. d # c
        BY <3>3 DEF Back, Waits, WaitPcs
      <4>3. kind[c] # "goodbye"
        BY <3>3, <4>2 DEF Sure, Quiet
      <4>4. id[d] # id[c]
        BY <3>1, <4>1, <4>2, <4>3 DEF SlotIInv, SlotExclusive, Owns
      <4>. QED
        BY <1>0, <3>1, <3>3, <4>4 DEF SharedTypeOK
    <3>. QED
      BY <1>0, <2>1, <3>2, <3>3, ClientFlags
  <2>2. CASE ServerStep
    <3>1. slotSubmit[id[c]] # 1 /\ id[c] \in Slots /\ id' = id
      BY <1>0, <2>2, ServerFrame DEF Back, Waits, ClientTypeOK, SlotIInv, IdInv, NoSlotPcs, WaitPcs,
         clientVars
    <3>. QED
      BY <2>2, <3>1, ServerFlags
  <2>3. CASE UNCHANGED vars
    BY <2>3 DEF vars, slotVars, clientVars, Back
  <2>. QED
    BY <2>1, <2>2, <2>3 DEF Next
<1>2. ServerStep \/ ran' = ran
  BY RanMoves
<1>3. ran'[c] = ran[c]
  <2>1. CASE ServerStep /\ spc = "exec"
    <3>1. exec.req.from # c
      BY <2>1 DEF SlotIInv, TakenInv, TakenPcs, InFlight, Back, Served
    <3>. QED
      BY <1>0, <2>1, <3>1, ServerFrame DEF ServerTypeOK
  <2>. QED
    BY <1>2, <2>1, ServerFrame
<1>4. CASE pc'[c] = pc[c] /\ kind'[c] = kind[c] /\ id'[c] = id[c] /\ bit'[c] = bit[c]
  BY <1>1, <1>3, <1>4 DEF Back, Waits, Served
<1>5. CASE ClientStep(c)
  <2>1. CASE pc[c] = "subDone"
    <3>1. SubDone(c)
      BY <1>5, <2>1 DEF ClientStep, ClaimLock, ClaimRead, ClaimWrite, ClaimFull, ConnTest, ConnUnlock,
         ConnSpin, ConnLock, ConnWrite, ConnDone, SubLock, SubTest, SubUnlock, SubSpin, SubFlag,
         SubCopy, SubId, SubSize, SubGo, Answered, Left, Return, Goto
    <3>. QED
      BY <1>0, <1>1, <1>3, <3>1 DEF SubDone, Goto, callVars, ClientTypeOK, Back, Waits, Served, WaitPcs
  <2>2. CASE pc[c] = "subWait"
    BY <1>0, <1>5, <2>2, ClientPath DEF Back, Waits
  <2>. QED
    BY <2>1, <2>2 DEF Back, Waits, WaitPcs
<1>. QED
  BY <1>0, <1>4, <1>5, ClientMoves DEF Back, Waits, WaitPcs

(* So its owner does see it                                                *)
LEMMA BackReturns ==
  ASSUME NEW c \in Clients
  PROVE  FairSpec /\ []NeverStuck =>
           []([]alive[c] /\ []Sure(c) => (Back(c) => <>(pc[c] \in {"ret", "off"})))
<1>1. alive[c] /\ Back(c) => At(c, "subDone") \/ At(c, "subWait")
  BY DEF Back, Waits, WaitPcs, At
<1>2. NeverStuck /\ At(c, "subWait") /\ Back(c) => ENABLED <<ClientStep(c)>>_vars
  <2>1. NeverStuck => GoesOn(c)
    BY DEF NeverStuck
  <2>2. At(c, "subWait") /\ Back(c) => alive[c] /\ ~ClientWaits(c)
    BY DEF At, ClientWaits, Back
  <2>. QED
    BY <2>1, <2>2 DEF GoesOn
<1>3. SlotIInv /\ At(c, "subWait") /\ <<ClientStep(c)>>_vars => ~At(c, "subWait")'
  <2>1. SlotIInv => ClientTypeOK
    BY DEF SlotIInv, TypeOK
  <2>. QED
    BY <2>1, ClientPath DEF At
<1>4. FairSpec /\ []NeverStuck => ClientLeaves(c, "subDone")
  BY ClientGoesOn DEF LockPcs
<1>5. FairSpec /\ []NeverStuck =>
        []([]alive[c] /\ []Sure(c) =>
             [](Back(c) /\ At(c, "subWait") => <>(pc[c] \in {"ret", "off"})))
  BY <1>2, <1>3, BackPath, SlotInvariant, FairServer, FairClient, PTL DEF Spec
<1>6. FairSpec /\ []NeverStuck =>
        []([]alive[c] /\ []Sure(c) =>
             [](Back(c) /\ At(c, "subDone") => <>(Back(c) /\ At(c, "subWait"))))
  BY <1>4, BackPath, SlotInvariant, FairServer, PTL DEF Spec, ClientLeaves
<1>. QED
  BY <1>1, <1>5, <1>6, PTL

(* A waiting program's buffer is at one of the stations                    *)
LEMMA WhereItWaits ==
  ASSUME SlotIInv, KeptInv, RaisedInv, NEW c \in Clients, Waits(c), Sure(c)
  PROVE  \/ Staged(c) \/ Back(c)
         \/ Has(c, "bind") \/ Has(c, "exec") \/ Has(c, "reply") \/ Has(c, "clear")
<1>1. CASE InFlight(c)
  BY <1>1 DEF KeptInv, BuffersKept, Kept, Staged, Has, TakenPcs, SlotIInv, TakenInv
<1>2. CASE ~InFlight(c)
  <2>1. Served(c)
    BY <1>2 DEF Served, InFlight, Waits
  <2>2. CASE slotSubmit[id[c]] = 1 /\ kind[c] # "goodbye"
    BY <2>1, <2>2, RaisedWhileAnswered DEF Waits, Has, AnswerPcs
  <2>3. CASE slotSubmit[id[c]] = 1 /\ Quiet(c)
    <3>1. id[c] \in Slots
      BY DEF Waits, WaitPcs, SlotIInv, IdInv, NoSlotPcs, TypeOK, ClientTypeOK
    <3>2. PICK d \in Clients : RaisedFor(d, id[c])
      BY <2>3, <3>1 DEF RaisedInv
    <3>3. pc[d] \in StagingPcs \/ pc[d] \in WaitPcs
      BY <3>2 DEF RaisedFor, InFlight, SlotIInv, TakenInv, Served
    <3>4. d = c
      BY <2>3, <3>3 DEF Quiet, StagingPcs, WaitPcs
    <3>5. spc \in AnswerPcs /\ exec.req.from = c
      BY <1>2, <3>2, <3>4 DEF RaisedFor, Waits, StagingPcs, WaitPcs
    <3>. QED
      BY <3>5 DEF Has, AnswerPcs, SlotIInv, TakenInv
  <2>. QED
    BY <2>1, <2>2, <2>3 DEF Back, Sure
<1>. QED
  BY <1>1, <1>2

(* What the server took comes back                                         *)
LEMMA HasReturns ==
  ASSUME NEW c \in Clients
  PROVE  FairSpec /\ []NeverStuck =>
           []([]alive[c] /\ []Sure(c) =>
                (Has(c, "bind") \/ Has(c, "exec") \/ Has(c, "reply") \/ Has(c, "clear")
                   => <>(pc[c] \in {"ret", "off"})))
<1>1. \A k : Has(c, k) => spc = k
  BY DEF Has
<1>2. /\ Has(c, "bind") => spc = "bind"
      /\ Has(c, "exec") => spc = "exec"
      /\ Has(c, "reply") => spc = "reply"
      /\ Has(c, "clear") => spc = "clear"
  BY <1>1
<1>3. FairSpec /\ []NeverStuck =>
        /\ [](Has(c, "clear") => <>Back(c))
        /\ [](Has(c, "reply") => <>Has(c, "clear"))
        /\ [](Has(c, "exec") => <>Has(c, "reply"))
        /\ [](Has(c, "bind") => <>Has(c, "exec"))
  BY <1>2, AnswerPath, LoopLeaves, SpecRaised, FairServer, PTL DEF Spec, ServerLeaves
<1>. QED
  BY <1>3, BackReturns, PTL

(* What was published comes back                                           *)
LEMMA WaitEnds ==
  ASSUME NEW c \in Clients
  PROVE  FairSpec /\ []NeverStuck =>
           [](ReleaseGetsLock /\ ConnectsCease /\ []alive[c] /\ []Sure(c) =>
                (Waits(c) => <>(pc[c] \in {"ret", "off"})))
<1>1. /\ Staged(c) => submit = 1
      /\ submit = 0 => ~Staged(c)
  BY DEF Staged
<1>2. FairSpec /\ []NeverStuck
        => [](ReleaseGetsLock /\ ConnectsCease => (Staged(c) => <>Has(c, "bind")))
  BY <1>1, AnswerPath, StageFrees, SpecRaised, FairServer, PTL DEF Spec
<1>. QED
  BY <1>2, WhereItWaits, BackReturns, HasReturns, SpecRaised, FairServer, PTL

(* A call that was published returns, whatever the other programs do       *)
LEMMA OneAnswered ==
  ASSUME NEW c \in Clients
  PROVE  FairSpec /\ []NeverStuck /\ ReleaseGetsLock /\ ConnectsCease /\ []alive[c]
           => [](pc[c] \in WaitPcs /\ kind[c] # "goodbye" => <>(pc[c] \in {"ret", "run"}))
<1>1. SlotIInv /\ Calls(c) /\ [Next]_vars => Calls(c)' \/ (pc[c] \in {"ret", "run"})'
  <2> SUFFICES ASSUME SlotIInv, Calls(c), [Next]_vars
               PROVE  Calls(c)' \/ (pc[c] \in {"ret", "run"})'
    OBVIOUS
  <2>0. ClientTypeOK
    BY DEF SlotIInv, TypeOK
  <2>1. CASE ClientStep(c)
    <3>1. CASE pc[c] = "subWait"
      BY <2>0, <2>1, <3>1, ClientPath DEF Calls
    <3>2. CASE pc[c] = "subDone"
      <4>1. pc'[c] \in WaitPcs
        BY <2>0, <2>1, <3>2, ClientPath DEF WaitPcs
      <4>. QED
        BY <2>0, <2>1, <4>1, ClientFrame DEF Calls, Waits
    <3>. QED
      BY <3>1, <3>2 DEF Calls, Waits, WaitPcs
  <2>2. CASE ~ClientStep(c)
    BY <2>0, <2>2, ClientMoves DEF Calls, Waits, WaitPcs
  <2>. QED
    BY <2>1, <2>2
<1>2. /\ pc[c] \in WaitPcs /\ kind[c] # "goodbye" => Calls(c)
      /\ Calls(c) => Waits(c) /\ Sure(c) /\ ~(pc[c] \in {"ret", "off"})
  BY DEF Calls, Waits, WaitPcs, Sure
<1>. QED
  BY <1>1, <1>2, WaitEnds, SlotInvariant, FairServer, PTL DEF Spec, ReleaseGetsLock, ConnectsCease

(* SurvivorsServed, for one program                                        *)
Survives(c) ==
  []alive[c] => /\ pc[c] \in SubmitPcs \ WaitPcs ~> submit = 1
                /\ pc[c] \in WaitPcs /\ kind[c] # "goodbye" ~> pc[c] \in {"ret", "run"}

(* The programs that were not killed go on, unless programs keep being     *)
(* started: what they want to submit gets published, and what they         *)
(* published is answered, if nobody died with the lock in hand.            *)
THEOREM SurvivorsAreServed ==
  FairSpec /\ []NeverStuck /\ FinitelyMany => SurvivorsServed
<1>1. ASSUME NEW c \in Clients
      PROVE  FairSpec /\ []NeverStuck /\ FinitelyMany /\ []~LockStranded /\ StartsCease
               => Survives(c)
  BY OnePublishes, OneAnswered, LockForRelease, WritersStop, PTL DEF Survives
<1>2. FairSpec /\ []NeverStuck /\ FinitelyMany /\ []~LockStranded /\ StartsCease
        => \A c \in Clients : Survives(c)
  BY <1>1
<1>3. (StartsCease /\ []~LockStranded => \A c \in Clients : Survives(c)) => SurvivorsServed
  BY DEF Survives, SurvivorsServed
<1>. QED
  BY <1>2, <1>3, PTL

(* PublishedIsAnswered, for one program                                    *)
AnsweredLater(c) == pc[c] \in WaitPcs /\ kind[c] # "goodbye" ~> pc[c] \in {"ret", "run"}

(* Without crashes, and unless programs keep being started, every          *)
(* published buffer that is no goodbye is answered: wait_shm finds it, it  *)
(* is run, and the flag its sender polls is lowered.                       *)
THEOREM PublishedAreAnswered ==
  ASSUME MayCrash = {}
  PROVE  FairSpec /\ []NeverStuck /\ FinitelyMany => PublishedIsAnswered
<1>1. ASSUME NEW c \in Clients
      PROVE  FairSpec /\ []NeverStuck /\ FinitelyMany /\ StartsCease => AnsweredLater(c)
  <2>1. Spec => AliveForEver(c)
    BY EverybodyLives DEF AliveForEver
  <2>. QED
    BY <2>1, OneAnswered, LockForRelease, WritersStop, NobodyIsStranded, FairServer,
       PTL DEF AnsweredLater, AliveForEver
<1>2. FairSpec /\ []NeverStuck /\ FinitelyMany /\ StartsCease
        => \A c \in Clients : AnsweredLater(c)
  BY <1>1
<1>3. (StartsCease => \A c \in Clients : AnsweredLater(c)) => PublishedIsAnswered
  BY DEF AnsweredLater, PublishedIsAnswered
<1>. QED
  BY <1>2, <1>3, PTL

(* Without crashes, and unless programs keep being started, busy waiting   *)
(* for the staging area makes no standstill: somebody publishes, and the   *)
(* server makes room again.                                                *)
THEOREM SomeoneAlwaysPublishes ==
  ASSUME MayCrash = {}
  PROVE  FairSpec /\ []NeverStuck /\ FinitelyMany => SomeonePublishes
<1>1. ASSUME NEW c \in Clients
      PROVE  FairSpec /\ []NeverStuck /\ FinitelyMany /\ StartsCease
               => [](pc[c] \in SubmitPcs \ WaitPcs => <>(submit = 1))
  <2>1. Spec => AliveForEver(c)
    BY EverybodyLives DEF AliveForEver
  <2>. QED
    BY <2>1, OnePublishes, NobodyIsStranded, FairServer, PTL DEF AliveForEver
<1>2. FairSpec /\ []NeverStuck /\ FinitelyMany /\ StartsCease
        => \A c \in Clients : [](pc[c] \in SubmitPcs \ WaitPcs => <>(submit = 1))
  BY <1>1
<1>3. (\A c \in Clients : [](pc[c] \in SubmitPcs \ WaitPcs => <>(submit = 1)))
        => [](\A c \in Clients : (pc[c] \in SubmitPcs \ WaitPcs => <>(submit = 1)))
  OBVIOUS
<1>4. (\A c \in Clients : (pc[c] \in SubmitPcs \ WaitPcs => <>(submit = 1)))
        => ((\E c \in Clients : pc[c] \in SubmitPcs \ WaitPcs) => <>(submit = 1))
  OBVIOUS
<1>. QED
  BY <1>2, <1>3, <1>4, StageFrees, LockForRelease, WritersStop, NobodyIsStranded, FairServer,
     PTL DEF SomeonePublishes

-----------------------------------------------------------------------------
(* A program alone                                                         *)

(* A program in the library, with quiet neighbours                         *)
Busy(c) == alive[c] /\ Quiet(c) /\ pc[c] \notin {"off", "run"}
BusyPcs == Pcs \ {"off", "run"}

(* Nobody but c writes SUBMIT and CONNECT                                  *)
LEMMA OnlyOneWrites ==
  ASSUME SlotIInv, NEW c \in Clients, [Next]_vars, Quiet(c)
  PROVE  /\ submit = 0 => (submit = 0)' \/ pc[c] = "subGo"
         /\ connect = 0 => (connect = 0)' \/ pc[c] = "connWrite"
<1>0. ClientTypeOK
  BY DEF SlotIInv, TypeOK
<1>1. ASSUME NEW d \in Clients, ClientStep(d) \/ ProgramStep(d)
      PROVE  /\ submit' = submit \/ pc[d] = "subGo"
             /\ connect' = connect \/ pc[d] = "connWrite"
  <2>1. CASE SubCopy(d) \/ SubId(d) \/ SubSize(d) \/ SubGo(d) \/ ConnWrite(d)
    BY <2>1 DEF SubCopy, SubId, SubSize, SubGo, ConnWrite, Goto, stageVars, lockVars
  <2>2. CASE ~(SubCopy(d) \/ SubId(d) \/ SubSize(d) \/ SubGo(d) \/ ConnWrite(d))
    BY <1>1, <2>2 DEF ClientStep, ProgramStep, ClaimLock, ClaimRead, ClaimWrite, ClaimFull,
       ConnTest, ConnUnlock, ConnSpin, ConnLock, ConnDone, SubLock, SubTest, SubUnlock, SubSpin,
       SubFlag, SubDone, Answered, Left, Return, StartUp, Call, CallDropped, Goodbye, Crash,
       lockVars, stageVars
  <2>. QED
    BY <2>1, <2>2
<1>2. CASE ServerStep
  BY <1>2, ServerPath
<1>3. CASE UNCHANGED vars
  BY <1>3 DEF vars, lockVars, stageVars
<1>. QED
  BY <1>1, <1>2, <1>3 DEF Next, Quiet

AtSub(c, k) == At(c, k) /\ submit = 0
AtConn(c, k) == At(c, k) /\ connect = 0

(* Its way: every loop it goes round waits for the server only             *)
LEMMA BusyPath ==
  ASSUME SlotIInv, NEW c \in Clients, [Next]_vars, Busy(c), Busy(c)'
  PROVE  /\ At(c, "claim") => At(c, "claim")' \/ At(c, "claimRead")'
         /\ At(c, "claimRead") => At(c, "claimRead")' \/ At(c, "claimWrite")'
         /\ At(c, "claimWrite") => At(c, "claimWrite")' \/ At(c, "connTest")'
         /\ At(c, "connTest") => At(c, "connTest")' \/ At(c, "connUnlock")' \/ At(c, "connWrite")'
         /\ At(c, "connUnlock") => At(c, "connUnlock")' \/ At(c, "connSpin")'
         /\ At(c, "connSpin") => At(c, "connSpin")' \/ AtConn(c, "connLock")'
         /\ At(c, "connLock") => At(c, "connLock")' \/ At(c, "connTest")'
         /\ AtConn(c, "connLock") => AtConn(c, "connLock")' \/ AtConn(c, "connTest")'
         /\ AtConn(c, "connTest") => AtConn(c, "connTest")' \/ At(c, "connWrite")'
         /\ At(c, "connWrite") => At(c, "connWrite")' \/ At(c, "connDone")'
         /\ At(c, "connDone") => At(c, "connDone")' \/ At(c, "subLock")'
         /\ At(c, "subLock") => At(c, "subLock")' \/ At(c, "subTest")'
         /\ At(c, "subTest") => At(c, "subTest")' \/ At(c, "subUnlock")' \/ At(c, "subFlag")'
         /\ At(c, "subUnlock") => At(c, "subUnlock")' \/ At(c, "subSpin")'
         /\ At(c, "subSpin") => At(c, "subSpin")' \/ AtSub(c, "subLock")'
         /\ AtSub(c, "subLock") => AtSub(c, "subLock")' \/ AtSub(c, "subTest")'
         /\ AtSub(c, "subTest") => AtSub(c, "subTest")' \/ At(c, "subFlag")'
         /\ At(c, "subFlag") => At(c, "subFlag")' \/ At(c, "subCopy")'
         /\ At(c, "subCopy") => At(c, "subCopy")' \/ At(c, "subId")'
         /\ At(c, "subId") => At(c, "subId")' \/ At(c, "subSize")'
         /\ At(c, "subSize") => At(c, "subSize")' \/ At(c, "subGo")'
         /\ At(c, "subGo") => At(c, "subGo")' \/ At(c, "subDone")'
         /\ At(c, "subDone") => At(c, "subDone")' \/ At(c, "subWait")'
         /\ At(c, "subWait") => At(c, "subWait")' \/ At(c, "ret")'
         /\ At(c, "ret") => At(c, "ret")'
         /\ At(c, "dropped") => At(c, "dropped")'
<1>0. ClientTypeOK
  BY DEF SlotIInv, TypeOK
<1>1. ClientStep(c) \/ pc'[c] = pc[c]
  BY <1>0, ClientMoves DEF Busy
<1>2. alive'[c] /\ pc'[c] \notin {"off", "run"}
  BY DEF Busy
<1>3. CASE ClientStep(c) /\ pc[c] = "connSpin"
  <2>1. ConnSpin(c)
    BY <1>3 DEF ClientStep, ClaimLock, ClaimRead, ClaimWrite, ClaimFull, ConnTest, ConnUnlock,
       ConnLock, ConnWrite, ConnDone, SubLock, SubTest, SubUnlock, SubSpin, SubFlag, SubCopy,
       SubId, SubSize, SubGo, SubDone, Answered, Left, Return, Goto
  <2>2. pc'[c] = "connLock" /\ connect' = 0
    BY <1>0, <2>1 DEF ConnSpin, Goto, ClientTypeOK, lockVars
  <2>. QED
    BY <1>2, <1>3, <2>2 DEF At, AtConn, AtSub
<1>4. CASE ClientStep(c) /\ pc[c] = "subSpin"
  <2>1. SubSpin(c)
    BY <1>4 DEF ClientStep, ClaimLock, ClaimRead, ClaimWrite, ClaimFull, ConnTest, ConnUnlock,
       ConnSpin, ConnLock, ConnWrite, ConnDone, SubLock, SubTest, SubUnlock, SubFlag, SubCopy,
       SubId, SubSize, SubGo, SubDone, Answered, Left, Return, Goto
  <2>2. pc'[c] = "subLock" /\ submit' = 0
    BY <1>0, <2>1 DEF SubSpin, Goto, ClientTypeOK, stageVars, SlotIInv, TypeOK, SharedTypeOK
  <2>. QED
    BY <1>2, <1>4, <2>2 DEF At, AtConn, AtSub
<1>5. CASE ClientStep(c) /\ pc[c] \notin {"connSpin", "subSpin"}
  <2>1. /\ submit = 0 => submit' = 0 \/ pc[c] = "subGo"
        /\ connect = 0 => connect' = 0 \/ pc[c] = "connWrite"
    BY OnlyOneWrites DEF Busy
  <2>. QED
    BY <1>0, <1>2, <1>5, <2>1, ClientPath DEF At, AtConn, AtSub
<1>6. CASE pc'[c] = pc[c]
  <2>1. /\ submit = 0 => submit' = 0 \/ pc[c] = "subGo"
        /\ connect = 0 => connect' = 0 \/ pc[c] = "connWrite"
    BY OnlyOneWrites DEF Busy
  <2>. QED
    BY <1>2, <1>6, <2>1 DEF At, AtConn, AtSub
<1>. QED
  BY <1>1, <1>3, <1>4, <1>5, <1>6

(* If it stays nowhere, it is done some day                                *)
MovesOn(c) == \A k \in BusyPcs : ClientLeaves(c, k)

LEMMA MovesAway ==
  ASSUME NEW c \in Clients
  PROVE  Spec => []([]Busy(c) /\ MovesOn(c) => FALSE)
<1>1. MovesOn(c) =>
        /\ ClientLeaves(c, "claim") /\ ClientLeaves(c, "claimRead") /\ ClientLeaves(c, "claimWrite")
        /\ ClientLeaves(c, "connTest") /\ ClientLeaves(c, "connUnlock")
        /\ ClientLeaves(c, "connSpin") /\ ClientLeaves(c, "connLock")
        /\ ClientLeaves(c, "connWrite") /\ ClientLeaves(c, "connDone")
        /\ ClientLeaves(c, "subLock") /\ ClientLeaves(c, "subTest")
        /\ ClientLeaves(c, "subUnlock") /\ ClientLeaves(c, "subSpin")
        /\ ClientLeaves(c, "subFlag") /\ ClientLeaves(c, "subCopy") /\ ClientLeaves(c, "subId")
        /\ ClientLeaves(c, "subSize") /\ ClientLeaves(c, "subGo") /\ ClientLeaves(c, "subDone")
        /\ ClientLeaves(c, "subWait") /\ ClientLeaves(c, "ret") /\ ClientLeaves(c, "dropped")
  BY DEF MovesOn, BusyPcs, Pcs, LockPcs, SubmitPcs, WaitPcs
<1>2. /\ \A k : AtConn(c, k) => At(c, k)
      /\ \A k : AtSub(c, k) => At(c, k)
  BY DEF AtConn, AtSub
<1>3. /\ AtConn(c, "connLock") => At(c, "connLock")
      /\ AtConn(c, "connTest") => At(c, "connTest")
      /\ AtSub(c, "subLock") => At(c, "subLock")
      /\ AtSub(c, "subTest") => At(c, "subTest")
  BY <1>2
<1>4. SlotIInv /\ Busy(c) =>
        \/ At(c, "claim") \/ At(c, "claimRead") \/ At(c, "claimWrite") \/ At(c, "connTest")
        \/ At(c, "connUnlock") \/ At(c, "connSpin") \/ At(c, "connLock") \/ At(c, "connWrite")
        \/ At(c, "connDone") \/ At(c, "subLock") \/ At(c, "subTest") \/ At(c, "subUnlock")
        \/ At(c, "subSpin") \/ At(c, "subFlag") \/ At(c, "subCopy") \/ At(c, "subId")
        \/ At(c, "subSize") \/ At(c, "subGo") \/ At(c, "subDone") \/ At(c, "subWait")
        \/ At(c, "ret") \/ At(c, "dropped")
  <2>1. SlotIInv => pc[c] \in Pcs
    BY DEF SlotIInv, TypeOK, ClientTypeOK
  <2>. QED
    BY <2>1 DEF Busy, At, Pcs, LockPcs, SubmitPcs, WaitPcs
<1>5. Spec => []([]Busy(c) /\ MovesOn(c) =>
                   [](~At(c, "ret") /\ ~At(c, "dropped") /\ ~At(c, "subWait") /\ ~At(c, "subDone")))
  BY <1>1, BusyPath, SlotInvariant, PTL DEF Spec, ClientLeaves
<1>6. Spec => []([]Busy(c) /\ MovesOn(c) =>
                   [](~At(c, "subGo") /\ ~At(c, "subSize") /\ ~At(c, "subId")
                        /\ ~At(c, "subCopy") /\ ~At(c, "subFlag")))
  BY <1>1, <1>5, BusyPath, SlotInvariant, PTL DEF Spec, ClientLeaves
<1>7. Spec => []([]Busy(c) /\ MovesOn(c) =>
                   [](~AtSub(c, "subTest") /\ ~AtSub(c, "subLock") /\ ~At(c, "subSpin")
                        /\ ~At(c, "subUnlock") /\ ~At(c, "subTest") /\ ~At(c, "subLock")))
  BY <1>1, <1>3, <1>6, BusyPath, SlotInvariant, PTL DEF Spec, ClientLeaves
<1>8. Spec => []([]Busy(c) /\ MovesOn(c) =>
                   [](~At(c, "connDone") /\ ~At(c, "connWrite") /\ ~AtConn(c, "connTest")
                        /\ ~AtConn(c, "connLock") /\ ~At(c, "connSpin")))
  BY <1>1, <1>3, <1>7, BusyPath, SlotInvariant, PTL DEF Spec, ClientLeaves
<1>9. Spec => []([]Busy(c) /\ MovesOn(c) =>
                   [](~At(c, "connUnlock") /\ ~At(c, "connTest") /\ ~At(c, "connLock")
                        /\ ~At(c, "claimWrite") /\ ~At(c, "claimRead") /\ ~At(c, "claim")))
  BY <1>1, <1>8, BusyPath, SlotInvariant, PTL DEF Spec, ClientLeaves
<1>. QED
  BY <1>4, <1>5, <1>6, <1>7, <1>8, <1>9, SlotInvariant, PTL

(* The server waits for the lock that a busy program competes for          *)
Blocked(c) == Busy(c) /\ spc = "relLock"

(* Whoever wants the lock finds it free, if nobody holds it                *)
LEMMA FreeLock ==
  ASSUME SlotIInv, NEW c \in Clients, Busy(c), ~ClientHolds(c), ~ServerHolds
  PROVE  lock = 0
<1>1. ASSUME NEW d \in Clients, ClientHolds(d)
      PROVE  FALSE
  BY <1>1 DEF Busy, Quiet, ClientHolds, LockPcs
<1>. QED
  BY <1>1 DEF SlotIInv, LockMutex, TypeOK, SharedTypeOK

(* A lock that stays free is taken                                         *)
LEMMA LockLeaves ==
  ASSUME NEW c \in Clients, NEW k \in {"claim", "connLock", "subLock"}
  PROVE  FairSpec /\ []NeverStuck => []([](lock = 0) => ~[]At(c, k))
<1>1. NeverStuck /\ At(c, k) /\ lock = 0 => ENABLED <<ClientStep(c)>>_vars
  <2>1. NeverStuck => GoesOn(c)
    BY DEF NeverStuck
  <2>2. At(c, k) /\ lock = 0 => alive[c] /\ ~ClientWaits(c)
    BY DEF At, ClientWaits
  <2>. QED
    BY <2>1, <2>2 DEF GoesOn
<1>2. SlotIInv /\ At(c, k) /\ <<ClientStep(c)>>_vars => ~At(c, k)'
  <2>1. SlotIInv => ClientTypeOK
    BY DEF SlotIInv, TypeOK
  <2>. QED
    BY <2>1, ClientPath DEF At
<1>. QED
  BY <1>1, <1>2, SlotInvariant, FairServer, FairClient, PTL DEF Spec

(* A server that waits for the lock gets it                                *)
BlockedLeaves(c, k) == [](([]Blocked(c)) => ClientLeaves(c, k))

LEMMA ReleaseBlocked ==
  ASSUME NEW c \in Clients
  PROVE  FairSpec /\ []NeverStuck => []([]Blocked(c) => FALSE)
<1>1. ASSUME NEW k \in BusyPcs
      PROVE  FairSpec /\ []NeverStuck => BlockedLeaves(c, k)
  <2>1. CASE k \in LockPcs \cup {"ret", "dropped"}
    <3>1. FairSpec /\ []NeverStuck => ClientLeaves(c, k)
      BY <2>1, ClientGoesOn
    <3>. QED
      BY <3>1, PTL DEF ClientLeaves, BlockedLeaves
  <2>2. CASE k \notin LockPcs \cup {"ret", "dropped"}
    <3>1. SlotIInv /\ Blocked(c) /\ At(c, k) => lock = 0
      <4>1. Blocked(c) /\ At(c, k) => Busy(c) /\ ~ClientHolds(c) /\ ~ServerHolds
        BY <2>2 DEF Blocked, ServerHolds, ReleasePcs, At, ClientHolds
      <4>. QED
        BY <4>1, FreeLock
    <3>2. NeverStuck /\ lock = 0 => ENABLED <<ServerStep>>_vars
      BY DEF NeverStuck, ServerWaits
    <3>3. SlotIInv /\ Blocked(c) /\ <<ServerStep>>_vars => ~Blocked(c)'
      BY ServerPath DEF Blocked
    <3>. QED
      BY <3>1, <3>2, <3>3, SlotInvariant, FairServer,
         PTL DEF Spec, ClientLeaves, BlockedLeaves
  <2>. QED
    BY <2>1, <2>2
<1>2. FairSpec /\ []NeverStuck => \A k \in BusyPcs : BlockedLeaves(c, k)
  BY <1>1
<1>3. (\A k \in BusyPcs : BlockedLeaves(c, k)) => []([]Blocked(c) => MovesOn(c))
  <2>1. (\A k \in BusyPcs : []([]Blocked(c) => ClientLeaves(c, k)))
          => [](\A k \in BusyPcs : ([]Blocked(c) => ClientLeaves(c, k)))
    OBVIOUS
  <2>2. (\A k \in BusyPcs : ([]Blocked(c) => ClientLeaves(c, k)))
          => ([]Blocked(c) => \A k \in BusyPcs : ClientLeaves(c, k))
    OBVIOUS
  <2>3. [](\A k \in BusyPcs : ([]Blocked(c) => ClientLeaves(c, k)))
          => []([]Blocked(c) => \A k \in BusyPcs : ClientLeaves(c, k))
    BY <2>2, PTL
  <2>. QED
    BY <2>1, <2>3 DEF BlockedLeaves, MovesOn
<1>4. Blocked(c) => Busy(c)
  BY DEF Blocked
<1>. QED
  BY <1>2, <1>3, <1>4, MovesAway, FairServer, PTL

(* The release of a slot gets the lock from a single program               *)
LEMMA ReleaseGoesOn ==
  ASSUME NEW c \in Clients
  PROVE  FairSpec /\ []NeverStuck => []([]Busy(c) => ReleaseGetsLock)
<1>1. Busy(c) /\ spc = "relLock" => Blocked(c)
  BY DEF Blocked
<1>. QED
  BY <1>1, ReleaseBlocked, RoundPath, SlotInvariant, FairServer,
     PTL DEF Spec, ReleaseGetsLock

(* The server is idle when c has nothing published                         *)
Idle == spc \in {"conn", "add", "ack", "poll"} /\ submit = 0
Apart(c) == Busy(c) /\ pc[c] \notin WaitPcs \cup {"subGo", "connWrite"}

(* An idle server stays idle                                               *)
LEMMA IdleStays ==
  ASSUME SlotIInv, NEW c \in Clients, [Next]_vars, Apart(c), Idle
  PROVE  Idle'
<1>1. submit' = 0
  BY OnlyOneWrites DEF Apart, Busy, Idle
<1>2. spc' \in {"conn", "add", "ack", "poll"}
  BY ServerMoves, ServerPath DEF Idle
<1>. QED
  BY <1>1, <1>2 DEF Idle

(* Nothing is staged that nobody staged                                    *)
LEMMA NothingStaged ==
  ASSUME SlotIInv, NEW c \in Clients, Apart(c), spc # "unstage"
  PROVE  submit = 0
<1>1. ASSUME submit = 1 PROVE FALSE
  <2>1. InFlight(stage.req.from) /\ stage.req.from \in Clients
    BY <1>1 DEF SlotIInv, StageInv, Batches, Requests
  <2>. QED
    BY <2>1 DEF Apart, Busy, Quiet, InFlight, WaitPcs
<1>. QED
  BY <1>1 DEF SlotIInv, TypeOK, SharedTypeOK

(* It becomes idle, whatever it was doing                                  *)
LEMMA ComesToIdle ==
  ASSUME NEW c \in Clients
  PROVE  FairSpec /\ []NeverStuck => []([]Apart(c) => <>[]Idle)
<1>1. SlotIInv /\ Apart(c) /\ spc = "conn" => Idle
  BY NothingStaged DEF Idle
<1>2. SlotIInv /\ Apart(c) =>
        \/ Idle \/ spc = "unstage"
        \/ spc = "bind" \/ spc = "exec" \/ spc = "reply" \/ spc = "clear" \/ spc = "relLock"
        \/ spc = "relWipe" \/ spc = "relRead" \/ spc = "relWrite" \/ spc = "relUnlock"
  <2> SUFFICES ASSUME SlotIInv, Apart(c), spc # "unstage", ~Idle
               PROVE  spc \in {"bind", "exec", "reply", "clear", "relLock",
                               "relWipe", "relRead", "relWrite", "relUnlock"}
    OBVIOUS
  <2>1. submit = 0
    BY NothingStaged
  <2>. QED
    BY <2>1 DEF SlotIInv, TypeOK, ServerTypeOK, LoopPcs, ReleasePcs, Idle, TakenInv
<1>3. SlotIInv /\ [Next]_vars /\ spc = "unstage" => (spc = "unstage")' \/ (spc = "bind")'
  BY ServerPath, ServerMoves
<1>4. FairSpec /\ []NeverStuck => ((spc = "unstage") ~> (spc = "bind"))
  BY <1>3, LoopLeaves, SlotInvariant, FairServer, PTL DEF Spec, ServerLeaves
<1>5. Apart(c) => Busy(c)
  BY DEF Apart
<1>6. FairSpec /\ []NeverStuck => []([]Apart(c) => <>Idle)
  BY <1>1, <1>2, <1>4, <1>5, ReleaseGoesOn, RoundsEnd, SlotInvariant, FairServer, PTL
<1>. QED
  BY <1>6, IdleStays, SlotInvariant, FairServer, PTL DEF Spec

(* CONNECT is taken from who waits for it                                  *)
LEMMA ConnectFalls ==
  ASSUME NEW c \in Clients
  PROVE  FairSpec /\ []NeverStuck => []([]Apart(c) => <>[](connect = 0))
<1>1. SlotIInv /\ Apart(c) /\ connect = 0 /\ [Next]_vars => (connect = 0)'
  BY OnlyOneWrites DEF Apart, Busy
<1>2. Idle <=> /\ spc = "conn" \/ spc = "add" \/ spc = "ack" \/ spc = "poll"
               /\ submit = 0
  BY DEF Idle
<1>3. SlotIInv /\ [Next]_vars /\ Idle =>
        /\ spc = "conn" /\ ~(connect = 0) => (spc = "conn")' \/ (spc = "add")'
        /\ spc = "poll" => (spc = "poll")' \/ (spc = "conn")'
        /\ spc = "add" => (spc = "add")' \/ (spc = "ack")'
        /\ spc = "ack" => (spc = "ack")' \/ (connect = 0)'
  BY ServerPath, ServerMoves DEF Idle
<1>4. FairSpec /\ []NeverStuck =>
        []([]Apart(c) /\ []Idle /\ []~(connect = 0) => [](~(spc = "ack") /\ ~(spc = "add")))
  BY <1>3, LoopLeaves, SlotInvariant, FairServer, PTL DEF Spec, ServerLeaves
<1>5. FairSpec /\ []NeverStuck => []([]Apart(c) /\ []Idle => <>(connect = 0))
  BY <1>2, <1>3, <1>4, LoopLeaves, SlotInvariant, FairServer, PTL DEF Spec, ServerLeaves
<1>. QED
  BY <1>1, <1>5, ComesToIdle, SlotInvariant, FairServer, PTL DEF Spec

LeavesAlone(c, k) == [](([]Busy(c)) => ClientLeaves(c, k))

(* A busy program with quiet neighbours stays at no line                   *)
LEMMA AloneLeaves ==
  ASSUME NEW c \in Clients, NEW k \in BusyPcs
  PROVE  FairSpec /\ []NeverStuck => LeavesAlone(c, k)
<1>1. CASE k \in LockPcs \cup {"ret", "dropped"}
  <2>1. FairSpec /\ []NeverStuck => ClientLeaves(c, k)
    BY <1>1, ClientGoesOn
  <2>. QED
    BY <2>1, PTL DEF ClientLeaves, LeavesAlone
<1>2. CASE k \in {"claim", "connLock", "subLock"}
  <2>1. Busy(c) /\ At(c, k) => Apart(c)
    BY <1>2 DEF Apart, At, WaitPcs
  <2>2. SlotIInv /\ Busy(c) /\ At(c, k) /\ Idle => lock = 0
    <3>1. At(c, k) /\ Idle => ~ClientHolds(c) /\ ~ServerHolds
      BY <1>2 DEF At, Idle, ClientHolds, ServerHolds, LockPcs, ReleasePcs
    <3>. QED
      BY <3>1, FreeLock
  <2>3. FairSpec /\ []NeverStuck => []([](lock = 0) => ~[]At(c, k))
    BY <1>2, LockLeaves
  <2>. QED
    BY <2>1, <2>2, <2>3, ComesToIdle, SlotInvariant, FairServer, PTL DEF ClientLeaves, LeavesAlone
<1>3. CASE k \in {"connSpin", "subSpin"}
  <2>1. Busy(c) /\ At(c, k) => Apart(c)
    BY <1>3 DEF Apart, At, WaitPcs
  <2>2. NeverStuck /\ At(c, k) /\ Idle /\ connect = 0 => ENABLED <<ClientStep(c)>>_vars
    <3>1. NeverStuck => GoesOn(c)
      BY DEF NeverStuck
    <3>2. At(c, k) /\ Idle /\ connect = 0 => alive[c] /\ ~ClientWaits(c)
      BY <1>3 DEF At, ClientWaits, Idle
    <3>. QED
      BY <3>1, <3>2 DEF GoesOn
  <2>3. SlotIInv /\ At(c, k) /\ <<ClientStep(c)>>_vars => ~At(c, k)'
    <3>1. SlotIInv => ClientTypeOK
      BY DEF SlotIInv, TypeOK
    <3>. QED
      BY <1>3, <3>1, ClientPath DEF At
  <2>. QED
    BY <2>1, <2>2, <2>3, ComesToIdle, ConnectFalls, SlotInvariant, FairServer, FairClient,
       PTL DEF Spec, ClientLeaves, LeavesAlone
<1>4. CASE k = "subWait"
  <2>1. Busy(c) /\ At(c, k) => NoConnect /\ Waits(c) /\ Sure(c) /\ ~(pc[c] \in {"ret", "off"})
    BY <1>4 DEF Busy, Quiet, At, NoConnect, Waits, WaitPcs, Sure
  <2>2. Busy(c) => alive[c]
    BY DEF Busy
  <2>. QED
    BY <2>1, <2>2, ReleaseGoesOn, WaitEnds, FairServer,
       PTL DEF ConnectsCease, ClientLeaves, LeavesAlone
<1>. QED
  BY <1>1, <1>2, <1>3, <1>4 DEF BusyPcs, Pcs, LockPcs, SubmitPcs, WaitPcs

(* QuietMeansServed, for one program                                       *)
ServedAlone(c) ==
  <>[](\A d \in Clients \ {c} : pc[d] \in {"off", "run"})
    => (pc[c] # "off" ~> pc[c] \in {"run", "off"})

(* A program whose neighbours have become quiet gets through its claim,    *)
(* its calls and its goodbye.  Weak fairness of the program and of the     *)
(* server is enough: the lock need not be fair, since the server takes it  *)
(* for a release only, and there are finitely many of these for one        *)
(* program's buffer.                                                       *)
THEOREM QuietProgramsAreServed ==
  ASSUME MayCrash = {}
  PROVE  FairSpec /\ []NeverStuck => QuietMeansServed
<1>1. ASSUME NEW c \in Clients
      PROVE  FairSpec /\ []NeverStuck => ServedAlone(c)
  <2>1. FairSpec /\ []NeverStuck => \A k \in BusyPcs : LeavesAlone(c, k)
    BY AloneLeaves
  <2>2. (\A k \in BusyPcs : LeavesAlone(c, k)) => []([]Busy(c) => MovesOn(c))
    <3>1. (\A k \in BusyPcs : []([]Busy(c) => ClientLeaves(c, k)))
            => [](\A k \in BusyPcs : ([]Busy(c) => ClientLeaves(c, k)))
      OBVIOUS
    <3>2. (\A k \in BusyPcs : ([]Busy(c) => ClientLeaves(c, k)))
            => ([]Busy(c) => \A k \in BusyPcs : ClientLeaves(c, k))
      OBVIOUS
    <3>3. [](\A k \in BusyPcs : ([]Busy(c) => ClientLeaves(c, k)))
            => []([]Busy(c) => \A k \in BusyPcs : ClientLeaves(c, k))
      BY <3>2, PTL
    <3>. QED
      BY <3>1, <3>3 DEF LeavesAlone, MovesOn
  <2>3. Spec => AliveForEver(c)
    BY EverybodyLives DEF AliveForEver
  <2>4. alive[c] /\ (\A d \in Clients \ {c} : pc[d] \in {"off", "run"}) =>
          Busy(c) \/ pc[c] \in {"run", "off"}
    BY DEF Busy, Quiet
  <2>. QED
    BY <2>1, <2>2, <2>3, <2>4, MovesAway, FairServer, PTL DEF ServedAlone, AliveForEver
<1>2. FairSpec /\ []NeverStuck => \A c \in Clients : ServedAlone(c)
  BY <1>1
<1>3. (\A c \in Clients : ServedAlone(c)) => QuietMeansServed
  BY DEF ServedAlone, QuietMeansServed
<1>. QED
  BY <1>2, <1>3, PTL
=============================================================================
