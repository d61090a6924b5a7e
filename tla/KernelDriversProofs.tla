------------------------ MODULE KernelDriversProofs ------------------------
(***************************************************************************)
(* The two kernel drivers for any number of sessions, events, mappings,    *)
(* interrupts and regions: the Windows driver's list of events agrees with *)
(* its slots, closed sessions leave nothing, no interrupt is lost; the     *)
(* Linux module's probe gives back what it took.                           *)
(***************************************************************************)
EXTENDS WindowsDriver, LinuxDriver, TLAPS, FiniteSetTheorems

(* The session whose request is served is open, and so is the owner of     *)
(* every event                                                             *)
OpenInv ==
  /\ request # NoRequest => handle[request.by] = "open"
  /\ \A i \in eventList : handle[eventBuffer[i].owner] = "open"

(* A mapping that exists is the one whose address the driver has, or was   *)
(* overwritten; and the one it has belongs to the owner, or to the session *)
(* whose request is about to make it the owner                             *)
MappingInv ==
  /\ \A m \in Maps : live[m] # Nobody => m = shmemMap \/ m \in overwritten
  /\ shmemMap # NULL /\ live[shmemMap] # Nobody =>
       live[shmemMap] = IF Serving("mmap") THEN request.by ELSE owner

(* Bits that are set have a deferred call on the way                       *)
BitsInv == pendingISR # {} => queueing \cup queued # {}

DriverIInv ==
  /\ DriverTypeOK /\ EventSlotsMatchList /\ OpenInv
  /\ MappingInv /\ SessionsLeaveNothing
  /\ BitsInv /\ InterruptsReachEvents
-----------------------------------------------------------------------------
LEMMA SlotsFinite ==
  ASSUME NEW T \in SUBSET Slots
  PROVE  IsFiniteSet(T) /\ Cardinality(T) \in Nat
  BY BoundsAssumption, FS_Subset, FS_CardinalityType

(* Events are no empty slots                                               *)
LEMMA NotAnEvent == NoEvent \notin Events
  BY NobodyAssumption DEF NoEvent, Events

(* What the removal of some events does to the list                        *)
LEMMA RemovalKeeps ==
  ASSUME DriverTypeOK, EventSlotsMatchList,
         NEW slots \in SUBSET eventList, RemoveEvents(slots)
  PROVE  /\ eventBuffer' \in [Slots -> Events \cup {NoEvent}]
         /\ eventList' = {i \in Slots : eventBuffer'[i] # NoEvent}
         /\ eventBufferUsed' = Cardinality(eventList')
         /\ references' = eventBufferUsed' + (references - eventBufferUsed)
         /\ eventBufferUsed' \in Int /\ references' \in Int
         /\ eventList' \subseteq eventList
         /\ \A i \in eventList' : eventBuffer'[i] = eventBuffer[i]
<1>1. slots \in SUBSET Slots /\ eventList \in SUBSET Slots
  BY DEF DriverTypeOK
<1>2. /\ IsFiniteSet(eventList) /\ IsFiniteSet(slots)
      /\ Cardinality(eventList) \in Nat /\ Cardinality(slots) \in Nat
  BY <1>1, SlotsFinite
<1>3. eventList \cap slots = slots
  OBVIOUS
<1>4. Cardinality(eventList \ slots) = Cardinality(eventList) - Cardinality(slots)
  BY <1>2, <1>3, FS_Difference
<1>5. /\ eventBuffer' \in [Slots -> Events \cup {NoEvent}]
      /\ eventList' = {i \in Slots : eventBuffer'[i] # NoEvent}
      /\ eventList' \subseteq eventList
      /\ \A i \in eventList' : eventBuffer'[i] = eventBuffer[i]
  BY <1>1 DEF RemoveEvents, DriverTypeOK, EventSlotsMatchList
<1>6. /\ eventBufferUsed' = Cardinality(eventList')
      /\ references' = eventBufferUsed' + (references - eventBufferUsed)
      /\ eventBufferUsed' \in Int /\ references' \in Int
  BY <1>2, <1>4 DEF RemoveEvents, DriverTypeOK, EventSlotsMatchList
<1> QED
  BY <1>5, <1>6

(* With a slot left uncounted there is an empty one                        *)
LEMMA SpaceMeansSlot ==
  ASSUME eventList = {i \in Slots : eventBuffer[i] # NoEvent},
         eventBufferUsed = Cardinality(eventList)
  PROVE  ~NoSlotFound
<1> SUFFICES ASSUME NoSlotFound PROVE FALSE
  OBVIOUS
<1>1. eventList = Slots
  BY DEF NoSlotFound
<1> QED
  BY <1>1 DEF NoSlotFound

LEMMA DriverInitHolds == DriverInit => DriverIInv
<1> SUFFICES ASSUME DriverInit PROVE DriverIInv
  OBVIOUS
<1> USE DEF DriverInit
<1>1. DriverTypeOK
  <2>1. halted \in BOOLEAN
    OBVIOUS
  <2>2. made \in 0 .. MaxMaps /\ raised \in 0 .. MaxRaised
    BY BoundsAssumption
  <2> QED
    BY <2>1, <2>2 DEF DriverTypeOK
<1>2. EventSlotsMatchList
  <2>1. eventList = {i \in Slots : eventBuffer[i] # NoEvent}
    OBVIOUS
  <2>2. eventBufferUsed = Cardinality(eventList)
    BY FS_EmptySet
  <2> QED
    BY <2>1, <2>2, SpaceMeansSlot DEF EventSlotsMatchList, Serving, NoRequest
<1>3. OpenInv /\ MappingInv /\ SessionsLeaveNothing /\ BitsInv /\ InterruptsReachEvents
  BY NobodyAssumption DEF OpenInv, MappingInv, SessionsLeaveNothing, BitsInv, InterruptsReachEvents
<1> QED
  BY <1>1, <1>2, <1>3 DEF DriverIInv

-----------------------------------------------------------------------------
(* The actions that leave the list of events alone                         *)
QuietActions ==
  \/ \E s \in Sessions : \/ Open(s) \/ RequestMmap(s) \/ RequestMmapFails(s)
                         \/ ReleaseMmap(s) \/ CleanupMapping(s)
                         \/ CleanupUnmap(s) \/ CleanupClear(s)
  \/ SetOwner \/ FinishRelease
  \/ \E m \in Messages : Interrupt(m) \/ QueueDpc(m) \/ TakePending(m)

LEMMA TypeStep ==
  ASSUME DriverTypeOK, EventSlotsMatchList, DriverRuns, UNCHANGED halted PROVE DriverTypeOK'
<1> USE DEF DriverTypeOK
<1>1. ASSUME QuietActions PROVE DriverTypeOK'
  <2>1. ASSUME NEW s \in Sessions, Open(s) PROVE DriverTypeOK'
    BY <2>1 DEF Open, mappingVars, eventVars, interruptVars
  <2>2. ASSUME NEW s \in Sessions, RequestMmap(s) PROVE DriverTypeOK'
    <3>1. made + 1 \in Maps /\ made + 1 \in 0 .. MaxMaps
      BY <2>2, BoundsAssumption DEF RequestMmap, Maps
    <3> QED
      BY <2>2, <3>1 DEF RequestMmap, Begin, Forget, eventVars, interruptVars
  <2>3. ASSUME NEW s \in Sessions, RequestMmapFails(s) PROVE DriverTypeOK'
    BY <2>3, BoundsAssumption DEF RequestMmapFails, Forget, sessionVars, eventVars, interruptVars
  <2>4. ASSUME NEW s \in Sessions, ReleaseMmap(s) PROVE DriverTypeOK'
    BY <2>4 DEF ReleaseMmap, Begin, mappingVars, eventVars, interruptVars
  <2>5. ASSUME NEW s \in Sessions, CleanupMapping(s) PROVE DriverTypeOK'
    BY <2>5 DEF CleanupMapping, Cleanup, mappingVars, eventVars, interruptVars
  <2>6. ASSUME NEW s \in Sessions, CleanupUnmap(s) PROVE DriverTypeOK'
    BY <2>6 DEF CleanupUnmap, Cleanup, Unmapped, eventVars, interruptVars
  <2>7. ASSUME NEW s \in Sessions, CleanupClear(s) PROVE DriverTypeOK'
    BY <2>7 DEF CleanupClear, Cleanup, Forget, eventVars, interruptVars
  <2>8. ASSUME SetOwner PROVE DriverTypeOK'
    BY <2>8 DEF SetOwner, Serving, Complete, NoRequest, eventVars, interruptVars
  <2>9. ASSUME FinishRelease PROVE DriverTypeOK'
    BY <2>9 DEF FinishRelease, Complete, Unmapped, eventVars, interruptVars
  <2>10. ASSUME NEW m \in Messages, Interrupt(m) PROVE DriverTypeOK'
    <3>1. \A bits \in Bits(m) : bits \subseteq Vectors
      BY DEF Bits
    <3> QED
      BY <2>10, <3>1, BoundsAssumption DEF Interrupt, sessionVars, mappingVars, eventVars
  <2>11. ASSUME NEW m \in Messages, QueueDpc(m) PROVE DriverTypeOK'
    BY <2>11 DEF QueueDpc, sessionVars, mappingVars, eventVars
  <2>12. ASSUME NEW m \in Messages, TakePending(m) PROVE DriverTypeOK'
    BY <2>12 DEF TakePending, sessionVars, mappingVars, eventVars
  <2> QED
    BY <1>1, <2>1, <2>2, <2>3, <2>4, <2>5, <2>6, <2>7, <2>8, <2>9, <2>10, <2>11, <2>12
    DEF QuietActions
<1>2. ASSUME NEW s \in Sessions, RegisterEvent(s) PROVE DriverTypeOK'
  BY <1>2 DEF RegisterEvent, Begin, mappingVars, interruptVars
<1>3. ASSUME NEW s \in Sessions, CleanupEvents(s) PROVE DriverTypeOK'
  <2>1. RemoveEvents({i \in eventList : eventBuffer[i].owner = s})
    BY <1>3 DEF CleanupEvents
  <2>2. /\ eventBuffer' \in [Slots -> Events \cup {NoEvent}]
        /\ eventList' \subseteq eventList
        /\ eventBufferUsed' \in Int /\ references' \in Int
    BY <2>1, RemovalKeeps
  <2> QED
    BY <1>3, <2>2 DEF CleanupEvents, Cleanup, mappingVars, interruptVars
<1>4. ASSUME BufferFull PROVE DriverTypeOK'
  BY <1>4 DEF BufferFull, Complete, NoRequest, mappingVars, interruptVars
<1>5. ASSUME NEW v \in Vectors, NEW once \in BOOLEAN, AddEvent(v, once) PROVE DriverTypeOK'
  <2>1. request.by \in Sessions
    BY <1>5 DEF AddEvent, Serving, NoRequest
  <2>2. [owner |-> request.by, vector |-> v, singleShot |-> once] \in Events
    BY <2>1 DEF Events
  <2> QED
    BY <1>5, <2>2 DEF AddEvent, Complete, NoRequest, mappingVars, interruptVars
<1>6. ASSUME NEW m \in Messages, SetEvents(m) PROVE DriverTypeOK'
  <2> DEFINE due == {i \in eventList : eventBuffer[i].vector \in taken[m]}
  <2>1. RemoveEvents({i \in due : eventBuffer[i].singleShot})
    BY <1>6 DEF SetEvents
  <2>2. /\ eventBuffer' \in [Slots -> Events \cup {NoEvent}]
        /\ eventList' \subseteq eventList
        /\ eventBufferUsed' \in Int /\ references' \in Int
    BY <2>1, RemovalKeeps
  <2> QED
    BY <1>6, <2>2 DEF SetEvents, sessionVars, mappingVars
<1>7. ASSUME ReleaseHardware PROVE DriverTypeOK'
  <2>1. Cardinality(eventList) \in Nat
    BY SlotsFinite
  <2> QED
    BY <1>7, <2>1 DEF ReleaseHardware, Stopped, Unmapped, sessionVars, interruptVars
<1> QED
  BY <1>1, <1>2, <1>3, <1>4, <1>5, <1>6, <1>7 DEF DriverRuns, QuietActions

-----------------------------------------------------------------------------
LEMMA ListStep ==
  ASSUME DriverTypeOK, EventSlotsMatchList, DriverRuns PROVE EventSlotsMatchList'
<1> DEFINE Listed == /\ eventList = {i \in Slots : eventBuffer[i] # NoEvent}
                     /\ eventBufferUsed = Cardinality(eventList)
           Counted == references = eventBufferUsed + IF Serving("register") THEN 1 ELSE 0
<1> SUFFICES Listed' /\ Counted'
  <2>1. Listed' => (~NoSlotFound)'
    BY SpaceMeansSlot, PTL
  <2> QED
    BY <2>1 DEF EventSlotsMatchList
<1>0. Listed /\ Counted
  BY DEF EventSlotsMatchList
<1>1. ASSUME QuietActions PROVE Listed' /\ Counted'
  <2>1. UNCHANGED eventVars
    BY <1>1 DEF QuietActions, Open, RequestMmap, RequestMmapFails, ReleaseMmap, CleanupMapping,
       CleanupUnmap, CleanupClear, SetOwner, FinishRelease, Interrupt, QueueDpc, TakePending
  <2>2. Serving("register")' <=> Serving("register")
    BY <1>1 DEF QuietActions, Open, RequestMmap, RequestMmapFails, ReleaseMmap, CleanupMapping,
       CleanupUnmap, CleanupClear, SetOwner, FinishRelease, Interrupt, QueueDpc, TakePending,
       Begin, Idle, Complete, Serving, NoRequest, sessionVars
  <2> QED
    BY <1>0, <2>1, <2>2 DEF eventVars
<1>2. ASSUME NEW s \in Sessions, RegisterEvent(s) PROVE Listed' /\ Counted'
  BY <1>0, <1>2 DEF RegisterEvent, Begin, Idle, Serving, NoRequest, DriverTypeOK
<1>3. ASSUME NEW s \in Sessions, CleanupEvents(s) PROVE Listed' /\ Counted'
  <2>1. RemoveEvents({i \in eventList : eventBuffer[i].owner = s}) /\ UNCHANGED request
    BY <1>3 DEF CleanupEvents
  <2>2. /\ eventList' = {i \in Slots : eventBuffer'[i] # NoEvent}
        /\ eventBufferUsed' = Cardinality(eventList')
        /\ references' = eventBufferUsed' + (references - eventBufferUsed)
        /\ eventBufferUsed' \in Int
    BY <2>1, RemovalKeeps
  <2> QED
    BY <1>0, <2>1, <2>2 DEF Serving, DriverTypeOK
<1>4. ASSUME BufferFull PROVE Listed' /\ Counted'
  BY <1>0, <1>4 DEF BufferFull, Complete, Serving, NoRequest, DriverTypeOK
<1>5. ASSUME NEW v \in Vectors, NEW once \in BOOLEAN, AddEvent(v, once)
      PROVE Listed' /\ Counted'
  <2> DEFINE new == [owner |-> request.by, vector |-> v, singleShot |-> once]
  <2>1. PICK i \in Slots : /\ eventBuffer[i] = NoEvent
                           /\ eventBuffer' = [eventBuffer EXCEPT ![i] = new]
                           /\ eventList' = eventList \cup {i}
                           /\ eventBufferUsed' = eventBufferUsed + 1
    BY <1>5 DEF AddEvent
  <2>2. new # NoEvent
    <3>1. request.by \in Sessions
      BY <1>5 DEF AddEvent, Serving, NoRequest, DriverTypeOK
    <3> QED
      BY <3>1, NobodyAssumption DEF NoEvent
  <2>3. i \notin eventList /\ IsFiniteSet(eventList)
    BY <1>0, <2>1, SlotsFinite DEF DriverTypeOK
  <2>4. Cardinality(eventList') = Cardinality(eventList) + 1
    BY <2>1, <2>3, FS_AddElement
  <2>5. eventList' = {j \in Slots : eventBuffer'[j] # NoEvent}
    BY <1>0, <2>1, <2>2 DEF DriverTypeOK
  <2> QED
    BY <1>0, <1>5, <2>1, <2>4, <2>5 DEF AddEvent, Complete, Serving, NoRequest, DriverTypeOK
<1>6. ASSUME NEW m \in Messages, SetEvents(m) PROVE Listed' /\ Counted'
  <2> DEFINE due == {i \in eventList : eventBuffer[i].vector \in taken[m]}
  <2>1. RemoveEvents({i \in due : eventBuffer[i].singleShot}) /\ UNCHANGED request
    BY <1>6 DEF SetEvents, sessionVars
  <2>2. /\ eventList' = {i \in Slots : eventBuffer'[i] # NoEvent}
        /\ eventBufferUsed' = Cardinality(eventList')
        /\ references' = eventBufferUsed' + (references - eventBufferUsed)
        /\ eventBufferUsed' \in Int
    BY <2>1, RemovalKeeps
  <2> QED
    BY <1>0, <2>1, <2>2 DEF Serving, DriverTypeOK
<1>7. ASSUME ReleaseHardware PROVE Listed' /\ Counted'
  <2>1. eventList' = {i \in Slots : eventBuffer'[i] # NoEvent}
    BY <1>0, <1>7 DEF ReleaseHardware, Stopped, DriverTypeOK
  <2> QED
    BY <1>0, <1>7, <2>1, FS_EmptySet DEF ReleaseHardware, Stopped, Idle, Serving, NoRequest, sessionVars, DriverTypeOK
<1> QED
  BY <1>1, <1>2, <1>3, <1>4, <1>5, <1>6, <1>7 DEF DriverRuns, QuietActions

-----------------------------------------------------------------------------
(* Events of the list stay the events of open sessions                     *)
LEMMA OpenStep ==
  ASSUME DriverTypeOK, EventSlotsMatchList, OpenInv, DriverRuns PROVE OpenInv'
<1> USE DEF OpenInv
<1>0. \A i \in eventList : eventBuffer[i] \in Events
  BY DEF DriverTypeOK, EventSlotsMatchList
<1>1. ASSUME QuietActions PROVE OpenInv'
  <2>1. UNCHANGED eventVars
    BY <1>1 DEF QuietActions, Open, RequestMmap, RequestMmapFails, ReleaseMmap, CleanupMapping,
       CleanupUnmap, CleanupClear, SetOwner, FinishRelease, Interrupt, QueueDpc, TakePending
  <2>2. \A s \in Sessions : handle[s] = "open" => handle'[s] = "open"
    BY <1>1 DEF QuietActions, Open, RequestMmap, RequestMmapFails, ReleaseMmap, CleanupMapping,
       CleanupUnmap, CleanupClear, SetOwner, FinishRelease, Interrupt, QueueDpc, TakePending,
       Begin, Cleanup, sessionVars, DriverTypeOK
  <2>3. request' # NoRequest => /\ request' \in [by : Sessions, kind : {"mmap", "release", "register"}]
                                /\ handle[request'.by] = "open"
    BY <1>1 DEF QuietActions, Open, RequestMmap, RequestMmapFails, ReleaseMmap, CleanupMapping,
       CleanupUnmap, CleanupClear, SetOwner, FinishRelease, Interrupt, QueueDpc, TakePending,
       Begin, Complete, sessionVars, DriverTypeOK
  <2> QED
    BY <1>0, <2>1, <2>2, <2>3 DEF eventVars, Events
<1>2. ASSUME NEW s \in Sessions, RegisterEvent(s) PROVE OpenInv'
  BY <1>2 DEF RegisterEvent, Begin
<1>3. ASSUME NEW s \in Sessions, CleanupEvents(s) PROVE OpenInv'
  <2> DEFINE own == {i \in eventList : eventBuffer[i].owner = s}
  <2>1. RemoveEvents(own) /\ UNCHANGED request
    BY <1>3 DEF CleanupEvents
  <2>2. eventList' = eventList \ own /\ \A i \in eventList' : eventBuffer'[i] = eventBuffer[i]
    BY <2>1, RemovalKeeps DEF RemoveEvents
  <2>3. \A r \in Sessions : r # s => handle'[r] = handle[r]
    BY <1>3 DEF CleanupEvents, Cleanup, DriverTypeOK
  <2>4. request # NoRequest => request.by \in Sessions \ {s}
    BY <1>3 DEF CleanupEvents, DriverTypeOK
  <2> QED
    BY <1>0, <2>1, <2>2, <2>3, <2>4 DEF Events
<1>4. ASSUME BufferFull PROVE OpenInv'
  BY <1>4 DEF BufferFull, Complete
<1>5. ASSUME NEW v \in Vectors, NEW once \in BOOLEAN, AddEvent(v, once) PROVE OpenInv'
  <2>1. handle[request.by] = "open"
    BY <1>5 DEF AddEvent, Serving, NoRequest
  <2> QED
    BY <1>5, <2>1 DEF AddEvent, Complete, DriverTypeOK
<1>6. ASSUME NEW m \in Messages, SetEvents(m) PROVE OpenInv'
  <2> DEFINE due == {i \in eventList : eventBuffer[i].vector \in taken[m]}
  <2>1. RemoveEvents({i \in due : eventBuffer[i].singleShot}) /\ UNCHANGED sessionVars
    BY <1>6 DEF SetEvents
  <2>2. eventList' \subseteq eventList /\ \A i \in eventList' : eventBuffer'[i] = eventBuffer[i]
    BY <2>1, RemovalKeeps
  <2> QED
    BY <2>1, <2>2 DEF sessionVars
<1>7. ASSUME ReleaseHardware PROVE OpenInv'
  BY <1>7 DEF ReleaseHardware, Stopped, sessionVars
<1> QED
  BY <1>1, <1>2, <1>3, <1>4, <1>5, <1>6, <1>7 DEF DriverRuns, QuietActions

-----------------------------------------------------------------------------
(* The actions that leave the mapping alone                                *)
LEMMA MappingStep ==
  ASSUME DriverTypeOK, OpenInv, MappingInv, DriverRuns PROVE MappingInv'
<1> USE DEF MappingInv
<1>1. ASSUME UNCHANGED <<mappingVars, overwritten>>, Serving("mmap")' <=> Serving("mmap"),
             Serving("mmap") => UNCHANGED request
      PROVE  MappingInv'
  BY <1>1 DEF mappingVars
<1>2. ASSUME NEW s \in Sessions, RequestMmap(s) PROVE MappingInv'
  <2>1. /\ shmemMap' = made + 1 /\ live' = [live EXCEPT ![made + 1] = s]
        /\ request' = [by |-> s, kind |-> "mmap"] /\ Forget
        /\ made + 1 \in Maps
    BY <1>2, BoundsAssumption DEF RequestMmap, Begin, DriverTypeOK, Maps
  <2>2. \A m \in Maps : live[m] # Nobody => m \in overwritten'
    BY <2>1 DEF Forget, Maps, NULL
  <2> QED
    BY <2>1, <2>2 DEF Serving, DriverTypeOK
<1>3. ASSUME NEW s \in Sessions, RequestMmapFails(s) PROVE MappingInv'
  BY <1>3 DEF RequestMmapFails, Forget, Maps, NULL
<1>4. ASSUME SetOwner PROVE MappingInv'
  BY <1>4 DEF SetOwner, Serving, Complete, NoRequest
<1>5. ASSUME FinishRelease PROVE MappingInv'
  BY <1>5 DEF FinishRelease, Unmapped, Maps, NULL, DriverTypeOK
<1>6. ASSUME NEW s \in Sessions, CleanupUnmap(s) PROVE MappingInv'
  BY <1>6 DEF CleanupUnmap, Unmapped, Serving, DriverTypeOK
<1>7. ASSUME NEW s \in Sessions, CleanupClear(s) PROVE MappingInv'
  BY <1>7 DEF CleanupClear, Forget, Maps, NULL
<1>8. ASSUME ReleaseHardware PROVE MappingInv'
  BY <1>8 DEF ReleaseHardware, Stopped, Unmapped, Maps, NULL, DriverTypeOK
<1>9. ASSUME NEW s \in Sessions, Open(s) \/ ReleaseMmap(s) \/ RegisterEvent(s)
                                 \/ CleanupEvents(s) \/ CleanupMapping(s)
      PROVE  MappingInv'
  BY <1>1, <1>9 DEF Open, ReleaseMmap, RegisterEvent, CleanupEvents, CleanupMapping, Begin, Idle,
     Serving, NoRequest
<1>10. ASSUME BufferFull PROVE MappingInv'
  BY <1>1, <1>10 DEF BufferFull, Serving, Complete, NoRequest
<1>11. ASSUME NEW v \in Vectors, NEW once \in BOOLEAN, AddEvent(v, once) PROVE MappingInv'
  BY <1>1, <1>11 DEF AddEvent, Serving, Complete, NoRequest
<1>12. ASSUME NEW m \in Messages,
              Interrupt(m) \/ QueueDpc(m) \/ TakePending(m) \/ SetEvents(m)
       PROVE  MappingInv'
  BY <1>1, <1>12 DEF Interrupt, QueueDpc, TakePending, SetEvents, sessionVars, Serving
<1> QED
  BY <1>2, <1>3, <1>4, <1>5, <1>6, <1>7, <1>8, <1>9, <1>10, <1>11, <1>12 DEF DriverRuns

(* A session that closes has no mapping left but an overwritten one        *)
LEMMA SessionsStep ==
  ASSUME DriverTypeOK, EventSlotsMatchList, OpenInv, MappingInv, SessionsLeaveNothing, DriverRuns
  PROVE  SessionsLeaveNothing'
<1> SUFFICES ASSUME NEW s \in Sessions, handle'[s] = "closed"
             PROVE  {m \in Maps : live'[m] = s} \subseteq overwritten'
  <2>1. \A i \in eventList' : handle'[eventBuffer'[i].owner] = "open"
    BY OpenStep DEF OpenInv
  <2> QED
    BY <2>1 DEF SessionsLeaveNothing
<1>0. s # Nobody
  BY NobodyAssumption
<1>1. overwritten \subseteq overwritten'
  BY DEF DriverRuns, Open, RequestMmap, RequestMmapFails, ReleaseMmap, RegisterEvent, CleanupEvents,
     CleanupMapping, CleanupUnmap, CleanupClear, SetOwner, FinishRelease, BufferFull, AddEvent,
     Interrupt, QueueDpc, TakePending, SetEvents, ReleaseHardware, Forget
<1>2. \A m \in Maps : live'[m] = s => live[m] = s
  <2>1. ASSUME NEW r \in Sessions, RequestMmap(r)
        PROVE  live' = [live EXCEPT ![made + 1] = r] /\ handle'[r] = "open"
    BY <2>1 DEF RequestMmap, Begin
  <2>2. ASSUME ~\E r \in Sessions : RequestMmap(r) PROVE live' = live \/ live' = Unmapped
    BY <2>2 DEF DriverRuns, Open, RequestMmapFails, ReleaseMmap, RegisterEvent, CleanupEvents,
       CleanupMapping, CleanupUnmap, CleanupClear, SetOwner, FinishRelease, BufferFull, AddEvent,
       Interrupt, QueueDpc, TakePending, SetEvents, ReleaseHardware, mappingVars
  <2> QED
    BY <1>0, <2>1, <2>2 DEF Unmapped, DriverTypeOK
<1>3. CASE handle[s] = "closed"
  BY <1>1, <1>2, <1>3 DEF SessionsLeaveNothing
<1>4. CASE CleanupMapping(s)
  <2>1. /\ handle[s] = "cleaning"
        /\ shmemMap = NULL \/ owner # s
        /\ UNCHANGED <<live, overwritten>>
    BY <1>4 DEF CleanupMapping, Cleanup, mappingVars, DriverTypeOK
  <2>2. Serving("mmap") => request # NoRequest
    BY DEF Serving, NoRequest
  <2>3. Serving("mmap") => request.by # s
    BY <2>1, <2>2 DEF OpenInv
  <2> QED
    BY <1>0, <2>1, <2>3 DEF MappingInv, Maps, NULL
<1>5. CASE CleanupClear(s)
  BY <1>0, <1>2, <1>5 DEF CleanupClear, Forget, MappingInv, Maps, NULL
<1>6. ASSUME handle[s] # "closed" PROVE CleanupMapping(s) \/ CleanupClear(s)
  <2> USE DEF DriverTypeOK, sessionVars
  <2>1. ASSUME NEW r \in Sessions, Open(r) \/ RequestMmap(r) \/ RequestMmapFails(r)
                                   \/ ReleaseMmap(r) \/ RegisterEvent(r)
        PROVE  FALSE
    BY <1>6, <2>1 DEF Open, RequestMmap, RequestMmapFails, ReleaseMmap, RegisterEvent, Begin
  <2>2. ASSUME NEW r \in Sessions, CleanupEvents(r) \/ CleanupUnmap(r) PROVE FALSE
    BY <1>6, <2>2 DEF CleanupEvents, CleanupUnmap, Cleanup
  <2>3. ASSUME NEW r \in Sessions, CleanupMapping(r) \/ CleanupClear(r) PROVE r = s
    BY <1>6, <2>3 DEF CleanupMapping, CleanupClear, Cleanup
  <2>4. ASSUME SetOwner \/ FinishRelease \/ BufferFull PROVE FALSE
    BY <1>6, <2>4 DEF SetOwner, FinishRelease, BufferFull
  <2>5. ASSUME NEW v \in Vectors, NEW once \in BOOLEAN, AddEvent(v, once) PROVE FALSE
    BY <1>6, <2>5 DEF AddEvent
  <2>6. ASSUME NEW m \in Messages, Interrupt(m) \/ QueueDpc(m) \/ TakePending(m) \/ SetEvents(m)
        PROVE  FALSE
    BY <1>6, <2>6 DEF Interrupt, QueueDpc, TakePending, SetEvents
  <2>7. ASSUME ReleaseHardware PROVE FALSE
    BY <1>6, <2>7 DEF ReleaseHardware
  <2> QED
    BY <2>1, <2>2, <2>3, <2>4, <2>5, <2>6, <2>7 DEF DriverRuns
<1> QED
  BY <1>3, <1>4, <1>5, <1>6

-----------------------------------------------------------------------------
LEMMA InterruptsStep ==
  ASSUME DriverTypeOK, EventSlotsMatchList, BitsInv, InterruptsReachEvents, DriverRuns
  PROVE  BitsInv' /\ InterruptsReachEvents'
<1> USE DEF BitsInv, InterruptsReachEvents
<1>0. \A i \in eventList : eventBuffer[i] \in Events /\ eventBuffer[i].vector \in Vectors
  BY DEF DriverTypeOK, EventSlotsMatchList, Events
<1>1. ASSUME UNCHANGED <<interruptVars, eventList, eventBuffer>>, owed' = owed
      PROVE  BitsInv' /\ InterruptsReachEvents'
  BY <1>1 DEF interruptVars
<1>2. ASSUME NEW s \in Sessions,
             \/ Open(s) \/ RequestMmap(s) \/ RequestMmapFails(s) \/ ReleaseMmap(s)
             \/ RegisterEvent(s) \/ CleanupMapping(s) \/ CleanupUnmap(s) \/ CleanupClear(s)
      PROVE  BitsInv' /\ InterruptsReachEvents'
  BY <1>1, <1>2 DEF Open, RequestMmap, RequestMmapFails, ReleaseMmap, RegisterEvent, CleanupMapping,
     CleanupUnmap, CleanupClear, eventVars
<1>3. ASSUME SetOwner \/ FinishRelease \/ BufferFull PROVE BitsInv' /\ InterruptsReachEvents'
  BY <1>1, <1>3 DEF SetOwner, FinishRelease, BufferFull, eventVars
<1>4. ASSUME NEW s \in Sessions, CleanupEvents(s) PROVE BitsInv' /\ InterruptsReachEvents'
  <2> DEFINE own == {i \in eventList : eventBuffer[i].owner = s}
  <2>1. RemoveEvents(own)
    BY <1>4 DEF CleanupEvents
  <2>2. eventList' = eventList \ own /\ \A i \in eventList' : eventBuffer'[i] = eventBuffer[i]
    BY <2>1, RemovalKeeps DEF RemoveEvents
  <2> QED
    BY <1>4, <2>2 DEF CleanupEvents, interruptVars
<1>5. ASSUME NEW v \in Vectors, NEW once \in BOOLEAN, AddEvent(v, once)
      PROVE  BitsInv' /\ InterruptsReachEvents'
  BY <1>5 DEF AddEvent, interruptVars, DriverTypeOK, EventSlotsMatchList
<1>6. ASSUME NEW m \in Messages, Interrupt(m) PROVE BitsInv' /\ InterruptsReachEvents'
  <2>1. PICK bits \in Bits(m) : pendingISR' = pendingISR \cup bits
    BY <1>6 DEF Interrupt
  <2>2. \A i \in eventList : eventBuffer[i].vector = m => m \in pendingISR'
    BY <1>0, <2>1 DEF Bits
  <2>3. BitsInv'
    BY <1>6 DEF Interrupt
  <2> QED
    BY <1>6, <2>1, <2>2, <2>3 DEF Interrupt, eventVars
<1>7. ASSUME NEW m \in Messages, QueueDpc(m) PROVE BitsInv' /\ InterruptsReachEvents'
  BY <1>7 DEF QueueDpc, eventVars
<1>8. ASSUME NEW m \in Messages, TakePending(m) PROVE BitsInv' /\ InterruptsReachEvents'
  BY <1>8 DEF TakePending, eventVars, DriverTypeOK
<1>9. ASSUME NEW m \in Messages, SetEvents(m) PROVE BitsInv' /\ InterruptsReachEvents'
  <2> DEFINE due == {i \in eventList : eventBuffer[i].vector \in taken[m]}
  <2>1. /\ RemoveEvents({i \in due : eventBuffer[i].singleShot})
        /\ taken' = [taken EXCEPT ![m] = {}] /\ owed' = owed \ due
        /\ UNCHANGED <<pendingISR, queueing, queued>>
    BY <1>9 DEF SetEvents
  <2>2. eventList' = eventList \ {i \in due : eventBuffer[i].singleShot}
    BY <2>1 DEF RemoveEvents
  <2>3. \A i \in eventList' : eventBuffer'[i] = eventBuffer[i]
    BY <2>1, RemovalKeeps
  <2> QED
    BY <2>1, <2>2, <2>3 DEF DriverTypeOK
<1>10. ASSUME ReleaseHardware PROVE BitsInv' /\ InterruptsReachEvents'
  BY <1>10 DEF ReleaseHardware, Stopped, interruptVars
<1> QED
  BY <1>2, <1>3, <1>4, <1>5, <1>6, <1>7, <1>8, <1>9, <1>10 DEF DriverRuns

-----------------------------------------------------------------------------
LEMMA DriverStep == DriverIInv /\ [DriverNext]_driverVars => DriverIInv'
<1> SUFFICES ASSUME DriverIInv, [DriverNext]_driverVars PROVE DriverIInv'
  OBVIOUS
<1>1. CASE DriverRuns /\ UNCHANGED halted
  BY <1>1, TypeStep, ListStep, OpenStep, MappingStep, SessionsStep, InterruptsStep DEF DriverIInv
<1>2. ASSUME halted' \in BOOLEAN,
             UNCHANGED <<sessionVars, mappingVars, eventVars, interruptVars, overwritten, owed>>
      PROVE  DriverIInv'
  BY <1>2 DEF sessionVars, mappingVars, eventVars, interruptVars, DriverIInv, DriverTypeOK,
     EventSlotsMatchList, NoSlotFound, OpenInv, MappingInv, SessionsLeaveNothing, BitsInv,
     InterruptsReachEvents, Serving
<1>3. CASE BugCheck
  BY <1>2, <1>3 DEF BugCheck
<1>4. CASE UNCHANGED driverVars
  BY <1>2, <1>4 DEF driverVars, DriverIInv, DriverTypeOK
<1> QED
  BY <1>1, <1>3, <1>4 DEF DriverNext

LEMMA DriverInvariant == DriverSpec => []DriverIInv
  BY DriverInitHolds, DriverStep, PTL DEF DriverSpec

(* The list of events agrees with its slots and their number, and the bug  *)
(* check of ioctl_register_event is not reached                            *)
THEOREM EventsConsistent == DriverSpec => []EventSlotsMatchList
<1>1. DriverIInv => EventSlotsMatchList
  BY DEF DriverIInv
<1> QED
  BY <1>1, DriverInvariant, PTL

(* After IVSHMEMEvtDeviceFileCleanup a session has no event and no mapping *)
(* but those whose address was overwritten                                 *)
THEOREM ClosedSessionsClean == DriverSpec => []SessionsLeaveNothing
<1>1. DriverIInv => SessionsLeaveNothing
  BY DEF DriverIInv
<1> QED
  BY <1>1, DriverInvariant, PTL

(* IVSHMEMInterruptISR and IVSHMEMInterruptDPC lose no interrupt           *)
THEOREM NoInterruptLost == DriverSpec => []InterruptsReachEvents
<1>1. DriverIInv => InterruptsReachEvents
  BY DEF DriverIInv
<1> QED
  BY <1>1, DriverInvariant, PTL

-----------------------------------------------------------------------------
(* The Linux module: what it holds at every step and label of pci_probe    *)
Acquired ==
  CASE at = "unbound" -> {}
    [] at \in {"enable", "failure_pci_enable"} -> {"pchar"}
    [] at \in {"regions", "failure_pci_regions"} -> {"pchar", "enabled"}
    [] at \in {"ioremap", "chrdev", "failure_alloc_chrdev_region", "failure_ioremap"} ->
         {"pchar", "enabled", "regions"}
    [] at \in {"cdev", "failure_cdev_add"} -> {"pchar", "enabled", "regions", "chrdev"}
    [] OTHER -> Resources

(* The lengths say which regions are mapped once the loop over them has    *)
(* set them, and before that nothing reads them                            *)
Before == {b \in mem_bars : b < bar}
RegionsInv ==
  /\ at \in {"unbound", "enable", "regions", "failure_ioremap", "failure_pci_regions",
            "failure_pci_enable"} => remapped = {}
  /\ at = "ioremap" => /\ remapped \subseteq Before
                       /\ \A b \in Bars : b < bar => (b \in lengths <=> b \in mem_bars)
  /\ at \in {"chrdev", "cdev", "devices", "bound", "failure_device_create",
            "failure_cdev_add", "failure_alloc_chrdev_region"} =>
       lengths = mem_bars /\ remapped \subseteq mem_bars
  /\ devices = CASE at = "devices" -> Before [] at = "bound" -> mem_bars [] OTHER -> {}

ProbeIInv == ProbeTypeOK /\ kept = Acquired /\ RegionsInv

LEMMA ProbeInitHolds == ProbeInit => ProbeIInv
  BY LastBarAssumption DEF ProbeInit, ProbeIInv, ProbeTypeOK, Acquired, RegionsInv, Bars

LEMMA ProbeStep == ProbeIInv /\ [ProbeNext]_probeVars => ProbeIInv'
<1> SUFFICES ASSUME ProbeIInv, [ProbeNext]_probeVars PROVE ProbeIInv'
  OBVIOUS
<1> USE LastBarAssumption
    DEF ProbeIInv, ProbeTypeOK, Acquired, RegionsInv, Before, Bars, Resources, Labels
<1>1. CASE Allocate
  BY <1>1 DEF Allocate, Obtain
<1>2. CASE Enable
  BY <1>2 DEF Enable, Obtain
<1>3. CASE Request
  BY <1>3 DEF Request, Obtain
<1>4. CASE Remap
  BY <1>4 DEF Remap
<1>5. CASE RemapFails
  BY <1>5 DEF RemapFails
<1>6. CASE Remapped
  <2>1. \A b \in Bars : b < bar
    BY <1>6 DEF Remapped
  <2>2. lengths = mem_bars
    BY <1>6, <2>1 DEF Remapped
  <2> QED
    BY <1>6, <2>2 DEF Remapped
<1>7. CASE Number
  BY <1>7 DEF Number, Obtain
<1>8. CASE AddCdev
  BY <1>8 DEF AddCdev, Obtain
<1>9. CASE CreateDevice
  BY <1>9 DEF CreateDevice
<1>10. CASE CreateFails
  BY <1>10 DEF CreateFails
<1>11. CASE Claim
  BY <1>11 DEF Claim
<1>12. CASE UndoCdev
  BY <1>12 DEF UndoCdev, Undo
<1>13. CASE UndoNumber
  BY <1>13 DEF UndoNumber, Undo
<1>14. CASE UndoRemap
  BY <1>14 DEF UndoRemap
<1>15. CASE UndoRequest
  BY <1>15 DEF UndoRequest, Undo
<1>16. CASE UndoEnable
  BY <1>16 DEF UndoEnable, Undo
<1>17. CASE UndoAllocate
  BY <1>17 DEF UndoAllocate, Undo
<1>18. CASE Remove
  BY <1>18 DEF Remove
<1>19. CASE UNCHANGED probeVars
  BY <1>19 DEF probeVars
<1> QED
  BY <1>1, <1>2, <1>3, <1>4, <1>5, <1>6, <1>7, <1>8, <1>9, <1>10, <1>11, <1>12, <1>13, <1>14,
     <1>15, <1>16, <1>17, <1>18, <1>19 DEF ProbeNext

(* pci_probe gives back what it took wherever it fails, and pci_remove all *)
(* of it, for any number of regions and any of them refused                *)
THEOREM ProbeGivesBack == ProbeSpec => []ProbeUndoes
<1>1. ProbeIInv => ProbeUndoes
  BY DEF ProbeIInv, ProbeUndoes, Acquired, RegionsInv
<1> QED
  BY <1>1, ProbeInitHolds, ProbeStep, PTL DEF ProbeSpec
=============================================================================
