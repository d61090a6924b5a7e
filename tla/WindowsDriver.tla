--------------------------- MODULE WindowsDriver ---------------------------
(***************************************************************************)
(* The Windows kernel driver of the shared memory (kernel/windows):        *)
(*   Queue.c   requests of sessions (open handles), one at a time, and     *)
(*             IVSHMEMEvtDeviceFileCleanup when a session's handle closes  *)
(*   Device.c  the interrupt routine, its deferred call, and the release   *)
(*             of the hardware                                             *)
(* A request, the clean-up of other sessions, interrupts and deferred      *)
(* calls run at the same time; only the list of events has a lock.  A      *)
(* session's own request ends before its handle closes: handles are        *)
(* opened for synchronous use (src/client/pb.c).                           *)
(*                                                                         *)
(* Mappings are numbered in the order they are made.  Requests with a      *)
(* wrong size or an unknown code change nothing and are left out, as are   *)
(* those that only read or write a device register.  An unmapping where    *)
(* nothing is mapped may end the system (a bug check) or change nothing.   *)
(***************************************************************************)
EXTENDS Integers, FiniteSets

CONSTANTS Sessions,  \* the handles that programs may open
          Vectors,   \* interrupt vectors below 64
          Slots,     \* eventBuffer: 1 .. MAX_EVENTS
          MaxMaps,   \* bound on the requests for a mapping
          MaxRaised, \* bound on the interrupts
          Nobody     \* no session, no event, no request

Beyond == 64
Messages == Vectors \cup {Beyond}
Maps == 1 .. MaxMaps
NULL == 0

ASSUME BoundsAssumption == MaxMaps \in Nat /\ MaxRaised \in Nat /\ IsFiniteSet(Slots)
ASSUME VectorsAssumption == Vectors \subseteq 0 .. 63
ASSUME NobodyAssumption == Nobody \notin Sessions

NoRequest == [by |-> Nobody, kind |-> "none"]
NoEvent == [owner |-> Nobody, vector |-> 0, singleShot |-> FALSE]
Events == [owner : Sessions, vector : Vectors, singleShot : BOOLEAN]

VARIABLES
  (* Sessions *)
  handle,    \* "off", "open", the steps of the clean-up, or "closed"
  request,   \* the request being served
  (* The mapping *)
  shmemMap, owner,
  live,      \* the mappings that exist, with their session (the system's)
  made,      \* mappings asked for
  halted,    \* the system ended with a bug check
  (* The events *)
  eventBuffer, eventList, eventBufferUsed,
  references, \* references the driver holds to event objects
  (* Interrupts *)
  pendingISR,
  queueing,  \* interrupt routines that found pendingISR empty
  queued,    \* interrupts whose deferred call is queued
  taken,     \* what each deferred call took from pendingISR
  raised,    \* interrupts so far
  (* History *)
  overwritten, \* mappings whose address the driver forgot
  owed       \* slots whose event an interrupt is on the way for

sessionVars == <<handle, request>>
mappingVars == <<shmemMap, owner, live, made>>
eventVars == <<eventBuffer, eventList, eventBufferUsed, references>>
interruptVars == <<pendingISR, queueing, queued, taken, raised>>
driverVars == <<sessionVars, mappingVars, halted, eventVars, interruptVars, overwritten, owed>>

DriverInit ==
  /\ handle = [s \in Sessions |-> "off"] /\ request = NoRequest
  /\ shmemMap = NULL /\ owner = Nobody
  /\ live = [m \in Maps |-> Nobody] /\ made = 0 /\ halted = FALSE
  /\ eventBuffer = [i \in Slots |-> NoEvent]
  /\ eventList = {} /\ eventBufferUsed = 0 /\ references = 0
  /\ pendingISR = {} /\ queueing = {} /\ queued = {}
  /\ taken = [m \in Messages |-> {}] /\ raised = 0
  /\ overwritten = {} /\ owed = {}

-----------------------------------------------------------------------------
(* Requests: the queue is sequential                                       *)

Open(s) ==
  /\ handle[s] = "off" /\ handle' = [handle EXCEPT ![s] = "open"]
  /\ UNCHANGED <<request, mappingVars, eventVars, interruptVars, overwritten, owed>>

Idle == request = NoRequest
Begin(s, kind) ==
  /\ handle[s] = "open" /\ Idle
  /\ request' = [by |-> s, kind |-> kind]
Serving(kind) == request.kind = kind
Complete == request' = NoRequest

(* The address the driver has is replaced: a mapping there is out of reach *)
Forget == overwritten' = IF shmemMap = NULL THEN overwritten
                         ELSE overwritten \cup {shmemMap}

(* ioctl_request_mmap: the address of the new mapping, then the owner.     *)
(* "only one mapping at a time is allowed" is commented out.               *)
RequestMmap(s) ==
  /\ Begin(s, "mmap")
  /\ made < MaxMaps /\ made' = made + 1
  /\ shmemMap' = made + 1 /\ live' = [live EXCEPT ![made + 1] = s]
  /\ Forget
  /\ UNCHANGED <<handle, owner, eventVars, interruptVars, owed>>

(* Faulty variant: the first session stays the owner.                      *)
SetOwnerOnce ==
  /\ Serving("mmap") /\ Complete
  /\ owner' = IF owner = Nobody THEN request.by ELSE owner
  /\ UNCHANGED <<handle, shmemMap, live, made, eventVars, interruptVars, overwritten, owed>>
SetOwner ==
  /\ Serving("mmap") /\ Complete
  /\ owner' = request.by
  /\ UNCHANGED <<handle, shmemMap, live, made, eventVars, interruptVars, overwritten, owed>>

(* No room for a mapping: the request fails, the address is NULL           *)
RequestMmapFails(s) ==
  /\ handle[s] = "open" /\ Idle
  /\ made < MaxMaps /\ made' = made + 1
  /\ shmemMap' = NULL /\ Forget
  /\ UNCHANGED <<sessionVars, owner, live, eventVars, interruptVars, owed>>

(* ioctl_release_mmap, for the owner only                                  *)
ReleaseMmap(s) ==
  /\ shmemMap # NULL /\ owner = s
  /\ Begin(s, "release")
  /\ UNCHANGED <<handle, mappingVars, eventVars, interruptVars, overwritten, owed>>

(* MmUnmapLockedPages for the address the driver has by now                *)
Unmapped == IF shmemMap = NULL THEN live ELSE [live EXCEPT ![shmemMap] = Nobody]
FinishRelease ==
  /\ Serving("release") /\ Complete
  /\ live' = Unmapped /\ shmemMap' = NULL /\ owner' = Nobody
  /\ UNCHANGED <<handle, made, eventVars, interruptVars, overwritten, owed>>

(* ioctl_register_event: the checks and the reference before the lock ...  *)
RegisterEvent(s) ==
  /\ owner = s /\ eventBufferUsed # Cardinality(Slots)
  /\ Begin(s, "register")
  /\ references' = references + 1
  /\ UNCHANGED <<handle, mappingVars, eventBuffer, eventList, eventBufferUsed,
                 interruptVars, overwritten, owed>>

(* ... and under it: a free slot is taken                                  *)
AddEvent(vector, singleShot) ==
  /\ Serving("register") /\ Complete
  /\ eventBufferUsed # Cardinality(Slots)
  /\ \E i \in Slots :
       /\ eventBuffer[i] = NoEvent
       /\ eventBuffer' = [eventBuffer EXCEPT ![i] =
            [owner |-> request.by, vector |-> vector, singleShot |-> singleShot]]
       /\ eventList' = eventList \cup {i}
       /\ eventBufferUsed' = eventBufferUsed + 1
  /\ UNCHANGED <<handle, mappingVars, references, interruptVars, overwritten, owed>>

(* "this should never occur": space left and no slot found, a bug check    *)
NoSlotFound ==
  /\ Serving("register") /\ eventBufferUsed # Cardinality(Slots)
  /\ \A i \in Slots : eventBuffer[i] # NoEvent

BufferFull ==
  /\ Serving("register") /\ Complete
  /\ eventBufferUsed = Cardinality(Slots)
  /\ references' = references - 1
  /\ UNCHANGED <<handle, mappingVars, eventBuffer, eventList, eventBufferUsed,
                 interruptVars, overwritten, owed>>

-----------------------------------------------------------------------------
(* IVSHMEMEvtDeviceFileCleanup                                             *)

(* Faulty variant: the slots are freed and still counted.                  *)
RemoveEventsCounted(slots) ==
  /\ eventBuffer' = [i \in Slots |-> IF i \in slots THEN NoEvent ELSE eventBuffer[i]]
  /\ eventList' = eventList \ slots
  /\ references' = references - Cardinality(slots)
  /\ UNCHANGED eventBufferUsed
(* Slots leave the list, under the lock                                    *)
RemoveEvents(slots) ==
  /\ eventBuffer' = [i \in Slots |-> IF i \in slots THEN NoEvent ELSE eventBuffer[i]]
  /\ eventList' = eventList \ slots
  /\ eventBufferUsed' = eventBufferUsed - Cardinality(slots)
  /\ references' = references - Cardinality(slots)

Cleanup(s, from, to) == handle[s] = from /\ handle' = [handle EXCEPT ![s] = to]

CleanupEvents(s) ==
  /\ Cleanup(s, "open", "cleaning") /\ request.by # s
  /\ RemoveEvents({i \in eventList : eventBuffer[i].owner = s})
  /\ owed' = {i \in owed : eventBuffer[i].owner # s}
  /\ UNCHANGED <<request, mappingVars, interruptVars, overwritten>>

(* Without the lock: whose mapping is it ...                               *)
CleanupMapping(s) ==
  /\ Cleanup(s, "cleaning",
             IF shmemMap = NULL \/ owner # s THEN "closed" ELSE "unmapping")
  /\ UNCHANGED <<request, mappingVars, eventVars, interruptVars, overwritten, owed>>

(* ... unmap it, whichever it is by now ...                                *)
CleanupUnmap(s) ==
  /\ Cleanup(s, "unmapping", "clearing")
  /\ live' = Unmapped
  /\ UNCHANGED <<request, shmemMap, owner, made, eventVars, interruptVars, overwritten, owed>>

(* ... and forget the address and the owner                                *)
CleanupClear(s) ==
  /\ Cleanup(s, "clearing", "closed")
  /\ shmemMap' = NULL /\ owner' = Nobody /\ Forget
  /\ UNCHANGED <<request, live, made, eventVars, interruptVars, owed>>

-----------------------------------------------------------------------------
(* Interrupts                                                              *)

(* IVSHMEMInterruptISR lets message 64 pass, too: 1ULL << 64 is undefined, *)
(* the bit of another vector or none                                       *)
Bits(m) == IF m \in Vectors THEN {{m}} ELSE {{}} \cup {{v} : v \in Vectors}

Interrupt(m) ==
  /\ raised < MaxRaised /\ raised' = raised + 1
  /\ m \notin queueing
  /\ \E bits \in Bits(m) : pendingISR' = pendingISR \cup bits
  /\ queueing' = IF pendingISR = {} THEN queueing \cup {m} ELSE queueing
  /\ owed' = owed \cup {i \in eventList : eventBuffer[i].vector = m}
  /\ UNCHANGED <<queued, taken, sessionVars, mappingVars, eventVars, overwritten>>

QueueDpc(m) ==
  /\ m \in queueing /\ queueing' = queueing \ {m}
  /\ queued' = queued \cup {m}
  /\ UNCHANGED <<pendingISR, taken, raised, sessionVars, mappingVars, eventVars,
                 overwritten, owed>>

(* Faulty variant: all bits are cleared and only the own one is served.    *)
TakeOwn(m) ==
  /\ m \in queued /\ taken[m] = {}
  /\ queued' = queued \ {m}
  /\ taken' = [taken EXCEPT ![m] = pendingISR \cap {m}] /\ pendingISR' = {}
  /\ UNCHANGED <<queueing, raised, sessionVars, mappingVars, eventVars, overwritten, owed>>
(* IVSHMEMInterruptDPC takes all bits ...                                  *)
TakePending(m) ==
  /\ m \in queued /\ taken[m] = {}
  /\ queued' = queued \ {m}
  /\ taken' = [taken EXCEPT ![m] = pendingISR] /\ pendingISR' = {}
  /\ UNCHANGED <<queueing, raised, sessionVars, mappingVars, eventVars, overwritten, owed>>

(* ... and walks the list under the lock: single-shot events leave it      *)
SetEvents(m) ==
  LET due == {i \in eventList : eventBuffer[i].vector \in taken[m]}
  IN /\ taken[m] # {} /\ taken' = [taken EXCEPT ![m] = {}]
     /\ RemoveEvents({i \in due : eventBuffer[i].singleShot})
     /\ owed' = owed \ due
     /\ UNCHANGED <<pendingISR, queueing, queued, raised, sessionVars, mappingVars,
                    overwritten>>

-----------------------------------------------------------------------------
(* The device stops and starts: IVSHMEMEvtDeviceReleaseHardware, once the  *)
(* system has stopped the queue and the interrupts.  The owner stays.      *)
Stopped == Idle /\ queueing = {} /\ queued = {} /\ \A m \in Messages : taken[m] = {}
ReleaseHardware ==
  /\ Stopped
  /\ live' = Unmapped /\ shmemMap' = NULL
  /\ eventBuffer' = [i \in Slots |-> IF i \in eventList THEN NoEvent ELSE eventBuffer[i]]
  /\ eventList' = {} /\ eventBufferUsed' = 0
  /\ references' = references - Cardinality(eventList)
  /\ owed' = {}
  /\ UNCHANGED <<sessionVars, owner, made, interruptVars, overwritten>>

(* MmUnmapLockedPages is called with NULL, or with an address that is      *)
(* unmapped already: another session's request or clean-up came between    *)
(* the checks of a release or a clean-up and its call, or a clean-up has   *)
(* not forgotten the address yet                                           *)
UnmapsNothing ==
  /\ \/ Serving("release") \/ \E s \in Sessions : handle[s] = "unmapping"
     \/ Stopped /\ shmemMap # NULL
  /\ shmemMap \notin {m \in Maps : live[m] # Nobody}
BugCheck ==
  /\ UnmapsNothing /\ halted' = TRUE
  /\ UNCHANGED <<sessionVars, mappingVars, eventVars, interruptVars, overwritten, owed>>

-----------------------------------------------------------------------------
DriverRuns ==
  \/ \E s \in Sessions :
       \/ Open(s) \/ RequestMmap(s) \/ RequestMmapFails(s) \/ ReleaseMmap(s)
       \/ RegisterEvent(s)
       \/ CleanupEvents(s) \/ CleanupMapping(s) \/ CleanupUnmap(s) \/ CleanupClear(s)
  \/ SetOwner \/ FinishRelease \/ BufferFull
  \/ \E v \in Vectors, once \in BOOLEAN : AddEvent(v, once)
  \/ \E m \in Messages : Interrupt(m) \/ QueueDpc(m) \/ TakePending(m) \/ SetEvents(m)
  \/ ReleaseHardware

DriverNext ==
  /\ ~halted
  /\ \/ DriverRuns /\ UNCHANGED halted
     \/ BugCheck

DriverSpec == DriverInit /\ [][DriverNext]_driverVars

-----------------------------------------------------------------------------
DriverTypeOK ==
  /\ handle \in [Sessions -> {"off", "open", "cleaning", "unmapping", "clearing", "closed"}]
  /\ request \in {NoRequest} \cup [by : Sessions, kind : {"mmap", "release", "register"}]
  /\ shmemMap \in Maps \cup {NULL} /\ owner \in Sessions \cup {Nobody}
  /\ live \in [Maps -> Sessions \cup {Nobody}] /\ made \in 0 .. MaxMaps
  /\ halted \in BOOLEAN
  /\ eventBuffer \in [Slots -> Events \cup {NoEvent}]
  /\ eventList \subseteq Slots
  /\ eventBufferUsed \in Int /\ references \in Int
  /\ pendingISR \subseteq Vectors /\ queueing \subseteq Messages /\ queued \subseteq Messages
  /\ taken \in [Messages -> SUBSET Vectors] /\ raised \in 0 .. MaxRaised
  /\ overwritten \subseteq Maps /\ owed \subseteq Slots

(* The list of events, the slots in use and their number say the same      *)
(* after any order of requests, clean-ups and deferred calls, and the      *)
(* driver holds one reference per event.  So the bug check that the code   *)
(* says "should never occur" does not, and no slot is lost.                *)
EventSlotsMatchList ==
  /\ eventList = {i \in Slots : eventBuffer[i] # NoEvent}
  /\ eventBufferUsed = Cardinality(eventList)
  /\ references = eventBufferUsed + IF Serving("register") THEN 1 ELSE 0
  /\ ~NoSlotFound

(* A session that is closed leaves no event behind, and no mapping - but   *)
(* one whose address a later request, of any session and even one that     *)
(* failed, or another clean-up overwrote.                                  *)
SessionsLeaveNothing ==
  \A s \in Sessions : handle[s] = "closed" =>
    /\ \A i \in eventList : eventBuffer[i].owner # s
    /\ {m \in Maps : live[m] = s} \subseteq overwritten

(* No interrupt is lost between the interrupt routine, which queues a      *)
(* deferred call only if it found no bit set, and the deferred call, which *)
(* takes the bits of all: while an event waits for its interrupt, the bit  *)
(* is in the hands of a deferred call, or set with one on the way.         *)
InterruptsReachEvents ==
  /\ owed \subseteq eventList
  /\ \A i \in owed : \/ \E m \in Messages : eventBuffer[i].vector \in taken[m]
                     \/ /\ eventBuffer[i].vector \in pendingISR
                        /\ queueing \cup queued # {}
=============================================================================
