# A TLA+ model of SharedGL

SharedGL runs OpenGL programs (in a virtual machine, or on the same host)
against a GPU they cannot reach: a replacement OpenGL library turns every call
into words of a command buffer, and a server process on the host executes the
buffers. Both sides meet in one piece of shared memory (an ivshmem device or a
POSIX object), or over the network. This directory holds TLA+ models of the
parts of that system where something can go wrong that a test would hardly
find, TLC runs that check them on small instances, and proofs checked by TLAPS
for every instance.

Source paths below are relative to the repository. `PROJECT.json` pairs every
definition that stands for code with its lines, every property with a mutation
of the model that breaks it, and every hazard of the code with the properties
that would catch it going wrong.

## The system

| Part | State | Operations | What makes it correct |
|---|---|---|---|
| **Shared-memory transport, client** (`src/client/glimpl.c`, `pb.c`, `spinlock.c`, `main.c`) | `client_id`, the push buffer, `lockg` | claim a slot and connect (library constructor), submit a buffer and wait, drop an overflowed buffer, say goodbye (destructor) | one owner per slot; one writer of the staging area; a call gets its own result |
| **Command loop, server** (`src/server/processor.c`) | `connections`, `client_id`, `submit_size`, `shared_exec`, `release_client_slot` | poll CONNECT and SUBMIT, check, copy, bind the context, run, reply, release a slot | each buffer run once, in its sender's context; nothing left of an earlier owner |
| **Connections and GL contexts** (`processor.c`, `context.c`, `dynarr.c`) | a linked list, the current context | add, make current, remove | at most one connection per owned slot |
| **Network transport** (`glimpl.c`, `processor.c`, ENet) | peers, one place for the commands that arrived | connect, send, wait, reply, disconnect | a program takes the packet it waits for; a buffer is run for its sender |
| **Push buffer and wire encoding** (`pb.c`, `glimpl.c`, `processor.c`) | `in_cur`, `write_overflowed`, the read pointer, the uploaded memory | some 700 entry points push words, some 700 cases read them | both sides agree about every word; an overflowed buffer is dropped as a whole |
| **Downloads and mapped buffers** (`glimpl.c`, `scratch.c`, `processor.c`) | `download_target`, `download_offset`, two `map_buffer`s, scratch memory | map, download in blocks of 3072 bytes, flush, unmap, read an image back | a download belongs to the call that started it; writes reach their buffer |
| **Client-side GL state** (`glimpl.c`) | shadow bindings, 256 vertex arrays, client pointers | bind, specify, enable, delete, draw from client memory | a draw reads the arrays where the program said they are |
| **Presentation of frames** (`glx.c`, `windrv.c`, `context.c`) | the framebuffer, the swap lock | swap: render, read back, turn over, copy to the window | a window shows its own, whole frame |
| **GLX and Windows front ends** (`src/client/platform/`) | tables of contexts and windows, what is current, the image of the last swap | create, refuse, destroy, make current, track windows, swap | the tables hold what the program was given |
| **Linux module** (`kernel/linux/sharedgl.c`) | the device's regions | probe, remove | a failed probe undoes what it did |
| **Windows driver** (`kernel/windows/`) | one mapping and its owner, the event list and its slots, interrupt bits | map, release, register events, interrupt, deferred call, clean up, release the hardware | owner and mapping agree; list, slots and count agree; no interrupt is lost |
| **Server start, overlay, device detection, names of commands** (`src/server/main.c`, `overlay.c`, `src/client/memory.c`, `src/server/sgldebug.c`) | options, counters | | straight-line code |

How the parts meet: a program's calls fill its push buffer; `glimpl_submit`
publishes it in the *staging area*, one for all programs, guarded by a spin
lock and a SUBMIT register; the server, a single thread, polls, copies the
buffer out, runs it and writes the result into the program's *mailbox slot*,
whose own SUBMIT register the program polls. A slot is claimed by setting a bit
in a mask; the server is told through a third register, CONNECT. Nothing
notifies anybody: all waiting is polling. Over the network the same loop takes
the buffer from an ENet packet and answers with one or two packets. In a virtual
machine the shared memory is a device, which a kernel driver maps.

What is hard: every register is a plain word that both sides read and write at
any time; the lock is dropped and taken again inside the waits; CONNECT and
SUBMIT are polled one after the other; the slot of a program that leaves is
given back after its goodbye was answered; packets carry no mark of what they
are; nothing in a buffer marks where a command ends; the server keeps one
download and one upload for all programs; the client keeps copies of GL's state
that GL does not confirm; the Windows driver runs requests, clean-ups,
interrupts and deferred calls side by side; a program may die anywhere, and
nobody notices.

## The modules

| Module | What it is |
|---|---|
| `RenderService` | Abstract: a program asks, the server runs each accepted buffer exactly once, the program gets the result of that buffer; a refused buffer yields zero. |
| `ShmTransport` | The shared-memory transport: clients and server, one step per access to a shared register. Implements `RenderService`. |
| `ShmTransportInv` | Its inductive invariants, as named parts, and the properties that are only proved. |
| `ShmTransportProofs`, `ShmServiceProofs` | Types, lock, slots, staging area, what becomes of a buffer; connections, free slots, contexts; results and the refinement; where a buffer is until it is answered, and that it is. |
| `NetTransport`, `NetTransportProofs` | The network transport. Implements `RenderService` too. |
| `FramePresent`, `FramePresentProofs` | Swapping buffers, composed with `RenderService`: it hands its buffers over by that module's actions. |
| `WireFormat` | The alphabet in which both tables of commands are written. |
| `GlimplCalls`, `GlimplCore`, `GlimplShaders`, `GlimplVectors`, `GlimplObjects` | The table of calls: what each entry point of `glimpl.c` pushes, where it hands over and which registers it reads. |
| `ProcessorRows`, `ProcessorPlain`, `ProcessorVectors` | The table of cases: what each case of `processor.c` reads, whether it uses the uploaded memory, which registers it writes. |
| `WireTables`, `CodeTables` | What the two tables must have in common, for any tables; the two tables of the code and the calls for which they do not agree. |
| `CommandQueue` | Abstract: the commands handed over are run once, as pushed, in order, before the call returns. |
| `CommandStream`, `CommandStreamProofs` | Programs push words, hand over and read answers; the server walks through the words. Over any two tables. Implements `CommandQueue`. |
| `MappedBuffers` | Mapping, flushing, unmapping and image readback of several programs with one server. |
| `VertexArrays` | The client's copies of bindings and vertex arrays beside GL's. |
| `GlxTables`, `WindrvTables` | The tables of the two front ends. |
| `WindowsDriver`, `LinuxDriver` | The two kernel drivers. |
| `KernelDriversProofs` | Proofs about the two kernel drivers. |
| `ClientStateProofs` | Proofs about `MappedBuffers`, `VertexArrays`, `GlxTables` and `WindrvTables`. |
| `GuestProofs` | Proofs about the guest's side as the run `guest` composes it. |
| `MCShmTransport`, `MCFramePresent`, `MCWireTables`, `MCCommandStream`, `MCGuest` | Instances for TLC. |

### ShmTransport and the code

A client's `pc` names the register access it is about to make. `claim` ..
`connDone` is `shm_create_context` (`ClaimRead`, `ClaimWrite` and `ClaimFull`
are `shm_claim_slot`); `subLock` .. `subWait` is `submit_shm`; `run` is the
program between two calls that submit. A call that submits is one action
`Call`, for whatever command: only the length of the buffer and the identity of
the request are kept. A buffer is a record (who sent it, what kind of commands
it holds, a bit that alternates between consecutive buffers of a program and
stands for their content), the slot it names and its length. `Goodbye` is the
library's destructor. A program that ended may be started again (`StartUp`): it
stands for the next process.

The server's `spc` names the place in `wait_shm` (`conn` .. `getSize`) and in
the rest of the loop of `sgl_cmd_processor_start`. One action runs all commands
of a buffer (`SExecCall`), as commands touch none of the transport's registers
but the private RETVAL; `SExecGoodbye` is a buffer with GOODBYE_WORLD. What a
buffer computes is named by its request. `cur` is the slot whose context is
current: `connection_add` makes the new context current, `connection_rem` leaves
none, and `connection_current` changes nothing when there is no connection,
just like the code. `ran` is a history variable: the bit of the latest buffer
of each client that was run.

A few accesses that cannot be told apart are one step: the copy of the buffer
(`SubCopy`, `SCopy`; `StageFrozen` shows that nobody writes meanwhile), the copy
of all return registers (`SReply`; the program does not read them before its
flag falls), the zeroing of a slot (`SRelWipe`, under the lock). A failed
compare-and-swap or a poll that sees no change is no step.

Two assumptions about the platform. Accesses take effect in program order, at
once and for all (x86-like; both sides are built without optimisation, as
`CMakeLists.txt` sets no build type, so that loads in the polling loops are
really repeated: the registers are neither `volatile` nor atomic in the
source). And a program makes its GL calls from one thread: the push buffer has
no lock of its own.

### NetTransport and the code

`Start`, `Meet`, `GiveUp` and `TakeHello` are `init_net` (places `connecting` and
`hello`); `Submit` with `TakeReply` and `TakeFrame` (places `reply` and `frame`)
is `submit_net` and `swap_buffers_net`; `Farewell`, `Disconnect` and `Leave`
(places `bye` and `drain`) are `glimpl_goodbye` with the disconnection that
follows it. `Overflow` ends the program: over the network a dropped buffer makes
the code write through a null pointer. The server takes events with `Accept`,
`Receive` and `Ignore` as long as its round of `enet_host_service` lasts; each
`Receive` puts the commands, the peer and the context in the same three
variables. `EndRound`, `Run` and `Answer` are the rest of the loop. ENet is
external: reliable packets in order per connection, and events. `lost` notes
the programs whose buffer was overwritten. `init_net` reads its connect packet
after it destroyed it; the numbers in it may be anything and the model uses
none of them.

### The wire tables and CommandStream

A word of a buffer is modelled by what the code pushes or reads it as: an
integer, a float, half of a wide value, a count, a flag, four characters of a
text, an untyped word. An entry of the table of calls is a sequence of pieces;
a piece is a command with its words, whether the buffer is handed over after it
and which return registers are read then. A row of the table of cases is the
words a case reads, whether it uses the uploaded memory and what it writes.
Lengths that depend on arguments are counts from 0 to 2: none, one and several.
Entry points whose code has the same form are one definition over the names of
their commands, so a definition stands for many functions; a form is written
down once and read off the code for each name.

`WireTables` says when two tables agree: whichever case the words of a command
leave possible reads just those words (`AgreesOn`), as what they are
(`AgreesOnKinds`), and leaves the answer where the call looks (`AgreesOnReply`).
`AgreesOnUpload` says of a call that whatever has the uploaded memory used comes
after an upload of the same call, with no hand-over in between. For the tables
of the code TLC evaluates this, as an assumption of `MCWireTables`, for every
call whose pieces agree, which the run `wire_in_step` shows to be all of its
calls. `CommandStream` is the machine over any two tables. A program pushes the
words of a piece (`PushPiece`), hands the buffer over or finds it overflowed
(`SubmitPiece`, `DropPiece`) and reads its answers (`ReadPiece`); the server
takes any word it finds for a command and runs whichever case it names
(`RunCommand`), until it meets a zero (`Answer`). Only the words of a buffer are
copied (`Begin`), so behind them there may be those of a longer one before it. A word that is data may be the
number of any command; when words of another kind are read, anything may come of
it.

### FramePresent and the code

`SwapLock`, `SwapSubmit`, `SwapReturn`, `PutLine`, `SwapUnlock` are the lines of
`glXSwapBuffers` (`DrvSwapBuffers` does the same). The server runs one buffer at
a time: `SwapBegin`, a `ReadLine` per line of `glReadPixels`, a `FlipLine` per
round of the loop that turns the image over, `SwapEnd`. Lines, not pixels, are
the unit: the code treats all pixels of a line alike. All the rest of a program's
life is `OtherCall`: any step of `RenderService`. Since both transports implement
`RenderService`, whatever is shown here of programs that use the service holds
for programs that use a transport. A buffer that a dead program left behind
may be run after its death (`pending`).

### The guest's side

*MappedBuffers.* A step is one hand-over. The server's `map_buffer`,
`download_target` and `download_offset` are one for all programs; the client's
`held` is one for all its targets. Every hand-over may be dropped. A mapping
without a range asks for the size first, and `glMapNamedBuffer` reads 0 for it
(`MapNamed`). `mixed` and `crossed` are history: the programs whose download
another one or a drop disturbed, and whether two mappings were ever open at a
time or a size was read as 0. Memory that is
not what the code takes it for holds `Junk`.

*VertexArrays.* Beside the client's copies (`array_buffer`, `table`, `vaps`)
stand GL's state, as the forwarded commands made it, and what the program would
have with its calls made to GL itself (`bound`, `told`). A draw is prepared from
the copies and reads from GL's state. `forgotten`, `toldIn` and `misled` are
history: what the exceptions of the two properties speak of.

*GlxTables, WindrvTables.* A context of GLX is the address `calloc` returned,
a window the number X gave it; both come back after their release. X makes and
takes windows without telling `glx.c` (`OpenWindow`, `CloseWindow`), and
`leftover` notes the numbers under which data of an older window is left. A
context of the Windows front end is a handle drawn from a counter of the width
of LONG, which wraps round.

*WindowsDriver.* Requests are served one at a time, but the clean-up of other
sessions, the interrupt routine of any vector and the deferred call run beside
them, and only the list of events has a lock: so each of these is split at the
accesses that others can see. An unmapping may find NULL, or an address that was
unmapped meanwhile: the system ends with a bug check (`BugCheck`), or nothing
happens. *LinuxDriver.* `pci_probe` with one action per
step and one per label it jumps to.

### Faulty variants

Definitions marked "Faulty variant" are not part of a specification. Each is the
next definition with a plausible bug; `PROJECT.json` pairs it with the property
that fails when it takes the original's place.

## The runs

| Run | Instance | Shows |
|---|---|---|
| `safety` | 3 programs, 2 slots, everybody comes and goes | `LockMutex`, `SlotExclusive`, `ConnectionsMatchSlots`, `ClaimedSlotClean`, `CallsInOwnContext`, `StageConsistent` |
| `service` | 2 programs, 2 slots, buffers that fit and that overflow, one program may be killed | `ServiceSpec` (refinement of `RenderService`), `StageFrozen`, `NeverStuck` |
| `live` | 2 programs, 2 slots, one never leaves | `PublishedIsAnswered`, `SomeonePublishes`, `GoodbyeFreesSlot`, `QuietMeansServed` |
| `crash` | 2 programs, 2 slots, one may be killed | `SurvivorsServed` |
| `gone` | the same | *violated*: `GoneClientDetected` |
| `present` | 2 programs, 4 lines, drops, one may be killed | `ShownIsOwn`, `ShownIsWhole`, `FramebufferExclusive` |
| `wire_in_step` | every command of every entry point but fourteen, against every case | `PieceAgrees` |
| `wire_odd` | those fourteen entry points, and arguments in three corner cases | *violated*: `PieceAgrees` |
| `stream_calls` | each entry point of several pieces with a frame after it; two programs with an upload and a question | `InSync`, `KindsKept`, `ReplyOwn`, `UploadOwn`, `EveryCallReturns`, `QueueSpec` (refinement of `CommandQueue`) |
| `net_service` | 2 programs over the network, one may be killed | `PacketsAsAwaited`, `RunsForItsSender`, `ServiceSpec`, `AnsweredUnlessLost`, `NeverStuck` |
| `net_lost` | the same, nobody is killed | *violated*: `EveryCallAnswered` |
| `guest` | mapped buffers, vertex arrays, the two front ends and the two drivers, side by side | `DownloadsReadSource`, `WritesReachBuffer`, `IndicesAsBound`, `DrawsReadWhatWasTold`, `ContextsAccountedFor`, `WindowsAsCreated`, `ContextsFoundByHandle`, `EventSlotsMatchList`, `SessionsLeaveNothing`, `InterruptsReachEvents`, `ProbeUndoes` |

**Bounds.** *Transport.* Three programs and two slots is the least where a slot
is reused while another one is in use and a third program finds none.
`FifoWords = 4` is the shortest staging area that holds a goodbye; `CallWords`
holds one length that just fits (3 words and the closing zero) and, in
`service`, one that just overflows. A 0/1 bit is enough to tell buffers apart,
as a program has at most one that is not answered. No counter is unbounded:
`conns` grows only if a connection were added twice, which
`ConnectionsMatchSlots` excludes. *Frames.* Four lines make a frame whose two
halves take two rounds each. *Network.* Two programs are enough for one to
overwrite the other's buffer; a program has at most two packets on the way.
*Commands.* Counts of 0, 1 and 2 tell an empty, a single and a repeated part
from each other; a word's value beyond that is never looked at. The buffer of
40 words is shorter than some of the calls of several pieces and longer than
others, so both the drop and the hand-over happen. *Guest.* A buffer of three
units is downloaded in a full and a partial block of two; two mappings
(`MaxCalls`) can be open at a time; two buffers, two vertex array objects and a
table of two entries make it overflow, and seven calls (`MaxSteps`) suffice to
bind, specify, switch, delete and draw. The tables of the front ends have two
entries for two contexts and three windows, so the second one overflows; the
counter of handles wraps round after 7. The drivers have two sessions, two
event slots, two vectors and one number beyond 64, two mappings and two
interrupts (`MaxMaps`, `MaxRaised`); four memory regions. The parts of `guest`
share no state, so `part` picks one of them at the start and the others rest:
their states add up instead of multiplying.

**Deadlock** is checked in `safety`, where nothing can stop but a system in
which everybody ended. `NeverStuck` says more, of each process on its own: it
stops only where the code waits (a lock that is taken, a flag of the other side,
a packet, its own caller); `service` and `net_service` check it with a program
that may be killed. Elsewhere deadlock is not checked: a program killed inside a critical
section takes the lock with it, programs over the network or with a list of
calls come to an end, and the bounds on calls, requests and interrupts end a
behaviour of `guest`.

**Fairness** is weak fairness of the server as a whole and of each client's
steps once it is inside the library: each is a thread the operating system
keeps scheduling. Starting, calling, leaving and dying are not fair.

* `ShmTransport`. The lock is a compare-and-swap without a queue, so neither a
  run nor a proof assumes strong fairness: a program that keeps finding the lock
  taken may starve, and the properties say only what survives that. `SomeonePublishes` (somebody gets
  through), `QuietMeansServed` (a program gets through once the others are
  quiet). `StartsCease` excludes one more behaviour, which TLC finds at once
  when it is dropped: programs that are started for ever, find no slot and exit
  can always win the lock from the server that wants to free a slot.
* `NetTransport`. `Deliver` is strongly fair: the server leaves its round only
  when `enet_host_service` has nothing more, so a packet that has arrived is
  served before its round ends, and rounds go on for ever.
* `CommandStream`. A program goes on with a call it has begun, and the server's
  loop runs.

**What the violated runs show.** `gone`: the comment over `wait_shm`
(`src/server/processor.c:171-176`) says that the server makes sure the client
still exists; nothing does, and the slot, connection and context of a killed
program stay. `wire_odd`: fourteen entry points push words that their case does
not read in that form, that no case reads at all, or look for the answer in a
register their case does not write; and an empty text, a compressed image whose
size is no multiple of four and a mapped range of length zero push another
number of words than is read. That each of these really disagrees is the
assumption `OutOfStepAssumption`, which both wire runs evaluate; for all other
calls the tables agree. `net_lost`: when the packets of two programs arrive in
one round of `wait_net`, only the last is run and answered, and the other
program waits for ever.

The exceptions of a property are the flaws the model met and nothing in the
repository rules out: `mixed` in `DownloadsReadSource` (another program's
mapping or readback, or a dropped request, between two blocks), `crossed` in
`WritesReachBuffer` (two mappings open at a time, a size read as 0), `forgotten` and `misled` in
the properties of draws (a deleted buffer, a full table, an array told to two
objects), `leftover` in `WindowsAsCreated` (X gives a number again), `wrapped`
in `ContextsFoundByHandle`, `overwritten` in `SessionsLeaveNothing` (a second
mapping request), and the fixed-function array in a buffer, which is told to GL
only at the draw.

Reading the code for the model also showed: the goodbye's reply already zeroes
the slot's return registers and its flag, so that the `memset` in
`sgl_release_client_slot` has nothing left to clear of what the transport reads;
`glGetFloati_v` sends GETINTEGERI_V and `glGetDoublei_v` copies `sizeof(GLfloat)`
per value; FLUSHMAPPEDBUFFERRANGE copies nothing while the variant by name does;
the interrupt routine accepts message 64, which its comment says is ignored
(`src/kernel/windows/Device.c:227-228`, `:333`); `ioremap`'s failure is NULL,
which `IS_ERR` does not see, so such a region counts as mapped.

## The proofs

All proofs hold for every value of the constants: any set of programs, any
number of slots, any sizes, any tables. The assumptions are the named `ASSUME`s
on the constants and what the theorem itself names: `ServerInSync` and the
theorems after it in `CommandStreamProofs` the agreement of the two tables, the
theorems of liveness what is listed under *Liveness*. The agreement is what the
run `wire_in_step` evaluates for the tables of the code. It does so a
piece at a time; `PiecesSuffice` proves that this is the same: all pieces agree
and no case has the number of a word of data, if and only if the tables agree as
the hypotheses say.

*Slots* (`SlotInvariant`). `LockMutex` and `SlotExclusive` are not inductive.
The argument needs that a copy of the mask made under the lock is up to date
(`MaskInv`), that a program's flag is up while its buffer is on the way and
falls only after the buffer was run (`FlagInv`, `RanInv`), that what is staged
and what the server has taken are buffers of two different waiting programs
(`StageInv`, `TakenInv`), that the registers describe the staged words
(`SizeInv`), and that the slot being released has no owner and keeps its bit
until the server clears it (`ReleaseInv`). Each step of `Next` is taken in turn.
From the invariant follow `TypeCorrect`, `LockIsMutex`, `SlotsAreExclusive`,
`StagingIsConsistent` and the action property `StagingIsFrozen`.

*What becomes of a buffer* (`BuffersAreKept`, `BuffersRunOnce`). Between its
publication and its run, a buffer is in the staging area or in the server's copy.
`BuffersKept` is not inductive: while the server clears SUBMIT, both hold the same
buffer, and only that (`KeptInv`) makes the clearing harmless. Nor does polling
run a buffer twice: SUBMIT is cleared before the run, and the next buffer has
another number. `LockedForGood` says what `SurvivorsServed` excepts: a program
killed with LOCK keeps it, and from then on no other program and not the server
are ever inside a critical section.

*Connections* (`ConnInvariant`). `ConnInv` says that a connection, and the
number in CONNECT, belong to an owner, and that an owner past its handshake has
either a connection or its number in CONNECT, not both. `CreateInv` is the heart
of it: once a program's first buffer is answered while its number is still in
CONNECT, the server is about to read CONNECT. Hence `ConnectionsAreMatched`,
`ClaimedSlotsAreClean` and `CallsRunInOwnContext`. `StrandedForGood` is the
general form of the finding of the run `gone`: any program killed with a
connection, and without a goodbye on the way, keeps slot and connection for ever.

*Results* (`ReplyInvariant`, `TransportImplementsService`). `ReplyInv` follows a
result from the server's copy into the slot to the program that reads it.
With it every step of `ShmTransport` is a step of `RenderService` or none: the
run of a buffer is `Run`, the reading of RETVAL is `GetResult` or `GetRefused`,
a kill is `Die`. `ResultsOwn` shows what the refinement is good for: that a call
returns what its own latest buffer yielded is proved of the six actions of
`RenderService` (`PromiseStep`) and carried over to the registers and masks.

*Where a waiting program's buffer is* (`ShmAccounts`). It is in exactly one of
four places: staged, in the server's copy, being answered, or answered. The
proof needs one fact more than the invariants before, `RaisedInv`: a slot whose
flag is up belongs to a program that waits for it.

*Liveness* (`SurvivorsAreServed`, `PublishedAreAnswered`,
`SomeoneAlwaysPublishes`, `GoodbyesFreeSlots`, `QuietProgramsAreServed`; over the
network `NetAnswers`). TLC shows these properties for two programs; the theorems
are for any number of programs and slots. What they assume besides fairness:

* `[]NeverStuck`, in all of them. Fairness promises a step where one is enabled,
  and tlapm does not compute ENABLED; so what is enabled where is a hypothesis, a
  state predicate that TLC checks in `service` and `net_service`.
* `FinitelyMany`, in the first four: if each program writes CONNECT no more from
  some time on, then from some time on nobody does, and the same for holding
  LOCK. It says nothing of the code: for finitely many programs it holds by
  logic alone, whatever they do. But the proof is an induction over the set of
  programs whose hypothesis is temporal, and the prover has no rule for that.
  Its start and its step are proved (`NobodySettles`, `OneMoreSettles`), and so
  is `FinitelyMany` itself for up to three programs (`FewProgramsSettle`), where
  none of it is left to assume.
* `MayCrash = {}` in all but `SurvivorsAreServed` and `NetAnswers`, as the
  properties are about programs that are not killed. `SurvivorsServed` excepts
  the programs that were killed, and the case that one was with LOCK in hand.

The fairness is that of the runs, weak fairness of the server and of each
program, and what else the properties say (`StartsCease`) is theirs.

The argument. The one release that competes for LOCK is the server's, and a lock
that is merely free again and again would not do for it. But while the server
tries, nobody lowers SUBMIT. Programs that are joining come to an end: nobody
starts any more, each of them writes CONNECT once and then waits for it without
the lock (`WriterStops`, `JoinerStops`). One that wants to submit finds SUBMIT
up and waits for it, without the lock too, or raises it, once (`StagerStops`).
So from some time on no program holds the lock or takes it (`HoldersStop`), the
lock stays free, and weak fairness gives it to the release (`LockForRelease`).
So the server's rounds end, `wait_shm` looks at SUBMIT unless CONNECT keeps it -
which ends as writing it does -, and the staging area becomes free. The buffer of one
program then goes from station to station: staged, copied, its context bound,
run, answered, its flag cleared, seen by the program. That it leaves a station
only for the next is a lemma on each station's steps, and rests on the
invariants of safety: that it is not overwritten, run for another or answered to
another. A program on its own is simpler: its steps lead from place to
place, and the server, once it has dealt with the program's buffer, has nothing
to release and leaves LOCK alone. Over the network the places are those of
`NetAccounts`: ENet's `Deliver` is fair, and each round of the loop ends.

*Network* (`NetPackets`, `NetRunsForSender`, `NetImplementsService`,
`NetTyped`). The invariant says for each place of a program where its latest
buffer is: on its way, in the server's one place, overwritten, or answered, and
that only one of these holds (`AtReply` and its like); what events a program
that may be dead has left (`EventsOK`); and that the server's peer, context and
commands are of one program (`ServerOK`). `LostInv` adds that the programs noted
in `lost` are those whose buffer is nowhere. From the invariant, `NetResultsOwn`:
a program that may go on holds the value of its own latest buffer, and nobody
ever holds another one. With `LostInv`, `NetAccounts`: what a
waiting program waits for is in exactly one of the three places between the two
ends, or in none exactly when another buffer overwrote it. And `NetLostForGood`,
the general form of the finding of `net_lost`: such a program waits until it is
killed.

*Frames* (`FrameInvariant`). The swap lock has one holder (`LockInv`), the
server works for the holder while it waits (`PhaseInv`), the lines before the
loop variable are read, or turned over (`FrameInv`; a lemma on the half of the
height closes the loop), and a program that copies does so from a finished frame
(`WindowInv`). Hence `FramebufferIsExclusive`, `OwnFrameShown`,
`WholeFrameShown`, and `FrameTypeCorrect`. `FramesKeepService`: every step is one
of `RenderService` or none, so presentation takes nothing from what the
transports promise. `FramesStopForGood`: a program killed inside
`glXSwapBuffers` keeps the swap lock, and no other one presents a frame again.

*Commands* (`ServerInSync`, `KindsAreKept`, `RepliesAreOwn`,
`StreamImplementsQueue`, `StreamTyped`). `BufferInv` says that the commands
noted in `said` lie in the buffer one after the other and fill it (`Laid`), and
`ServerInv` that the server is where the next one begins. If every case reads
just the words of its command, a round of the loop moves from one to the next.
So the server never reads behind what it was handed, and a buffer of n words
takes at most n rounds (`ServerStaysInside`). `UploadsAreOwn` needs more than
`UploadOwn` (`UploadInv`): in each buffer a command that has the upload used
comes after an upload of its own call; the pieces a call has still to push keep
to that, given what is in the buffer; and the server's memory is that of the last
upload it passed. The second hypothesis, `UploadsAgree`, is about single calls;
`wire_in_step` and the assumptions of `MCWireTables` evaluate it for the calls of
the code.

*Downloads and mappings* (`DownloadsRight`, `WritesRight`). `MapIInv`: a program
that downloads has no more than it asked for (`RoundInv`); as long as nothing
crossed, one mapping is open at most, and both `map_buffer`s are of it
(`WriteInv`); the server's target and offset are those of each download that
nobody disturbed (`SourceInv`).

*Draws* (`IndicesRight`, `DrawsRight`, `ArraysTyped`). `DrawIInv`: the client's
array buffer is GL's and the program's, or belongs to a deleted buffer where no
array is said to be (`BufferInv`); where the program said its arrays are, and in
which objects (`ToldInv`); and what the client's one flag per array then is
(`KnownInv`, for arrays told to one object).

*Front ends* (`GlxContexts`, `GlxWindows`, `HandlesRight`). A window has one
entry, which is what `glXCreateWindow` was last told (`EntriesInv`), and the
image is that of the window swapped last (`ImageInv`); handles in use are
distinct and the counter has passed them (`HandlesInv`). That a non-empty set of
entries has a first one (`LeastExists`) comes from the library's theorem on the
order of the natural numbers.

*Kernel drivers* (`EventsConsistent`, `ClosedSessionsClean`, `NoInterruptLost`,
`ProbeGivesBack`). `DriverIInv` adds to the three properties that the owner of
every event and of the request being served is open (`OpenInv`), that a mapping
that exists is the driver's or was overwritten (`MappingInv`) and that bits that
are set have a deferred call on the way (`BitsInv`). `ProbeIInv` says for each
step and label of `pci_probe` what is held there.

*The guest's side* (`PartsAreIndependent`, `GuestTyped`). The run `guest` checks
the parts in one composition. Each of its steps is a step of one part at which
the others rest, so a behaviour of the whole is one of every part, and the
theorems about the parts, each proved from the part's own specification, hold of
the composition. So do the types of each part.

**Only model-checked**: `NeverStuck`, as TLAPS does not reason about ENABLED;
`GoneClientDetected` and `EveryCallAnswered`, which are violated;
`EveryCallReturns`, an induction over the pieces of a call;
and `PieceAgrees`, which is about these two tables and no others, so that TLC's
evaluation of every command is all there is to show. **Only proved**: the type
invariants, by `TypeCorrect`, `NetTyped`, `FrameTypeCorrect`, `StreamTyped`,
`GuestTyped` and `ArraysTyped`; `BuffersKept`, `RunsOnce`, `ResultsAreOwn`,
`NetResultsAreOwn`, `WaitersAccounted` (which `NetAccounts` proves of the other
transport) and `StaysInside`; `FramesKeepService`; and the four theorems that
something stays so for ever (`StrandedForGood`, `LockedForGood`,
`NetLostForGood`, `FramesStopForGood`). No run checks these again.

## Not modelled

* What the GL driver does with a command, and the values that client calls
  compute before they push them (conversions, sizes of images from the pixel
  store, values answered from the client's memory): straight computations in
  one program, without other actors.
* The attribute stacks of the client (`glPushClientAttrib`) and NULL passed for
  the indices of a draw from client memory.
* A server that is started again beside programs of an earlier run: nothing in
  the repository says what they may expect. Parsing of options and signals.
* The network reply that carries 256 bytes where a download block is 3072: wrong
  whenever it is used, in any order of events.
* An `mremap` that fails in `scratch.c`: one call in one program.
* `init_net` reading a packet it destroyed, beyond leaving its contents open.
* Of GLX: configurations and visuals, pixmaps, the drawable that is read from,
  queries of X attributes, which answer from tables that never change. Of the
  Windows front end: pixel formats and `wgl.c`, which the Windows build does not
  contain. `egl.c` is empty.
* Of the kernel drivers: opening and mapping a device file of the Linux module,
  a file that stays open beyond the module's removal, the walk over the
  resources in `IVSHMEMEvtDevicePrepareHardware`, and requests that only touch
  a register.
* The linked list of `dynarr.c` (a set, in `ShmTransport`), the compression of a
  network frame, the overlay, device detection, logging (`sgldebug.c`),
  generated headers and vendored code (`inc/network/enet.h`, `inc/lzav.h`).
