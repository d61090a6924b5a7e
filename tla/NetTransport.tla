---------------------------- MODULE NetTransport ----------------------------
(***************************************************************************)
(* The network transport: how programs connect, hand command buffers to    *)
(* the server and leave when SGL_NETWORK_ENDPOINT is set, and how the      *)
(* server's command loop takes, runs and answers them.                     *)
(*   clients   init_net, submit_net, swap_buffers_net, glimpl_goodbye      *)
(*             (src/client/glimpl.c)                                       *)
(*   server    wait_net and the loop around it (src/server/processor.c)    *)
(*                                                                         *)
(* ENet (external) is modelled by what the code uses it for: reliable      *)
(* packets that arrive in order between one program and the server, and    *)
(* events for a connection that is made or ended.  up and down hold what   *)
(* is sent and not yet seen by the other side, in flight or in a queue.    *)
(*                                                                         *)
(* init_net reads the connect packet after it gave the packet back to      *)
(* ENet: the numbers in it (an id, the sizes of two areas) may be          *)
(* anything.  None of them is used below.                                  *)
(***************************************************************************)
EXTENDS Integers, Sequences

CONSTANTS Clients,   \* the programs that may use the library
          MayCrash,  \* those that may be killed at any step
          NoResult,  \* registers, or a framebuffer, nobody wrote yet
          None       \* no program

(* A buffer that asks for a value, one that ends with SWAP_BUFFERS, and    *)
(* that of glimpl_goodbye.  The first "buffer" is the connection itself.   *)
Kinds == {"create", "call", "frame", "goodbye"}
Requests == [from : Clients, kind : Kinds, bit : {0, 1}]
Values == Requests \cup {NoResult}
Packets == [type : {"hello", "retval", "frame"}, of : Values]
Events == [type : {"connect", "receive", "disconnect"}, req : Requests]

ASSUME CrashAssumption == MayCrash \subseteq Clients
ASSUME NoResultAssumption == NoResult \notin Requests
ASSUME NoneAssumption == None \notin Clients

VARIABLES
  (* The programs *)
  pc,        \* where each one is
  req,       \* its latest buffer
  got,       \* what its latest call returned, NoResult before
  (* The network *)
  up,        \* events for the server, by the program they come from
  down,      \* packets for each program
  (* The server *)
  spc,       \* "wait" in wait_net, "run", or "answer" after the buffer
  ready,     \* ready_to_render
  fifo,      \* the commands at SGL_OFFSET_COMMAND_START
  peer,      \* out_peer: whose packet came last
  ctx,       \* out_ctx: the context of that peer, named by its program
  contexts,  \* the programs with a context in their peer's data
  cur,       \* the GL context that is current
  ret,       \* the return registers, which are not zeroed in between
  screen,    \* the framebuffer
  expecting, \* network_expecting_retval
  swapped,   \* network_did_swap_buffers
  (* History *)
  ran,       \* the latest buffer of each program that the server ran
  lost       \* programs whose buffer another one overwrote

clientVars == <<pc, req, got>>
netVars == <<up, down>>
takeVars == <<ready, fifo, peer, ctx>>
runVars == <<cur, ret, screen, expecting, swapped, ran>>
serverVars == <<spc, takeVars, contexts, runVars, lost>>
vars == <<clientVars, netVars, serverVars>>

First(c) == [from |-> c, kind |-> "goodbye", bit |-> 0]
Init ==
  /\ pc = [c \in Clients |-> "off"]
  /\ req = [c \in Clients |-> First(c)]
  /\ got = [c \in Clients |-> NoResult]
  /\ up = [c \in Clients |-> <<>>] /\ down = [c \in Clients |-> <<>>]
  /\ spc = "wait" /\ ready = FALSE /\ fifo = NoResult
  /\ peer = None /\ ctx = None
  /\ contexts = {} /\ cur = None /\ ret = NoResult /\ screen = NoResult
  /\ expecting = TRUE /\ swapped = FALSE
  /\ ran = [c \in Clients |-> First(c)]
  /\ lost = {}

Goto(c, from, to) == pc[c] = from /\ pc' = [pc EXCEPT ![c] = to]
(* A program makes its next buffer and hands it to ENet                    *)
NextRequest(c, kind) == [from |-> c, kind |-> kind, bit |-> 1 - req[c].bit]
Send(c, type, kind) ==
  /\ req' = [req EXCEPT ![c] = NextRequest(c, kind)]
  /\ got' = [got EXCEPT ![c] = NoResult]
  /\ up' = [up EXCEPT ![c] = Append(@, [type |-> type, req |-> NextRequest(c, kind)])]
(* The next packet for a program, whatever it is                           *)
Packet(c) == Head(down[c])
Take(c) == down[c] # <<>> /\ down' = [down EXCEPT ![c] = Tail(@)]

-----------------------------------------------------------------------------
(* A program connects: init_net                                            *)

Start(c) ==
  /\ Goto(c, "off", "connecting")
  /\ UNCHANGED <<req, got, netVars, serverVars>>

(* ENet's handshake needs the server in wait_net                           *)
Meet(c) ==
  /\ Goto(c, "connecting", "hello")
  /\ spc = "wait"
  /\ Send(c, "connect", "create")
  /\ UNCHANGED <<down, serverVars>>

(* Five seconds without: exit(1)                                           *)
GiveUp(c) ==
  /\ Goto(c, "connecting", "gone")
  /\ UNCHANGED <<req, got, netVars, serverVars>>

TakeHello(c) ==
  /\ Goto(c, "hello", "ready")
  /\ Take(c)
  /\ got' = [got EXCEPT ![c] = Packet(c).of]
  /\ UNCHANGED <<req, up, serverVars>>

-----------------------------------------------------------------------------
(* Calls: glimpl_submit, submit_net, swap_buffers_net                      *)

Submit(c, kind) ==
  /\ Goto(c, "ready", "reply")
  /\ Send(c, "receive", kind)
  /\ UNCHANGED <<down, serverVars>>

(* A buffer that overflowed is dropped with pb_write and pb_ptr, of which  *)
(* the first has no hook here: it writes through a null pointer.           *)
Overflow(c) ==
  /\ Goto(c, "ready", "dead")
  /\ UNCHANGED <<req, got, netVars, serverVars>>

(* The loop of submit_net ends with the next packet.  A frame is waited    *)
(* for afterwards.                                                         *)
(* Faulty variant: it is not.                                              *)
TakeReplyOnly(c) ==
  /\ Goto(c, "reply", "ready")
  /\ Take(c)
  /\ got' = [got EXCEPT ![c] = Packet(c).of]
  /\ UNCHANGED <<req, up, serverVars>>
TakeReply(c) ==
  /\ pc[c] = "reply"
  /\ Take(c)
  /\ pc' = [pc EXCEPT ![c] = IF req[c].kind = "frame" THEN "frame" ELSE "ready"]
  /\ got' = IF req[c].kind = "frame" THEN got ELSE [got EXCEPT ![c] = Packet(c).of]
  /\ UNCHANGED <<req, up, serverVars>>

TakeFrame(c) ==
  /\ Goto(c, "frame", "ready")
  /\ Take(c)
  /\ got' = [got EXCEPT ![c] = Packet(c).of]
  /\ UNCHANGED <<req, up, serverVars>>

-----------------------------------------------------------------------------
(* A program leaves: glimpl_goodbye                                        *)

Farewell(c) ==
  /\ Goto(c, "ready", "bye")
  /\ Send(c, "receive", "goodbye")
  /\ UNCHANGED <<down, serverVars>>

(* ENet is served once, for half a second at most.  The farewell may have  *)
(* arrived by then; if not, the end of the connection drops it.            *)
Disconnect(c) ==
  /\ Goto(c, "bye", "drain")
  /\ \E sent \in {up[c], <<>>} :
       up' = [up EXCEPT ![c] = Append(sent, [type |-> "disconnect", req |-> req[c]])]
  /\ UNCHANGED <<req, got, down, serverVars>>

Leave(c) ==
  /\ Goto(c, "drain", "gone")
  /\ UNCHANGED <<req, got, netVars, serverVars>>

Kill(c) ==
  /\ c \in MayCrash /\ pc[c] \notin {"gone", "dead"}
  /\ pc' = [pc EXCEPT ![c] = "dead"]
  /\ UNCHANGED <<req, got, netVars, serverVars>>

-----------------------------------------------------------------------------
(* The server: wait_net                                                    *)

Event(c) == Head(up[c])
Arrives(c, type) ==
  /\ spc = "wait" /\ up[c] # <<>>
  /\ Event(c).type = type
  /\ up' = [up EXCEPT ![c] = Tail(@)]

(* sgl_net_accept_connection: the new context is the current one           *)
(* Faulty variant: connection_add is missing.                              *)
AcceptWithoutContext(c) ==
  /\ Arrives(c, "connect")
  /\ down' = [down EXCEPT ![c] = Append(@, [type |-> "hello", of |-> Event(c).req])]
  /\ ran' = [ran EXCEPT ![c] = Event(c).req]
  /\ UNCHANGED <<clientVars, spc, takeVars, contexts, cur, ret, screen, expecting, swapped, lost>>
Accept(c) ==
  /\ Arrives(c, "connect")
  /\ down' = [down EXCEPT ![c] = Append(@, [type |-> "hello", of |-> Event(c).req])]
  /\ contexts' = contexts \cup {c} /\ cur' = c
  /\ ran' = [ran EXCEPT ![c] = Event(c).req]
  /\ UNCHANGED <<clientVars, spc, takeVars, ret, screen, expecting, swapped, lost>>

(* sgl_net_get_fifo_upload: there is one fifo for all, and the events of a *)
(* round are all served before the buffer is run.                          *)
(* Faulty variant: the answer goes to who came first.                      *)
ReceiveKeepsPeer(c) ==
  /\ Arrives(c, "receive")
  /\ fifo' = Event(c).req /\ ready' = TRUE
  /\ peer' = IF ready THEN peer ELSE c
  /\ ctx' = IF c \in contexts THEN c ELSE None
  /\ lost' = IF ready THEN lost \cup {peer} ELSE lost
  /\ UNCHANGED <<clientVars, down, spc, contexts, runVars>>
Receive(c) ==
  /\ Arrives(c, "receive")
  /\ fifo' = Event(c).req /\ ready' = TRUE
  /\ peer' = c
  /\ ctx' = IF c \in contexts THEN c ELSE None
  /\ lost' = IF ready THEN lost \cup {peer} ELSE lost
  /\ UNCHANGED <<clientVars, down, spc, contexts, runVars>>

(* Nothing is done for a program that has left.                            *)
Ignore(c) ==
  /\ Arrives(c, "disconnect")
  /\ UNCHANGED <<clientVars, down, serverVars>>

(* No event is left that has arrived; others may be on their way.          *)
EndRound ==
  /\ spc = "wait" /\ ready
  /\ spc' = "run"
  /\ UNCHANGED <<clientVars, netVars, takeVars, contexts, runVars, lost>>

-----------------------------------------------------------------------------
(* The server: the rest of the loop                                        *)

(* The commands are run in the context of out_ctx.                        *)
Run ==
  /\ spc = "run"
  /\ spc' = "answer"
  /\ cur' = IF ctx = None THEN cur ELSE ctx
  /\ ret' = IF fifo.kind = "call" THEN fifo ELSE ret
  /\ screen' = IF fifo.kind = "frame" THEN fifo ELSE screen
  /\ swapped' = (swapped \/ fifo.kind = "frame")
  /\ expecting' = (expecting /\ fifo.kind # "goodbye")
  /\ ran' = [ran EXCEPT ![fifo.from] = fifo]
  /\ UNCHANGED <<clientVars, netVars, takeVars, contexts, lost>>

(* The return registers, unless the program has left, and the frame        *)
(* Faulty variant: the frame before the registers.                         *)
RepliesFrameFirst ==
  (IF swapped THEN <<[type |-> "frame", of |-> screen]>> ELSE <<>>)
    \o (IF expecting THEN <<[type |-> "retval", of |-> ret]>> ELSE <<>>)
Replies ==
  (IF expecting THEN <<[type |-> "retval", of |-> ret]>> ELSE <<>>)
    \o (IF swapped THEN <<[type |-> "frame", of |-> screen]>> ELSE <<>>)
(* net_ctx and peer are new in each round of the loop.                     *)
EndLoop ==
  /\ spc = "answer" /\ ctx # None
  /\ down' = [down EXCEPT ![peer] = @ \o Replies]
  /\ spc' = "wait" /\ ready' = FALSE /\ peer' = None /\ ctx' = None
  /\ UNCHANGED <<clientVars, up, fifo, contexts, cur, ret, screen, ran, lost>>
(* Faulty variant: no answer is sent once a program has said goodbye.      *)
AnswerStaysQuiet == EndLoop /\ expecting' = expecting /\ swapped' = FALSE
Answer == EndLoop /\ expecting' = TRUE /\ swapped' = FALSE

-----------------------------------------------------------------------------
ClientStep(c) == TakeHello(c) \/ TakeReply(c) \/ TakeFrame(c) \/ Disconnect(c) \/ Leave(c)
Deliver(c) == Accept(c) \/ Receive(c) \/ Ignore(c)
ServerStep == EndRound \/ Run \/ Answer

Next ==
  \/ \E c \in Clients :
       \/ Start(c) \/ Meet(c) \/ GiveUp(c) \/ Submit(c, "call") \/ Submit(c, "frame")
       \/ Overflow(c) \/ Farewell(c) \/ Kill(c)
       \/ ClientStep(c) \/ Deliver(c)
  \/ ServerStep

Spec == Init /\ [][Next]_vars
(* A program that waits and the server go on; a packet that has arrived    *)
(* is served before its round ends, so none is passed over for ever.       *)
ClientFair(c) == WF_vars(ClientStep(c)) /\ SF_vars(Deliver(c))
FairSpec ==
  /\ Spec
  /\ \A c \in Clients : ClientFair(c)
  /\ WF_vars(ServerStep)

-----------------------------------------------------------------------------
(* Properties                                                              *)

Typed ==
  /\ pc \in [Clients -> {"off", "connecting", "hello", "ready", "reply", "frame",
                         "bye", "drain", "gone", "dead"}]
  /\ req \in [Clients -> Requests] /\ got \in [Clients -> Values]
  /\ up \in [Clients -> Seq(Events)] /\ down \in [Clients -> Seq(Packets)]
  /\ spc \in {"wait", "run", "answer"}
  /\ ready \in BOOLEAN /\ fifo \in Values
  /\ {peer, ctx, cur} \subseteq Clients \cup {None}
  /\ contexts \subseteq Clients
  /\ ret \in Values /\ screen \in Values
  /\ expecting \in BOOLEAN /\ swapped \in BOOLEAN
  /\ ran \in [Clients -> Requests] /\ lost \subseteq Clients
(* No more than two packets are ever on their way to or from a program     *)
(* that lives.                                                             *)
Bounded(c) == pc[c] # "dead" => Len(up[c]) <= 2 /\ Len(down[c]) <= 2
TypeOK == Typed /\ \A c \in Clients : Bounded(c)

(* No client looks at what a packet is: it takes the next one for what it  *)
(* waits for, a frame for return registers and the other way round.  They  *)
(* come in the right order, and none is left over for the next call.       *)
Awaited == [hello |-> "hello", reply |-> "retval", frame |-> "frame"]
PacketsAsAwaited ==
  \A c \in Clients :
    /\ pc[c] \in DOMAIN Awaited /\ down[c] # <<>> => Packet(c).type = Awaited[pc[c]]
    /\ pc[c] = "ready" => down[c] = <<>>

(* The commands, the context and the peer are kept in three places that    *)
(* each packet overwrites: what is run is run in the context of the        *)
(* program it came from, and it is that program that is answered.          *)
RunsForItsSender ==
  /\ spc # "wait" => fifo # NoResult /\ peer = fifo.from /\ ctx = peer
  /\ spc = "answer" => cur = peer

(* Nobody stops but where the code waits: a program without a packet, the  *)
(* server without a buffer in wait_net.  In particular the server has a    *)
(* context for whoever it answers, and each event finds a place in its     *)
(* round.                                                                  *)
Waiting(c) == pc[c] \in {"hello", "reply", "frame"}
GoesOn(c) ==
  /\ Waiting(c) /\ down[c] # <<>> => ENABLED <<ClientStep(c)>>_vars
  /\ spc = "wait" /\ up[c] # <<>> => ENABLED <<Deliver(c)>>_vars
NeverStuck ==
  /\ (spc = "wait" => ready) => ENABLED <<ServerStep>>_vars
  /\ \A c \in Clients : GoesOn(c)

(* A program that waits gets its answer, unless another packet of the same *)
(* round overwrote its buffer.                                             *)
AnsweredUnlessLost ==
  \A c \in Clients : Waiting(c) ~> ~Waiting(c) \/ c \in lost

(* The comment at the end of the loop: "for networking only: we need to    *)
(* send retval back to client upon completion".                            *)
EveryCallAnswered == \A c \in Clients : Waiting(c) ~> ~Waiting(c)

-----------------------------------------------------------------------------
(* What RenderService promises, as seen here.  The program that connects   *)
(* asks for a session; the one that leaves does not wait for an answer.    *)

Phase(c) ==
  CASE pc[c] \in {"off", "connecting"} -> "closed"
    [] pc[c] \in {"gone", "dead"} -> "dead"
    [] pc[c] = "ready" -> "idle"
    [] OTHER -> IF ran[c] = req[c] THEN "done" ELSE "asked"
(* A buffer with a frame is a call like others.                            *)
Seen(v) == IF v # NoResult /\ v.kind = "frame" THEN [v EXCEPT !.kind = "call"] ELSE v
Service == INSTANCE RenderService WITH
             phase <- [c \in Clients |-> Phase(c)],
             req <- [c \in Clients |-> Seen(req[c])],
             got <- [c \in Clients |-> Seen(got[c])]
(* Each buffer is run at most once, and what a call returns, a value or a  *)
(* frame, is what the server computed for that very buffer.                *)
ServiceSpec == Service!Spec

=============================================================================
