------------------------- MODULE NetTransportProofs -------------------------
(***************************************************************************)
(* NetTransport keeps its types, runs each buffer for its sender, lets no  *)
(* program take one packet for another, returns to each call the value of  *)
(* its own buffer, implements RenderService, and, as long as what should   *)
(* go on can go on (NeverStuck), answers whoever waits unless its buffer   *)
(* was overwritten, for every set of programs.                             *)
(*                                                                         *)
(* The invariant says where a program's latest buffer may be while the     *)
(* program is at each place: on its way, in the fifo, overwritten, or      *)
(* answered; and that only one of these holds.                             *)
(***************************************************************************)
EXTENDS NetTransport, SequenceTheorems, TLAPS

Sent(c, type) == <<[type |-> type, req |-> req[c]]>>
Got(type, value) == [type |-> type, of |-> value]
(* What the answer to its latest buffer consists of                        *)
WholeAnswer(c) ==
  IF req[c].kind = "frame"
  THEN \E v \in Values : down[c] = <<Got("retval", v), Got("frame", req[c])>>
  ELSE down[c] = <<Got("retval", req[c])>>

Silent(c) == up[c] = <<>> /\ down[c] = <<>>
OnItsWay(c) == up[c] = Sent(c, "receive") /\ down[c] = <<>> /\ peer # c /\ ran[c] # req[c]
InFifo(c) ==
  Silent(c) /\ peer = c /\ fifo = req[c] /\ (spc # "answer" => ran[c] # req[c])
Overwritten(c) == Silent(c) /\ peer # c /\ ran[c] # req[c]
Answered(c) == up[c] = <<>> /\ peer # c /\ ran[c] = req[c] /\ WholeAnswer(c)

Unknown(c) ==
  Silent(c) /\ c \notin contexts /\ peer # c /\ ran[c] = req[c] /\ req[c].kind = "goodbye"
AtHello(c) ==
  /\ peer # c /\ req[c].kind = "create"
  /\ \/ /\ up[c] = Sent(c, "connect") /\ down[c] = <<>>
        /\ c \notin contexts /\ ran[c] # req[c]
     \/ /\ up[c] = <<>> /\ down[c] = <<Got("hello", req[c])>>
        /\ c \in contexts /\ ran[c] = req[c]
AtReady(c) == Silent(c) /\ c \in contexts /\ peer # c /\ ran[c] = req[c]
AtReply(c) ==
  /\ c \in contexts /\ req[c].kind \in {"call", "frame"}
  /\ OnItsWay(c) \/ InFifo(c) \/ Overwritten(c) \/ Answered(c)
AtFrame(c) ==
  /\ c \in contexts /\ req[c].kind = "frame" /\ peer # c /\ ran[c] = req[c]
  /\ up[c] = <<>> /\ down[c] = <<Got("frame", req[c])>>
Leaving(c) ==
  /\ down[c] = <<>> /\ req[c].kind = "goodbye" /\ (peer = c => fifo = req[c])
  /\ Len(up[c]) <= (IF pc[c] = "bye" THEN 1 ELSE 2)
  /\ \A k \in 1..Len(up[c]) : up[c][k].req = req[c] /\ up[c][k].type # "connect"

(* What the server finds of a program that may be dead                     *)
EventsOK(c) ==
  \A k \in 1..Len(up[c]) :
    /\ up[c][k].req.from = c
    /\ up[c][k].type = "receive" =>
         c \in contexts /\ up[c][k].req.kind \in {"call", "frame", "goodbye"}

ClientOK(c) ==
  /\ req[c].from = c /\ ran[c].from = c
  /\ EventsOK(c)
  /\ pc[c] \in {"off", "connecting"} => Unknown(c)
  /\ pc[c] = "hello" => AtHello(c)
  /\ pc[c] = "ready" => AtReady(c)
  /\ pc[c] = "reply" => AtReply(c)
  /\ pc[c] = "frame" => AtFrame(c)
  /\ pc[c] \in {"bye", "drain", "gone"} => Leaving(c)

(* The server has a buffer or none, and knows whose it is                  *)
ServerOK ==
  /\ ready => fifo # NoResult /\ peer = fifo.from /\ ctx = peer /\ peer \in contexts
              /\ fifo.kind \in {"call", "frame", "goodbye"}
  /\ ~ready => spc = "wait" /\ peer = None
  /\ spc # "answer" => expecting /\ ~swapped
  /\ spc = "answer" =>
       /\ cur = peer /\ ran[peer] = fifo
       /\ (expecting <=> fifo.kind # "goodbye") /\ (swapped <=> fifo.kind = "frame")
       /\ fifo.kind = "call" => ret = fifo
       /\ fifo.kind = "frame" => screen = fifo

IInv == Typed /\ ServerOK /\ \A c \in Clients : ClientOK(c)
-----------------------------------------------------------------------------
(* Where a program's buffer is                                             *)
USE CrashAssumption, NoResultAssumption, NoneAssumption

(* A program that nothing happens to                                       *)
LEMMA Untouched ==
  ASSUME NEW c \in Clients, ClientOK(c),
         pc[c]' = pc[c], req[c]' = req[c], up[c]' = up[c], down[c]' = down[c],
         ran[c]' = ran[c], (c \in contexts)' <=> c \in contexts,
         \/ peer # c /\ peer' # c
         \/ peer' = peer /\ fifo' = fifo /\ (spc' = "answer" <=> spc = "answer")
  PROVE  ClientOK(c)'
  BY DEF ClientOK, EventsOK, Unknown, AtHello, AtReady, AtReply, AtFrame, Leaving,
         Silent, OnItsWay, InFifo, Overwritten, Answered, WholeAnswer, Sent, Got

LEMMA ShortLengths ==
  Len(<<>>) = 0 /\ (\A e : Len(<<e>>) = 1) /\ (\A p, q : Len(<<p, q>>) = 2)
<1>1. ASSUME NEW e PROVE Len(<<e>>) = 1
  OBVIOUS
<1>2. ASSUME NEW p, NEW q PROVE Len(<<p, q>>) = 2
  OBVIOUS
<1> QED BY <1>1, <1>2

LEMMA FewPackets ==
  ASSUME NEW c \in Clients, Typed, ClientOK(c)
  PROVE  Bounded(c)
<1>1. CASE pc[c] \in {"off", "connecting", "hello", "ready", "reply", "frame"}
  <2>1. /\ up[c] = <<>> \/ \E e : up[c] = <<e>>
        /\ down[c] = <<>> \/ (\E p : down[c] = <<p>>) \/ \E p, q : down[c] = <<p, q>>
    BY <1>1 DEF ClientOK, Unknown, AtHello, AtReady, AtReply, AtFrame, OnItsWay, InFifo,
                Overwritten, Answered, WholeAnswer, Silent, Sent
  <2>2. Len(up[c]) \in {0, 1}
    BY <2>1, ShortLengths, Zenon
  <2>3. Len(down[c]) \in {0, 1, 2}
    BY <2>1, ShortLengths, Zenon
  <2>4. \A n : n \in {0, 1, 2} => n <= 2
    OBVIOUS
  <2> QED BY <2>2, <2>3, <2>4, Zenon DEF Bounded
<1>2. CASE pc[c] \in {"bye", "drain", "gone"}
  BY <1>2 DEF Bounded, ClientOK, Leaving, Typed
<1> QED BY <1>1, <1>2 DEF Typed, Bounded

(* What a program sends                                                    *)
LEMMA SendTyped ==
  ASSUME NEW c \in Clients, NEW kind \in Kinds, NEW type \in {"connect", "receive"},
         Typed, Send(c, type, kind)
  PROVE  /\ req' \in [Clients -> Requests] /\ got' \in [Clients -> Values]
         /\ up' \in [Clients -> Seq(Events)]
<1>1. NextRequest(c, kind) \in Requests
  <2>1. req[c] \in Requests
    BY DEF Typed
  <2> QED BY <2>1 DEF NextRequest, Requests
<1>2. [type |-> type, req |-> NextRequest(c, kind)] \in Events
  BY <1>1 DEF Events
<1>3. Append(up[c], [type |-> type, req |-> NextRequest(c, kind)]) \in Seq(Events)
  BY <1>2 DEF Typed
<1> QED BY <1>1, <1>3 DEF Send, Typed, Values

(* Steps of one program                                                    *)
ProgramStep(c) ==
  /\ UNCHANGED serverVars
  /\ \A a \in Clients \ {c} : pc[a]' = pc[a] /\ req[a]' = req[a] /\ up[a]' = up[a] /\ down[a]' = down[a]

LEMMA OneProgram ==
  ASSUME NEW c \in Clients, IInv, ProgramStep(c), Typed', ClientOK(c)'
  PROVE  IInv'
<1>1. ServerOK'
  BY DEF IInv, ServerOK, ProgramStep, serverVars, takeVars, runVars
<1>2. ASSUME NEW a \in Clients \ {c} PROVE ClientOK(a)'
  BY Untouched DEF IInv, ProgramStep, serverVars, takeVars, runVars
<1> QED BY <1>1, <1>2 DEF IInv

LEMMA SubmitStep ==
  ASSUME NEW c \in Clients, NEW kind \in {"call", "frame"}, IInv, Submit(c, kind)
  PROVE  IInv'
<1>1. AtReady(c) /\ EventsOK(c) /\ req[c].from = c /\ ran[c].from = c
  BY DEF IInv, ClientOK, Submit, Goto
<1>2. pc[c]' = "reply" /\ req[c]' = NextRequest(c, kind)
      /\ up[c]' = <<[type |-> "receive", req |-> NextRequest(c, kind)]>>
  BY <1>1 DEF Submit, Goto, Send, AtReady, Silent, IInv, Typed
<1>3. NextRequest(c, kind) # ran[c]
  <2>1. req[c] \in Requests
    BY DEF IInv, Typed
  <2> QED BY <1>1, <2>1 DEF NextRequest, AtReady, Requests
<1>4. OnItsWay(c)' /\ EventsOK(c)'
  BY <1>1, <1>2, <1>3 DEF OnItsWay, EventsOK, Sent, AtReady, Silent, Submit, serverVars, takeVars, runVars, NextRequest
<1>5. ClientOK(c)'
  BY <1>1, <1>2, <1>4 DEF ClientOK, AtReply, AtReady, NextRequest, Submit, serverVars, runVars
<1>6. Typed'
  BY SendTyped DEF Submit, Goto, IInv, Typed, Kinds, serverVars, takeVars, runVars
<1>7. ProgramStep(c)
  BY DEF Submit, Goto, Send, ProgramStep, IInv, Typed
<1> QED BY <1>5, <1>6, <1>7, OneProgram

LEMMA FarewellStep ==
  ASSUME NEW c \in Clients, IInv, Farewell(c)
  PROVE  IInv'
<1>1. AtReady(c) /\ EventsOK(c) /\ req[c].from = c /\ ran[c].from = c
  BY DEF IInv, ClientOK, Farewell, Goto
<1>2. pc[c]' = "bye" /\ req[c]' = NextRequest(c, "goodbye")
      /\ up[c]' = <<[type |-> "receive", req |-> NextRequest(c, "goodbye")]>>
  BY <1>1 DEF Farewell, Goto, Send, AtReady, Silent, IInv, Typed
<1>3. EventsOK(c)' /\ Leaving(c)'
  BY <1>1, <1>2 DEF Leaving, EventsOK, AtReady, Silent, Farewell, serverVars, takeVars, runVars, NextRequest
<1>4. ClientOK(c)'
  BY <1>1, <1>2, <1>3 DEF ClientOK, NextRequest, Farewell, serverVars, runVars
<1>5. Typed'
  BY SendTyped DEF Farewell, Goto, IInv, Typed, Kinds, serverVars, takeVars, runVars
<1>6. ProgramStep(c)
  BY DEF Farewell, Goto, Send, ProgramStep, IInv, Typed
<1> QED BY <1>4, <1>5, <1>6, OneProgram

LEMMA MeetStep ==
  ASSUME NEW c \in Clients, IInv, Meet(c)
  PROVE  IInv'
<1>1. Unknown(c) /\ req[c].from = c /\ ran[c].from = c
  BY DEF IInv, ClientOK, Meet, Goto
<1>2. pc[c]' = "hello" /\ req[c]' = NextRequest(c, "create")
      /\ up[c]' = <<[type |-> "connect", req |-> NextRequest(c, "create")]>>
  BY <1>1 DEF Meet, Goto, Send, Unknown, Silent, IInv, Typed
<1>3. NextRequest(c, "create") # ran[c]
  <2>1. req[c] \in Requests
    BY DEF IInv, Typed
  <2> QED BY <1>1, <2>1 DEF NextRequest, Unknown, Requests
<1>4. EventsOK(c)' /\ AtHello(c)'
  BY <1>1, <1>2, <1>3 DEF AtHello, EventsOK, Sent, Unknown, Silent, Meet, serverVars, takeVars, runVars, NextRequest
<1>5. ClientOK(c)'
  BY <1>1, <1>2, <1>4 DEF ClientOK, NextRequest, Meet, serverVars, runVars
<1>6. Typed'
  BY SendTyped DEF Meet, Goto, IInv, Typed, Kinds, serverVars, takeVars, runVars
<1>7. ProgramStep(c)
  BY DEF Meet, Goto, Send, ProgramStep, IInv, Typed
<1> QED BY <1>5, <1>6, <1>7, OneProgram

(* Only its place changes                                                  *)
LEMMA PlaceStep ==
  ASSUME NEW c \in Clients, IInv,
         Start(c) \/ GiveUp(c) \/ Overflow(c) \/ Leave(c) \/ Kill(c)
  PROVE  IInv'
<1>1. UNCHANGED <<req, got, netVars, serverVars>>
  BY DEF Start, GiveUp, Overflow, Leave, Kill
<1>2. PICK to \in {"connecting", "gone", "dead"} : pc' = [pc EXCEPT ![c] = to]
  BY DEF Start, GiveUp, Overflow, Leave, Kill, Goto
<1>3. Typed'
  BY <1>1, <1>2 DEF IInv, Typed, netVars, serverVars, takeVars, runVars
<1>4. ProgramStep(c)
  BY <1>1, <1>2 DEF ProgramStep, IInv, Typed, netVars
<1>5. ClientOK(c)'
  <2>1. ClientOK(c) /\ pc[c]' = to
    BY <1>2 DEF IInv, Typed
  <2>2. CASE Start(c)
    BY <1>1, <2>1, <2>2 DEF Start, Goto, ClientOK, EventsOK, Unknown, Silent, netVars, serverVars, takeVars, runVars, IInv, Typed
  <2>3. CASE GiveUp(c)
    BY <1>1, <2>1, <2>3 DEF GiveUp, Goto, ClientOK, EventsOK, Unknown, Leaving, Silent, netVars, serverVars, takeVars, runVars, IInv, Typed
  <2>4. CASE Leave(c)
    BY <1>1, <2>1, <2>4 DEF Leave, Goto, ClientOK, EventsOK, Leaving, netVars, serverVars, takeVars, runVars, IInv, Typed
  <2>5. CASE Overflow(c) \/ Kill(c)
    BY <1>1, <2>1, <2>5 DEF Overflow, Kill, Goto, ClientOK, EventsOK, netVars, serverVars, takeVars, runVars, IInv, Typed
  <2> QED BY <2>2, <2>3, <2>4, <2>5
<1> QED BY <1>3, <1>4, <1>5, OneProgram
(* What a program takes                                                    *)
LEMMA TakeTyped ==
  ASSUME NEW c \in Clients, Typed, Take(c)
  PROVE  down' \in [Clients -> Seq(Packets)] /\ Packet(c).of \in Values
<1>1. down[c] \in Seq(Packets) /\ down[c] # <<>>
  BY DEF Typed, Take
<1>2. Packet(c) \in Packets /\ Tail(down[c]) \in Seq(Packets)
  BY <1>1 DEF Packet
<1> QED BY <1>2 DEF Take, Typed, Packets

LEMMA Shortened ==
  /\ \A p : Head(<<p>>) = p /\ Tail(<<p>>) = <<>> /\ <<p>>[1] = p
  /\ \A p, q : Head(<<p, q>>) = p /\ Tail(<<p, q>>) = <<q>>
<1>1. ASSUME NEW p PROVE Head(<<p>>) = p /\ Tail(<<p>>) = <<>> /\ <<p>>[1] = p
  OBVIOUS
<1>2. ASSUME NEW p, NEW q PROVE Head(<<p, q>>) = p /\ Tail(<<p, q>>) = <<q>>
  OBVIOUS
<1> QED BY <1>1, <1>2

LEMMA TakeHelloStep ==
  ASSUME NEW c \in Clients, IInv, TakeHello(c)
  PROVE  IInv'
<1>1. AtHello(c) /\ EventsOK(c) /\ req[c].from = c /\ ran[c].from = c
  BY DEF IInv, ClientOK, TakeHello, Goto
<1>2. /\ up[c] = <<>> /\ down[c] = <<Got("hello", req[c])>>
      /\ c \in contexts /\ ran[c] = req[c]
  BY <1>1 DEF AtHello, TakeHello, Take
<1>3. down[c]' = <<>> /\ pc[c]' = "ready"
  BY <1>2, Shortened DEF TakeHello, Take, Goto, IInv, Typed
<1>4. ClientOK(c)'
  BY <1>1, <1>2, <1>3 DEF ClientOK, EventsOK, AtHello, AtReady, Silent, TakeHello, serverVars, takeVars, runVars
<1>5. Typed'
  BY TakeTyped DEF TakeHello, Goto, IInv, Typed, serverVars, takeVars, runVars
<1>6. ProgramStep(c)
  BY DEF TakeHello, Goto, Take, ProgramStep, IInv, Typed
<1> QED BY <1>4, <1>5, <1>6, OneProgram

LEMMA TakeReplyStep ==
  ASSUME NEW c \in Clients, IInv, TakeReply(c)
  PROVE  IInv'
<1>1. AtReply(c) /\ EventsOK(c) /\ req[c].from = c /\ ran[c].from = c
  BY DEF IInv, ClientOK, TakeReply
<1>2. Answered(c)
  BY <1>1 DEF AtReply, OnItsWay, InFifo, Overwritten, Silent, TakeReply, Take
<1>3. UNCHANGED <<req, up, serverVars>> /\ pc[c]' = (IF req[c].kind = "frame" THEN "frame" ELSE "ready")
  BY DEF TakeReply, IInv, Typed
<1>4. down[c]' = IF req[c].kind = "frame" THEN <<Got("frame", req[c])>> ELSE <<>>
  <2>1. down[c]' = Tail(down[c])
    BY DEF TakeReply, Take, IInv, Typed
  <2>2. CASE req[c].kind = "frame"
    <3>1. PICK v \in Values : down[c] = <<Got("retval", v), Got("frame", req[c])>>
      BY <1>2, <2>2 DEF Answered, WholeAnswer
    <3> QED BY <2>1, <2>2, <3>1, Shortened
  <2>3. CASE req[c].kind # "frame"
    BY <1>2, <2>1, <2>3, Shortened DEF Answered, WholeAnswer
  <2> QED BY <2>2, <2>3
<1>5. ClientOK(c)'
  BY <1>1, <1>2, <1>3, <1>4 DEF ClientOK, EventsOK, AtReply, AtReady, AtFrame, Answered, Silent, Got, serverVars, takeVars, runVars
<1>6. Typed'
  BY TakeTyped DEF TakeReply, IInv, Typed, serverVars, takeVars, runVars
<1>7. ProgramStep(c)
  BY DEF TakeReply, Take, ProgramStep, IInv, Typed
<1> QED BY <1>5, <1>6, <1>7, OneProgram

LEMMA TakeFrameStep ==
  ASSUME NEW c \in Clients, IInv, TakeFrame(c)
  PROVE  IInv'
<1>1. AtFrame(c) /\ EventsOK(c) /\ req[c].from = c /\ ran[c].from = c
  BY DEF IInv, ClientOK, TakeFrame, Goto
<1>2. down[c]' = <<>> /\ pc[c]' = "ready"
  BY <1>1, Shortened DEF AtFrame, TakeFrame, Take, Goto, IInv, Typed
<1>3. ClientOK(c)'
  BY <1>1, <1>2 DEF ClientOK, EventsOK, AtFrame, AtReady, Silent, TakeFrame, serverVars, takeVars, runVars
<1>4. Typed'
  BY TakeTyped DEF TakeFrame, Goto, IInv, Typed, serverVars, takeVars, runVars
<1>5. ProgramStep(c)
  BY DEF TakeFrame, Goto, Take, ProgramStep, IInv, Typed
<1> QED BY <1>3, <1>4, <1>5, OneProgram

LEMMA DisconnectStep ==
  ASSUME NEW c \in Clients, IInv, Disconnect(c)
  PROVE  IInv'
<1>1. Leaving(c) /\ EventsOK(c) /\ req[c].from = c /\ ran[c].from = c
      /\ pc[c] = "bye" /\ Len(up[c]) <= 1
  BY DEF IInv, ClientOK, Leaving, Disconnect, Goto
<1> DEFINE end == [type |-> "disconnect", req |-> req[c]]
<1>2. PICK sent \in {up[c], <<>>} : up' = [up EXCEPT ![c] = Append(sent, end)]
  BY DEF Disconnect
<1>3. sent \in Seq(Events) /\ end \in Events /\ Len(sent) <= 1
  <2>1. up[c] \in Seq(Events) /\ req[c] \in Requests
    BY DEF IInv, Typed
  <2>2. end \in Events
    BY <2>1 DEF Events
  <2>3. <<>> \in Seq(Events) /\ Len(<<>>) <= 1
    OBVIOUS
  <2> HIDE DEF end
  <2> QED BY <1>1, <2>1, <2>2, <2>3
<1>4. up[c]' = Append(sent, end) /\ pc[c]' = "drain"
  BY <1>2 DEF Disconnect, Goto, IInv, Typed
<1>5. Len(up[c]') <= 2 /\ \A k \in 1..Len(up[c]') : up[c]'[k] = end \/ (k \in 1..Len(up[c]) /\ up[c]'[k] = up[c][k])
  BY <1>3, <1>4 DEF IInv, Typed
<1>6. Leaving(c)'
  BY <1>1, <1>4, <1>5 DEF Leaving, Disconnect, serverVars, takeVars, runVars
<1>7. EventsOK(c)'
  BY <1>1, <1>5 DEF EventsOK, Disconnect, serverVars, takeVars, runVars
<1>8. ClientOK(c)'
  BY <1>1, <1>4, <1>6, <1>7 DEF ClientOK, Disconnect, serverVars, takeVars, runVars
<1>9. Typed'
  <2>1. Append(sent, end) \in Seq(Events)
    BY <1>3
  <2> QED BY <1>2, <2>1 DEF Disconnect, Goto, IInv, Typed, serverVars, takeVars, runVars
<1>10. ProgramStep(c)
  BY <1>2 DEF Disconnect, Goto, ProgramStep, IInv, Typed
<1> QED BY <1>8, <1>9, <1>10, OneProgram
-----------------------------------------------------------------------------
(* Events at the server                                                    *)

LEMMA ArrivesTyped ==
  ASSUME NEW c \in Clients, NEW type, IInv, Arrives(c, type)
  PROVE  /\ up' \in [Clients -> Seq(Events)] /\ up[c]' = Tail(up[c])
         /\ Event(c) \in Events /\ Event(c).req \in Requests
         /\ 1 \in 1..Len(up[c]) /\ Event(c) = up[c][1] /\ Event(c).req.from = c
         /\ Len(up[c]') = Len(up[c]) - 1
         /\ \A k \in 1..Len(up[c]') : k + 1 \in 1..Len(up[c]) /\ up[c]'[k] = up[c][k + 1]
<1>1. up[c] \in Seq(Events) /\ up[c] # <<>>
  BY DEF Arrives, IInv, Typed
<1>2. Event(c) \in Events /\ Tail(up[c]) \in Seq(Events) /\ Event(c) = up[c][1] /\ 1 \in 1..Len(up[c])
  BY <1>1 DEF Event
<1>3. up[c]' = Tail(up[c]) /\ up' \in [Clients -> Seq(Events)]
  BY <1>2 DEF Arrives, IInv, Typed
<1>4. Event(c).req.from = c
  BY <1>2 DEF IInv, ClientOK, EventsOK
<1>5. Event(c).req \in Requests
  BY <1>2 DEF Events
<1> QED BY <1>1, <1>2, <1>3, <1>4, <1>5

LEMMA LessToCome ==
  ASSUME NEW c \in Clients, NEW type, IInv, Arrives(c, type), contexts \subseteq contexts'
  PROVE  EventsOK(c)'
<1>1. EventsOK(c)
  BY DEF IInv, ClientOK
<1>2. \A k \in 1..Len(up[c]') : k + 1 \in 1..Len(up[c]) /\ up[c]'[k] = up[c][k + 1]
  BY ArrivesTyped
<1>3. ASSUME NEW k \in 1..Len(up[c]')
      PROVE  /\ up[c]'[k].req.from = c
             /\ up[c]'[k].type = "receive" =>
                  c \in contexts' /\ up[c]'[k].req.kind \in {"call", "frame", "goodbye"}
  BY <1>1, <1>2 DEF EventsOK
<1> QED BY <1>3 DEF EventsOK

LEMMA AcceptStep ==
  ASSUME NEW c \in Clients, IInv, Accept(c)
  PROVE  IInv'
<1>1. Arrives(c, "connect") /\ Event(c).type = "connect" /\ contexts' = contexts \cup {c}
  BY DEF Accept, Arrives
<1>2. ClientOK(c) /\ EventsOK(c)'
  BY <1>1, LessToCome DEF IInv, ClientOK
<1>3. pc[c] \in {"hello", "dead"}
  <2>1. up[c] # <<>> /\ 1 \in 1..Len(up[c]) /\ up[c][1].type = "connect"
    BY <1>1, ArrivesTyped DEF Arrives
  <2>2. CASE pc[c] \in {"off", "connecting", "ready", "frame"}
    BY <1>2, <2>1, <2>2 DEF ClientOK, Unknown, AtReady, AtFrame, Silent
  <2>3. CASE pc[c] = "reply"
    <3>1. up[c] = Sent(c, "receive")
      BY <1>2, <2>1, <2>3 DEF ClientOK, AtReply, OnItsWay, InFifo, Overwritten, Answered, Silent
    <3> QED BY <2>1, <3>1, Shortened DEF Sent
  <2>4. CASE pc[c] \in {"bye", "drain", "gone"}
    BY <1>2, <2>1, <2>4 DEF ClientOK, Leaving
  <2> QED BY <2>2, <2>3, <2>4 DEF IInv, Typed
<1>4. ClientOK(c)'
  <2>1. req[c].from = c /\ ran[c]'.from = c
    BY <1>1, <1>2, ArrivesTyped DEF Accept, ClientOK, clientVars, IInv, Typed
  <2>2. CASE pc[c] = "hello"
    <3>1. up[c] = Sent(c, "connect") /\ down[c] = <<>> /\ peer # c /\ req[c].kind = "create"
      BY <1>1, <1>2, <2>2 DEF ClientOK, AtHello, Arrives
    <3>2. Event(c).req = req[c] /\ up[c]' = <<>>
      BY <1>1, <3>1, Shortened, ArrivesTyped DEF Sent, Event
    <3>3. down[c]' = <<Got("hello", req[c])>> /\ ran[c]' = req[c]
      BY <3>1, <3>2 DEF Accept, Got, IInv, Typed
    <3> QED BY <1>1, <1>2, <2>1, <2>2, <3>1, <3>2, <3>3 DEF Accept, ClientOK, AtHello, Got, clientVars, takeVars
  <2>3. CASE pc[c] = "dead"
    BY <1>2, <2>1, <2>3 DEF Accept, ClientOK, clientVars
  <2> QED BY <1>3, <2>2, <2>3
<1>5. ASSUME NEW a \in Clients \ {c} PROVE ClientOK(a)'
  BY <1>1, Untouched DEF Accept, Arrives, IInv, Typed, clientVars, takeVars
<1>6. Typed'
  <2>1. Event(c) \in Events /\ up' \in [Clients -> Seq(Events)]
    BY <1>1, ArrivesTyped
  <2>2. [type |-> "hello", of |-> Event(c).req] \in Packets /\ Event(c).req \in Requests
    BY <2>1 DEF Events, Packets, Values
  <2>3. down' \in [Clients -> Seq(Packets)]
    BY <2>2 DEF Accept, IInv, Typed
  <2> QED BY <2>1, <2>2, <2>3 DEF Accept, IInv, Typed, clientVars, takeVars
<1>7. ServerOK'
  BY <1>1 DEF Accept, Arrives, IInv, ServerOK, Typed, takeVars
<1> QED BY <1>4, <1>5, <1>6, <1>7 DEF IInv

LEMMA ReceiveStep ==
  ASSUME NEW c \in Clients, IInv, Receive(c)
  PROVE  IInv'
<1>1. Arrives(c, "receive") /\ Event(c).type = "receive" /\ spc = "wait" /\ contexts' = contexts
  BY DEF Receive, Arrives
<1>2. ClientOK(c) /\ EventsOK(c)' /\ EventsOK(c)
  BY <1>1, LessToCome DEF IInv, ClientOK
<1>3. c \in contexts /\ Event(c).req.kind \in {"call", "frame", "goodbye"} /\ Event(c).req.from = c
  BY <1>1, <1>2, ArrivesTyped DEF EventsOK
<1>4. peer' = c /\ fifo' = Event(c).req /\ ctx' = c /\ ready' = TRUE /\ spc' = "wait"
  BY <1>1, <1>3 DEF Receive
<1>5. UNCHANGED <<clientVars, down, contexts, runVars>>
  BY DEF Receive
<1>6. pc[c] \in {"reply", "bye", "drain", "gone", "dead"}
  BY <1>1, <1>2, ArrivesTyped, Shortened DEF ClientOK, Unknown, AtHello, AtReady, AtFrame, Silent, Sent, Arrives,
     IInv, Typed, Event
<1>7. ClientOK(c)'
  <2>1. req[c]'.from = c /\ ran[c]'.from = c
    BY <1>2, <1>5 DEF ClientOK, clientVars, runVars
  <2>2. CASE pc[c] = "reply"
    <3>1. OnItsWay(c) /\ c \in contexts /\ req[c].kind \in {"call", "frame"}
      BY <1>1, <1>2, <2>2 DEF ClientOK, AtReply, InFifo, Overwritten, Answered, Silent, Arrives
    <3>2. Event(c).req = req[c] /\ up[c]' = <<>>
      BY <1>1, <3>1, Shortened, ArrivesTyped DEF OnItsWay, Sent, Event
    <3> QED BY <1>2, <1>4, <1>5, <2>1, <2>2, <3>1, <3>2 DEF ClientOK, AtReply, InFifo, OnItsWay, Silent, clientVars, runVars
  <2>3. CASE pc[c] \in {"bye", "drain", "gone"}
    <3>1. Leaving(c) /\ up[c] # <<>> /\ Len(up[c]) \in Nat
      BY <1>1, <1>2, <2>3 DEF ClientOK, Arrives, IInv, Typed
    <3>2. Event(c).req = req[c] /\ 1 \in 1..Len(up[c])
      BY <1>1, <3>1, ArrivesTyped DEF Leaving
    <3>3. Leaving(c)'
      BY <1>1, <1>4, <1>5, <3>1, <3>2, ArrivesTyped DEF Leaving, clientVars
    <3> QED BY <1>2, <1>5, <2>1, <2>3, <3>3 DEF ClientOK, clientVars
  <2>4. CASE pc[c] = "dead"
    BY <1>2, <1>5, <2>1, <2>4 DEF ClientOK, clientVars
  <2> QED BY <1>6, <2>2, <2>3, <2>4
<1>8. ASSUME NEW a \in Clients \ {c} PROVE ClientOK(a)'
  <2>1. ClientOK(a) /\ up[a]' = up[a]
    BY <1>1 DEF IInv, Arrives, Typed
  <2>2. CASE peer # a
    BY <1>4, <1>5, <2>1, <2>2, Untouched DEF clientVars, runVars
  <2>3. CASE peer = a
    <3>1. pc[a] \in {"reply", "bye", "drain", "gone", "dead"}
      BY <2>1, <2>3 DEF ClientOK, Unknown, AtHello, AtReady, AtFrame, IInv, Typed
    <3>2. CASE pc[a] = "reply"
      <4>1. InFifo(a) /\ AtReply(a)
        BY <2>1, <2>3, <3>2 DEF ClientOK, AtReply, OnItsWay, Overwritten, Answered
      <4>2. Overwritten(a)'
        BY <1>1, <1>4, <1>5, <2>1, <4>1 DEF InFifo, Overwritten, Silent, clientVars, runVars
      <4> QED BY <1>5, <2>1, <3>2, <4>1, <4>2 DEF ClientOK, AtReply, EventsOK, clientVars, runVars
    <3>3. CASE pc[a] # "reply"
      BY <1>4, <1>5, <2>1, <3>1, <3>3 DEF ClientOK, EventsOK, Leaving, clientVars, runVars
    <3> QED BY <3>2, <3>3
  <2> QED BY <2>2, <2>3
<1>9. Typed'
  <2>1. Event(c).req \in Requests /\ up' \in [Clients -> Seq(Events)]
    BY <1>1, ArrivesTyped DEF Events
  <2>2. lost' \subseteq Clients
    BY DEF Receive, IInv, ServerOK, Typed
  <2> QED BY <1>4, <1>5, <2>1, <2>2 DEF IInv, Typed, Values, clientVars, runVars
<1>10. ServerOK'
  BY <1>1, <1>3, <1>4, <1>5, ArrivesTyped DEF IInv, ServerOK, runVars
<1> QED BY <1>7, <1>8, <1>9, <1>10 DEF IInv
LEMMA IgnoreStep ==
  ASSUME NEW c \in Clients, IInv, Ignore(c)
  PROVE  IInv'
<1>1. Arrives(c, "disconnect") /\ Event(c).type = "disconnect"
  BY DEF Ignore, Arrives
<1>2. UNCHANGED <<clientVars, down, serverVars>>
  BY DEF Ignore
<1>3. ClientOK(c) /\ EventsOK(c)'
  BY <1>1, <1>2, LessToCome DEF IInv, ClientOK, serverVars
<1>4. pc[c] \in {"bye", "drain", "gone", "dead"}
  <2>1. up[c] # <<>> /\ 1 \in 1..Len(up[c]) /\ up[c][1].type = "disconnect"
    BY <1>1, ArrivesTyped DEF Arrives
  <2>2. CASE pc[c] \in {"off", "connecting", "ready", "frame"}
    BY <1>3, <2>1, <2>2 DEF ClientOK, Unknown, AtReady, AtFrame, Silent
  <2>3. CASE pc[c] \in {"hello", "reply"}
    <3>1. up[c] = Sent(c, "receive") \/ up[c] = Sent(c, "connect")
      BY <1>3, <2>1, <2>3 DEF ClientOK, AtHello, AtReply, OnItsWay, InFifo, Overwritten, Answered, Silent
    <3> QED BY <2>1, <3>1, Shortened DEF Sent
  <2> QED BY <2>2, <2>3 DEF IInv, Typed
<1>5. ClientOK(c)'
  <2>1. CASE pc[c] = "dead"
    BY <1>2, <1>3, <2>1 DEF ClientOK, clientVars, serverVars, runVars
  <2>2. CASE pc[c] \in {"bye", "drain", "gone"}
    <3>1. Leaving(c) /\ Len(up[c]) \in Nat
      BY <1>3, <2>2 DEF ClientOK, IInv, Typed
    <3>2. Leaving(c)'
      BY <1>1, <1>2, <3>1, ArrivesTyped DEF Leaving, clientVars, serverVars, takeVars
    <3> QED BY <1>2, <1>3, <2>2, <3>2 DEF ClientOK, clientVars, serverVars, runVars
  <2> QED BY <1>4, <2>1, <2>2
<1>6. Typed'
  BY <1>1, <1>2, ArrivesTyped DEF IInv, Typed, clientVars, serverVars, takeVars, runVars
<1>7. ProgramStep(c)
  BY <1>1, <1>2 DEF ProgramStep, Arrives, clientVars, IInv, Typed
<1> QED BY <1>5, <1>6, <1>7, OneProgram

-----------------------------------------------------------------------------
(* The rest of the loop                                                    *)

LEMMA EndRoundStep ==
  ASSUME IInv, EndRound
  PROVE  IInv'
<1>1. UNCHANGED <<clientVars, netVars, takeVars, contexts, runVars, lost>> /\ spc = "wait" /\ spc' = "run" /\ ready
  BY DEF EndRound
<1>2. ASSUME NEW c \in Clients PROVE ClientOK(c)'
  BY <1>1, Untouched DEF IInv, clientVars, netVars, takeVars, runVars
<1>3. Typed' /\ ServerOK'
  BY <1>1 DEF IInv, Typed, ServerOK, clientVars, netVars, takeVars, runVars
<1> QED BY <1>2, <1>3 DEF IInv

LEMMA RunStep ==
  ASSUME IInv, Run
  PROVE  IInv'
<1>1. /\ UNCHANGED <<clientVars, netVars, takeVars, contexts, lost>>
      /\ spc = "run" /\ spc' = "answer" /\ ran' = [ran EXCEPT ![fifo.from] = fifo]
  BY DEF Run
<1>2. PICK c \in Clients : c = peer
  BY <1>1 DEF IInv, Typed, ServerOK, Values
<1>3. /\ fifo \in Requests /\ ready /\ peer = c /\ fifo.from = c /\ ctx = c
      /\ expecting /\ ~swapped
  BY <1>1, <1>2 DEF IInv, Typed, ServerOK, Values
<1>4. ran'[c] = fifo /\ \A a \in Clients \ {c} : ran'[a] = ran[a]
  BY <1>1, <1>3 DEF IInv, Typed
<1>5. ClientOK(c)'
  <2>1. ClientOK(c)
    BY DEF IInv
  <2>2. CASE pc[c] = "reply"
    <3>1. InFifo(c) /\ AtReply(c)
      BY <1>3, <2>1, <2>2 DEF ClientOK, AtReply, OnItsWay, Overwritten, Answered
    <3> QED BY <1>1, <1>3, <1>4, <2>1, <2>2, <3>1
            DEF ClientOK, EventsOK, AtReply, InFifo, Silent, clientVars, netVars, takeVars
  <2>3. CASE pc[c] # "reply"
    BY <1>1, <1>3, <1>4, <2>1, <2>3
       DEF ClientOK, EventsOK, Unknown, AtHello, AtReady, AtFrame, Leaving, clientVars, netVars, takeVars
  <2> QED BY <2>2, <2>3
<1>6. ASSUME NEW a \in Clients \ {c} PROVE ClientOK(a)'
  BY <1>1, <1>3, <1>4, Untouched DEF IInv, clientVars, netVars, takeVars
<1>7. Typed'
  BY <1>1, <1>3 DEF Run, IInv, Typed, Values, clientVars, netVars, takeVars
<1>8. ServerOK'
  <2>1. /\ cur' = c /\ (expecting' <=> fifo.kind # "goodbye") /\ (swapped' <=> fifo.kind = "frame")
        /\ fifo.kind = "call" => ret' = fifo
        /\ fifo.kind = "frame" => screen' = fifo
    BY <1>3, NoneAssumption DEF Run
  <2>2. fifo' = fifo /\ peer' = peer /\ ctx' = ctx /\ ready' = ready /\ contexts' = contexts
    BY <1>1 DEF takeVars
  <2>3. ready => fifo # NoResult /\ peer = fifo.from /\ ctx = peer /\ peer \in contexts
                 /\ fifo.kind \in {"call", "frame", "goodbye"}
    BY DEF IInv, ServerOK
  <2>4. ran'[peer'] = fifo'
    BY <1>3, <1>4, <2>2
  <2> QED BY <1>1, <1>3, <2>1, <2>2, <2>3, <2>4 DEF ServerOK
<1> QED BY <1>5, <1>6, <1>7, <1>8 DEF IInv

LEMMA Joined ==
  /\ <<>> \o <<>> = <<>>
  /\ \A p : <<p>> \o <<>> = <<p>>
  /\ \A p, q : <<p>> \o <<q>> = <<p, q>>
<1>1. ASSUME NEW p PROVE <<p>> \o <<>> = <<p>>
  <2>1. <<p>> \in Seq({p})
    OBVIOUS
  <2> QED BY <2>1, ConcatEmptySeq
<1>2. ASSUME NEW p, NEW q PROVE <<p>> \o <<q>> = <<p, q>>
  <2> DEFINE one == <<p>>  other == <<q>>  both == <<p, q>>  S == {p, q}
  <2>1. /\ one \in Seq(S) /\ other \in Seq(S) /\ both \in Seq(S)
        /\ Len(one) = 1 /\ Len(other) = 1 /\ Len(both) = 2
        /\ one[1] = p /\ other[1] = q /\ both[1] = p /\ both[2] = q
    OBVIOUS
  <2> HIDE DEF one, other, both, S
  <2>2. /\ one \o other \in Seq(S) /\ Len(one \o other) = 2
        /\ (one \o other)[1] = p /\ (one \o other)[2] = q
    <3>1. /\ one \o other \in Seq(S) /\ Len(one \o other) = Len(one) + Len(other)
          /\ \A i \in 1..Len(one) + Len(other) :
               (one \o other)[i] = IF i <= Len(one) THEN one[i] ELSE other[i - Len(one)]
      BY <2>1, ConcatProperties, Zenon
    <3>2. 1 \in 1..2 /\ 2 \in 1..2 /\ 1 + 1 = 2 /\ 2 - 1 = 1 /\ 1 <= 1 /\ ~(2 <= 1)
      OBVIOUS
    <3> QED BY <2>1, <3>1, <3>2, Zenon
  <2>3. \A i \in 1..Len(one \o other) : (one \o other)[i] = both[i]
    <3>1. \A i \in 1..2 : i = 1 \/ i = 2
      OBVIOUS
    <3> QED BY <2>1, <2>2, <3>1
  <2>4. one \o other = both
    BY <2>1, <2>2, <2>3, SeqEqual, Zenon
  <2> QED BY <2>4 DEF one, other, both
<1>3. <<>> \o <<>> = <<>>
  <2>1. <<>> \in Seq({})
    OBVIOUS
  <2> QED BY <2>1, ConcatEmptySeq
<1> QED BY <1>1, <1>2, <1>3

LEMMA AnswerStep ==
  ASSUME IInv, Answer
  PROVE  IInv'
<1>1. /\ UNCHANGED <<clientVars, up, fifo, contexts, cur, ret, screen, ran, lost>>
      /\ spc = "answer" /\ spc' = "wait" /\ ~ready' /\ peer' = None /\ ctx' = None
      /\ expecting' = TRUE /\ swapped' = FALSE
      /\ down' = [down EXCEPT ![peer] = @ \o Replies]
  BY DEF Answer, EndLoop
<1>2. PICK c \in Clients : c = peer
  BY <1>1 DEF IInv, Typed, ServerOK, Values
<1>3. /\ fifo \in Requests /\ ready /\ peer = c /\ fifo.from = c
      /\ ran[c] = fifo /\ fifo.kind \in {"call", "frame", "goodbye"}
      /\ ret \in Values /\ screen \in Values
  BY <1>1, <1>2 DEF IInv, Typed, ServerOK, Values
<1>4. /\ fifo.kind = "call" => Replies = <<Got("retval", fifo)>>
      /\ fifo.kind = "frame" => Replies = <<Got("retval", ret), Got("frame", fifo)>>
      /\ fifo.kind = "goodbye" => Replies = <<>>
  <2>1. /\ (expecting <=> fifo.kind # "goodbye") /\ (swapped <=> fifo.kind = "frame")
        /\ fifo.kind = "call" => ret = fifo
        /\ fifo.kind = "frame" => screen = fifo
    BY <1>1 DEF IInv, ServerOK
  <2>2. CASE fifo.kind = "call"
    <3>1. expecting /\ ~swapped
      BY <2>1, <2>2
    <3> QED BY <2>1, <2>2, <3>1, Joined DEF Replies, Got
  <2>3. CASE fifo.kind = "frame"
    <3>1. expecting /\ swapped
      BY <2>1, <2>3
    <3> QED BY <2>1, <2>3, <3>1, Joined DEF Replies, Got
  <2>4. CASE fifo.kind = "goodbye"
    <3>1. ~expecting /\ ~swapped
      BY <2>1, <2>4
    <3> QED BY <2>1, <2>4, <3>1, Joined DEF Replies, Got
  <2> QED BY <1>3, <2>2, <2>3, <2>4
<1>5. Replies \in Seq(Packets)
  <2>1. Got("retval", ret) \in Packets /\ Got("retval", fifo) \in Packets /\ Got("frame", fifo) \in Packets
    BY <1>3 DEF Got, Packets, Values
  <2>2. <<Got("retval", fifo)>> \in Seq(Packets) /\ <<>> \in Seq(Packets)
        /\ <<Got("retval", ret), Got("frame", fifo)>> \in Seq(Packets)
    BY <2>1
  <2> QED BY <1>3, <1>4, <2>2
<1>6. down'[c] = down[c] \o Replies /\ \A a \in Clients \ {c} : down'[a] = down[a]
  BY <1>1, <1>3 DEF IInv, Typed
<1>7. down[c] = <<>> => down'[c] = Replies
  <2>1. \A s \in Seq(Packets) : <<>> \o s = s
    OBVIOUS
  <2> QED BY <1>5, <1>6, <2>1
<1>8. ClientOK(c)'
  <2>1. ClientOK(c) /\ peer' # c
    BY <1>1, NoneAssumption DEF IInv
  <2>2. CASE pc[c] = "reply"
    <3>1. InFifo(c) /\ AtReply(c)
      BY <1>3, <2>1, <2>2 DEF ClientOK, AtReply, OnItsWay, Overwritten, Answered
    <3>2. down'[c] = Replies /\ fifo = req[c] /\ fifo.kind \in {"call", "frame"}
      BY <1>7, <3>1 DEF InFifo, Silent, AtReply
    <3>3. WholeAnswer(c)'
      BY <1>1, <1>3, <1>4, <3>2 DEF WholeAnswer, Got, clientVars
    <3>4. Answered(c)'
      BY <1>1, <1>3, <2>1, <3>1, <3>2, <3>3 DEF Answered, InFifo, Silent, clientVars
    <3> QED BY <1>1, <1>3, <2>1, <2>2, <3>1, <3>4
            DEF ClientOK, EventsOK, AtReply, clientVars
  <2>3. CASE pc[c] \in {"bye", "drain", "gone"}
    <3>1. Leaving(c) /\ fifo.kind = "goodbye"
      BY <1>3, <2>1, <2>3 DEF ClientOK, Leaving
    <3>2. down'[c] = <<>>
      BY <1>4, <1>7, <3>1 DEF Leaving
    <3>3. Leaving(c)'
      BY <1>1, <2>1, <3>1, <3>2 DEF Leaving, clientVars
    <3> QED BY <1>1, <2>1, <2>3, <3>3 DEF ClientOK, EventsOK, clientVars
  <2>4. CASE pc[c] \notin {"reply", "bye", "drain", "gone"}
    BY <1>1, <1>3, <2>1, <2>4 DEF ClientOK, EventsOK, Unknown, AtHello, AtReady, AtFrame, clientVars
  <2> QED BY <2>2, <2>3, <2>4
<1>9. ASSUME NEW a \in Clients \ {c} PROVE ClientOK(a)'
  BY <1>1, <1>3, <1>6, NoneAssumption, Untouched DEF IInv, clientVars
<1>10. Typed'
  <2>1. down' \in [Clients -> Seq(Packets)]
    BY <1>1, <1>3, <1>5 DEF IInv, Typed
  <2>2. {peer, ctx, cur}' \subseteq Clients \cup {None}
    BY <1>1 DEF IInv, Typed
  <2>3. spc' \in {"wait", "run", "answer"} /\ ready' \in BOOLEAN
        /\ expecting' \in BOOLEAN /\ swapped' \in BOOLEAN
    BY <1>1 DEF Answer, EndLoop
  <2> QED BY <1>1, <2>1, <2>2, <2>3 DEF IInv, Typed, clientVars
<1>11. ServerOK'
  BY <1>1 DEF IInv, ServerOK
<1> QED BY <1>8, <1>9, <1>10, <1>11 DEF IInv

-----------------------------------------------------------------------------
(* The invariant holds                                                     *)

LEMMA InitInv ==
  ASSUME Init PROVE IInv
<1>1. \A c \in Clients : First(c) \in Requests /\ First(c).from = c /\ First(c).kind = "goodbye"
  BY DEF First, Requests, Kinds
<1>2. Typed
  <2>1. [c \in Clients |-> First(c)] \in [Clients -> Requests]
    BY <1>1
  <2>2. /\ <<>> \in Seq(Events) /\ <<>> \in Seq(Packets)
    OBVIOUS
  <2> QED BY <2>1, <2>2 DEF Init, Typed, Values
<1>3. ServerOK
  BY DEF Init, ServerOK
<1>4. ASSUME NEW c \in Clients PROVE ClientOK(c)
  BY <1>1 DEF Init, ClientOK, EventsOK, Unknown, Silent
<1> QED BY <1>2, <1>3, <1>4 DEF IInv

LEMMA StutterInv ==
  ASSUME IInv, UNCHANGED vars PROVE IInv'
<1>1. Typed' /\ ServerOK'
  BY DEF IInv, Typed, ServerOK, vars, clientVars, netVars, serverVars, takeVars, runVars
<1>2. ASSUME NEW c \in Clients PROVE ClientOK(c)'
  BY Untouched DEF IInv, vars, clientVars, netVars, serverVars, takeVars, runVars
<1> QED BY <1>1, <1>2 DEF IInv

LEMMA NextInv ==
  ASSUME IInv, [Next]_vars PROVE IInv'
<1>1. ASSUME NEW c \in Clients, Start(c) \/ GiveUp(c) \/ Overflow(c) \/ Leave(c) \/ Kill(c)
      PROVE  IInv'
  BY <1>1, PlaceStep
<1>2. ASSUME NEW c \in Clients, Submit(c, "call") \/ Submit(c, "frame")
      PROVE  IInv'
  BY <1>2, SubmitStep
<1>3. ASSUME NEW c \in Clients, Meet(c) \/ Farewell(c) \/ Disconnect(c)
      PROVE  IInv'
  BY <1>3, MeetStep, FarewellStep, DisconnectStep
<1>4. ASSUME NEW c \in Clients, TakeHello(c) \/ TakeReply(c) \/ TakeFrame(c)
      PROVE  IInv'
  BY <1>4, TakeHelloStep, TakeReplyStep, TakeFrameStep
<1>5. ASSUME NEW c \in Clients, Deliver(c)
      PROVE  IInv'
  BY <1>5, AcceptStep, ReceiveStep, IgnoreStep DEF Deliver
<1>6. CASE ServerStep
  BY <1>6, EndRoundStep, RunStep, AnswerStep DEF ServerStep
<1>7. CASE UNCHANGED vars
  BY <1>7, StutterInv
<1> QED BY <1>1, <1>2, <1>3, <1>4, <1>5, <1>6, <1>7 DEF Next, ClientStep

LEMMA SpecInv == Spec => []IInv
<1>1. Init => IInv
  BY InitInv
<1>2. IInv /\ [Next]_vars => IInv'
  BY NextInv
<1> QED BY <1>1, <1>2, PTL DEF Spec

(* Every variable stays in its type, and at most two packets are on their  *)
(* way to or from a program that lives, however often buffers of others    *)
(* overwrite its own.                                                      *)
THEOREM NetTyped == Spec => []TypeOK
<1>1. IInv => TypeOK
  BY FewPackets DEF IInv, TypeOK
<1> QED BY <1>1, SpecInv, PTL

(* submit_net and swap_buffers_net take the next packet without a look at  *)
(* what it is; it is the one they wait for.                                *)
THEOREM NetPackets == Spec => []PacketsAsAwaited
<1>1. ASSUME IInv, NEW c \in Clients
      PROVE  /\ pc[c] \in DOMAIN Awaited /\ down[c] # <<>> => Packet(c).type = Awaited[pc[c]]
             /\ pc[c] = "ready" => down[c] = <<>>
  <2>1. ClientOK(c)
    BY <1>1 DEF IInv
  <2>2. CASE pc[c] = "hello"
    <3>1. down[c] = <<>> \/ down[c] = <<Got("hello", req[c])>>
      BY <2>1, <2>2 DEF ClientOK, AtHello
    <3> QED BY <2>2, <3>1, Shortened DEF Packet, Got, Awaited
  <2>3. CASE pc[c] = "reply"
    <3>1. down[c] = <<>> \/ WholeAnswer(c)
      BY <2>1, <2>3 DEF ClientOK, AtReply, OnItsWay, InFifo, Overwritten, Answered, Silent
    <3>2. down[c] = <<>> \/ \E v \in Values : Packet(c) = Got("retval", v)
      <4>1. CASE req[c].kind = "frame"
        BY <3>1, <4>1, Shortened DEF WholeAnswer, Packet
      <4>2. CASE req[c].kind # "frame"
        <5>1. req[c] \in Values
          BY <1>1 DEF IInv, Typed, Values
        <5> QED BY <3>1, <4>2, <5>1, Shortened DEF WholeAnswer, Packet
      <4> QED BY <4>1, <4>2
    <3> QED BY <2>3, <3>2 DEF Got, Awaited
  <2>4. CASE pc[c] = "frame"
    <3>1. down[c] = <<Got("frame", req[c])>>
      BY <2>1, <2>4 DEF ClientOK, AtFrame
    <3> QED BY <2>4, <3>1, Shortened DEF Packet, Got, Awaited
  <2>5. CASE pc[c] \notin {"hello", "reply", "frame"}
    BY <2>1, <2>5 DEF ClientOK, AtReady, Silent, Awaited
  <2> QED BY <2>2, <2>3, <2>4, <2>5
<1>2. IInv => PacketsAsAwaited
  BY <1>1 DEF PacketsAsAwaited
<1> QED BY <1>2, SpecInv, PTL

(* Commands run in the context of the program they came from, and the      *)
(* answer goes to that program, although wait_net keeps each of the three  *)
(* in a place that every packet of a round overwrites.                     *)
THEOREM NetRunsForSender == Spec => []RunsForItsSender
<1>1. IInv => RunsForItsSender
  BY DEF IInv, Typed, ServerOK, RunsForItsSender
<1> QED BY <1>1, SpecInv, PTL

-----------------------------------------------------------------------------
(* What becomes of a buffer                                                *)

(* Where the buffer that c waits for, or the answer to it, is              *)
Places(c) ==
  {p \in {"up", "fifo", "down"} :
     \/ p = "up" /\ up[c] # <<>>
     \/ p = "fifo" /\ ready /\ peer = c /\ fifo = req[c]
     \/ p = "down" /\ down[c] # <<>>}
(* What a program waits for is in one place, never in two; it is nowhere   *)
(* when the buffer of another program came in the same round of wait_net,  *)
(* and only then.                                                          *)
WaitersAccounted ==
  \A c \in Clients :
    Waiting(c) => IF c \in lost THEN Places(c) = {} ELSE \E p : Places(c) = {p}

Hangs(c) == pc[c] = "reply" /\ Silent(c) /\ peer # c
LostInv ==
  \A c \in Clients :
    /\ Hangs(c) => c \in lost
    /\ c \in lost => Hangs(c) \/ pc[c] \in {"bye", "drain", "gone", "dead"}

LEMMA NonEmpty == (\A e : <<e>> # <<>>) /\ (\A p, q : <<p, q>> # <<>>)
<1>1. ASSUME NEW e PROVE <<e>> # <<>>
  OBVIOUS
<1>2. ASSUME NEW p, NEW q PROVE <<p, q>> # <<>>
  OBVIOUS
<1>. QED
  BY <1>1, <1>2, Zenon

LEMMA InitLost == Init => LostInv
BY DEF Init, LostInv, Hangs

(* A step of a program neither loses a buffer nor finds one                *)
LEMMA ProgramLoses ==
  ASSUME IInv, LostInv, NEW c \in Clients,
         \/ Start(c) \/ Meet(c) \/ GiveUp(c) \/ Submit(c, "call") \/ Submit(c, "frame")
         \/ Overflow(c) \/ Farewell(c) \/ Kill(c) \/ ClientStep(c)
  PROVE  LostInv'
<1>1. /\ lost' = lost /\ peer' = peer
      /\ \A a \in Clients \ {c} : pc'[a] = pc[a] /\ up'[a] = up[a] /\ down'[a] = down[a]
  BY DEF Start, Meet, GiveUp, Submit, Overflow, Farewell, Kill, ClientStep, TakeHello,
     TakeReply, TakeFrame, Disconnect, Leave, Goto, Send, Take, netVars, serverVars, takeVars,
     IInv, Typed
<1>2. ASSUME NEW a \in Clients \ {c}
      PROVE  /\ Hangs(a)' => a \in lost'
             /\ a \in lost' => Hangs(a)' \/ pc'[a] \in {"bye", "drain", "gone", "dead"}
  BY <1>1 DEF LostInv, Hangs, Silent
<1>3. ~Hangs(c)'
  <2>1. CASE Submit(c, "call") \/ Submit(c, "frame")
    <3>1. up'[c] # <<>>
      <4>1. up[c] \in Seq(Events)
        BY DEF IInv, Typed
      <4>. QED
        BY <2>1, <4>1 DEF Submit, Send, IInv, Typed
    <3>. QED
      BY <3>1 DEF Hangs, Silent
  <2>2. CASE ~(Submit(c, "call") \/ Submit(c, "frame"))
    BY <2>2 DEF Start, Meet, GiveUp, Overflow, Farewell, Kill, ClientStep, TakeHello, TakeReply,
       TakeFrame, Disconnect, Leave, Goto, IInv, Typed, Hangs
  <2>. QED
    BY <2>1, <2>2
<1>4. c \in lost => pc'[c] \in {"bye", "drain", "gone", "dead"}
  <2>1. c \in lost => Hangs(c) \/ pc[c] \in {"bye", "drain", "gone", "dead"}
    BY DEF LostInv
  <2>. QED
    BY <2>1 DEF Start, Meet, GiveUp, Submit, Overflow, Farewell, Kill, ClientStep, TakeHello,
       TakeReply, TakeFrame, Disconnect, Leave, Goto, Take, Hangs, Silent, IInv, Typed
<1>. QED
  BY <1>1, <1>2, <1>3, <1>4 DEF LostInv

(* What the server does to one that hangs                                  *)
LEMMA ServerLoses ==
  ASSUME IInv, LostInv, ServerStep \/ \E c \in Clients : Deliver(c)
  PROVE  LostInv'
<1>1. pc' = pc
  BY DEF ServerStep, Deliver, EndRound, Run, Answer, EndLoop, Accept, Receive, Ignore, clientVars
<1>2. SUFFICES ASSUME NEW a \in Clients
               PROVE  /\ Hangs(a)' => a \in lost'
                      /\ a \in lost' => Hangs(a)' \/ pc[a] \in {"bye", "drain", "gone", "dead"}
  BY <1>1 DEF LostInv
<1>3. /\ Hangs(a) => a \in lost
      /\ a \in lost => Hangs(a) \/ pc[a] \in {"bye", "drain", "gone", "dead"}
      /\ ClientOK(a) /\ Typed
  BY DEF LostInv, IInv
<1>4. ASSUME up'[a] = up[a], down'[a] = down[a], peer' = peer, lost' = lost
      PROVE  /\ Hangs(a)' => a \in lost'
             /\ a \in lost' => Hangs(a)' \/ pc[a] \in {"bye", "drain", "gone", "dead"}
  BY <1>1, <1>3, <1>4 DEF Hangs, Silent
<1>5. ASSUME NEW c \in Clients, Accept(c)
      PROVE  /\ Hangs(a)' => a \in lost'
             /\ a \in lost' => Hangs(a)' \/ pc[a] \in {"bye", "drain", "gone", "dead"}
  <2>1. peer' = peer /\ lost' = lost
    BY <1>5 DEF Accept, takeVars
  <2>2. CASE a # c
    <3>1. up'[a] = up[a] /\ down'[a] = down[a]
      BY <1>3, <1>5, <2>2 DEF Accept, Arrives, Typed
    <3>. QED
      BY <1>4, <2>1, <3>1
  <2>3. CASE a = c
    <3>1. down'[a] # <<>>
      <4> DEFINE hello == [type |-> "hello", of |-> Event(c).req]
      <4>1. down'[a] = Append(down[a], hello) /\ down[a] \in Seq(Packets)
        BY <1>3, <1>5, <2>3 DEF Accept, Typed
      <4> HIDE DEF hello
      <4>. QED
        BY <4>1
    <3>2. ~Hangs(a)
      BY <1>5, <2>3 DEF Accept, Arrives, Hangs, Silent
    <3>. QED
      BY <1>3, <2>1, <3>1, <3>2 DEF Hangs, Silent
  <2>. QED
    BY <2>2, <2>3
<1>6. ASSUME NEW c \in Clients, Receive(c)
      PROVE  /\ Hangs(a)' => a \in lost'
             /\ a \in lost' => Hangs(a)' \/ pc[a] \in {"bye", "drain", "gone", "dead"}
  <2>1. /\ peer' = c /\ down' = down /\ lost' = (IF ready THEN lost \cup {peer} ELSE lost)
        /\ ~ready => peer = None
    BY <1>6 DEF Receive, IInv, ServerOK
  <2>2. CASE a = c
    <3>1. ~Hangs(a)' /\ ~Hangs(a)
      BY <1>6, <2>1, <2>2 DEF Hangs, Silent, Receive, Arrives
    <3>2. CASE a \in lost
      BY <1>3, <3>1, <3>2
    <3>3. CASE a \notin lost /\ a \in lost'
      <4>1. peer = a /\ ready
        BY <2>1, <3>3
      <4>2. up[a] # <<>>
        BY <1>6, <2>2 DEF Receive, Arrives
      <4>3. pc[a] # "reply"
        BY <1>3, <4>1, <4>2 DEF ClientOK, AtReply, OnItsWay, InFifo, Overwritten, Answered, Silent
      <4>4. pc[a] \in {"reply", "bye", "drain", "gone", "dead"}
        BY <1>3, <4>1 DEF ClientOK, Unknown, AtHello, AtReady, AtFrame, Typed
      <4>. QED
        BY <3>1, <4>3, <4>4
    <3>. QED
      BY <3>1, <3>2, <3>3
  <2>3. CASE a # c
    <3>1. up'[a] = up[a] /\ down'[a] = down[a] /\ peer' # a
      BY <1>3, <1>6, <2>1, <2>3 DEF Receive, Arrives, Typed
    <3>2. CASE peer = a
      <4>1. a \in lost'
        BY <2>1, <3>2, NoneAssumption
      <4>2. pc[a] = "reply" => Silent(a)
        BY <1>3, <3>2 DEF ClientOK, AtReply, OnItsWay, InFifo, Overwritten, Answered
      <4>3. pc[a] \in {"reply", "bye", "drain", "gone", "dead"}
        BY <1>3, <3>2 DEF ClientOK, Unknown, AtHello, AtReady, AtFrame, Typed
      <4>. QED
        BY <1>1, <3>1, <4>1, <4>2, <4>3 DEF Hangs, Silent
    <3>3. CASE peer # a
      <4>1. a \in lost' <=> a \in lost
        BY <2>1, <3>3
      <4>2. Hangs(a)' <=> Hangs(a)
        BY <1>1, <3>1, <3>3 DEF Hangs, Silent
      <4>. QED
        BY <1>3, <4>1, <4>2
    <3>. QED
      BY <3>2, <3>3
  <2>. QED
    BY <2>2, <2>3
<1>7. ASSUME NEW c \in Clients, Ignore(c)
      PROVE  /\ Hangs(a)' => a \in lost'
             /\ a \in lost' => Hangs(a)' \/ pc[a] \in {"bye", "drain", "gone", "dead"}
  <2>1. peer' = peer /\ lost' = lost /\ down' = down
    BY <1>7 DEF Ignore, serverVars, takeVars
  <2>2. CASE a # c
    <3>1. up'[a] = up[a]
      BY <1>3, <1>7, <2>2 DEF Ignore, Arrives, Typed
    <3>. QED
      BY <1>4, <2>1, <3>1
  <2>3. CASE a = c
    <3>1. up[a] # <<>> /\ Event(a).type = "disconnect"
      BY <1>7, <2>3 DEF Ignore, Arrives
    <3>2. pc[a] # "reply"
      BY <1>3, <3>1, Shortened DEF ClientOK, AtReply, OnItsWay, InFifo, Overwritten, Answered,
         Silent, Sent, Event
    <3>. QED
      BY <1>1, <1>3, <2>1, <3>2 DEF Hangs
  <2>. QED
    BY <2>2, <2>3
<1>8. CASE EndRound \/ Run
  BY <1>4, <1>8 DEF EndRound, Run, netVars, takeVars
<1>9. CASE Answer
  <2>1. up' = up /\ lost' = lost /\ peer' = None /\ down' = [down EXCEPT ![peer] = @ \o Replies]
    BY <1>9 DEF Answer, EndLoop
  <2>2. CASE peer # a
    <3>1. down'[a] = down[a]
      BY <1>3, <2>1, <2>2 DEF Typed
    <3>2. Hangs(a)' <=> Hangs(a)
      BY <1>1, <2>1, <2>2, <3>1, NoneAssumption DEF Hangs, Silent
    <3>. QED
      BY <1>3, <2>1, <3>2
  <2>3. CASE peer = a
    <3>1. ~Hangs(a)
      BY <2>3 DEF Hangs
    <3>2. CASE pc[a] = "reply"
      <4>1. AtReply(a)'
        <5>1. ClientOK(a)'
          BY <1>9, AnswerStep DEF IInv
        <5>. QED
          BY <1>1, <3>2, <5>1 DEF ClientOK
      <4>2. ran'[a] = req'[a]
        <5>1. fifo = req[a] /\ ran[a] = fifo
          BY <1>3, <1>9, <2>3, <3>2 DEF ClientOK, AtReply, OnItsWay, InFifo, Overwritten,
             Answered, Answer, EndLoop, IInv, ServerOK
        <5>. QED
          BY <1>9, <5>1 DEF Answer, EndLoop, clientVars
      <4>3. Answered(a)'
        BY <2>1, <4>1, <4>2, NoneAssumption DEF AtReply, OnItsWay, InFifo, Overwritten
      <4>4. down'[a] # <<>>
        BY <4>3, NonEmpty DEF Answered, WholeAnswer
      <4>. QED
        BY <1>3, <2>1, <3>1, <4>4 DEF Hangs, Silent
    <3>3. CASE pc[a] # "reply"
      BY <1>1, <1>3, <2>1, <3>1, <3>3 DEF Hangs
    <3>. QED
      BY <3>2, <3>3
  <2>. QED
    BY <2>2, <2>3
<1>. QED
  BY <1>5, <1>6, <1>7, <1>8, <1>9 DEF ServerStep, Deliver

LEMMA LostStep == ASSUME IInv, LostInv, [Next]_vars PROVE LostInv'
<1>1. CASE UNCHANGED vars
  BY <1>1 DEF LostInv, Hangs, Silent, vars, clientVars, netVars, serverVars, takeVars
<1>2. CASE Next
  BY <1>2, ProgramLoses, ServerLoses DEF Next
<1>. QED
  BY <1>1, <1>2

LEMMA SpecLost == Spec => [](IInv /\ LostInv)
<1>1. Init => LostInv
  BY InitLost
<1>2. IInv /\ LostInv /\ [Next]_vars => LostInv'
  BY LostStep
<1>. QED
  BY <1>1, <1>2, SpecInv, PTL DEF Spec

(* A waiting program's buffer or its answer is in exactly one place, so it *)
(* is answered once if the others do their part; the one exception is a    *)
(* buffer that another one overwrote in sgl_net_get_fifo_upload's fifo.    *)
THEOREM NetAccounts == Spec => []WaitersAccounted
<1>1. ASSUME IInv, LostInv, NEW c \in Clients, Waiting(c)
      PROVE  IF c \in lost THEN Places(c) = {} ELSE \E p : Places(c) = {p}
  <2>1. ClientOK(c) /\ Typed /\ (~ready => peer = None)
        /\ (Hangs(c) => c \in lost)
        /\ (c \in lost => Hangs(c) \/ pc[c] \in {"bye", "drain", "gone", "dead"})
    BY <1>1 DEF IInv, LostInv, ServerOK
  <2>2. c \in lost <=> Hangs(c)
    BY <1>1, <2>1 DEF Waiting
  <2>3. CASE Hangs(c)
    BY <2>2, <2>3 DEF Hangs, Silent, Places
  <2>4. CASE ~Hangs(c)
    <3>1. CASE pc[c] = "hello"
      <4>1. AtHello(c)
        BY <2>1, <3>1 DEF ClientOK
      <4>2. CASE up[c] = <<>>
        <5>1. peer # c /\ down[c] = <<Got("hello", req[c])>>
          BY <4>1, <4>2, NonEmpty DEF AtHello, Sent
        <5>2. down[c] # <<>>
          BY <5>1, NonEmpty
        <5>3. Places(c) = {"down"}
          BY <4>2, <5>1, <5>2 DEF Places
        <5>. QED
          BY <2>2, <2>4, <5>3
      <4>3. CASE up[c] # <<>>
        <5>1. peer # c /\ down[c] = <<>>
          BY <4>1, <4>3 DEF AtHello
        <5>2. Places(c) = {"up"}
          BY <4>3, <5>1 DEF Places
        <5>. QED
          BY <2>2, <2>4, <5>2
      <4>. QED
        BY <4>2, <4>3
    <3>2. CASE pc[c] = "reply"
      <4>1. AtReply(c) /\ ~Overwritten(c)
        BY <2>1, <2>4, <3>2 DEF ClientOK, Hangs, Overwritten
      <4>2. CASE OnItsWay(c)
        <5>1. Places(c) = {"up"}
          BY <4>2 DEF OnItsWay, Sent, Places
        <5>. QED
          BY <2>2, <2>4, <5>1
      <4>3. CASE InFifo(c)
        <5>1. ready
          BY <2>1, <4>3, NoneAssumption DEF InFifo
        <5>2. Places(c) = {"fifo"}
          BY <4>3, <5>1 DEF InFifo, Silent, Places
        <5>. QED
          BY <2>2, <2>4, <5>2
      <4>4. CASE Answered(c)
        <5>1. down[c] # <<>>
          BY <4>4, NonEmpty DEF Answered, WholeAnswer
        <5>2. Places(c) = {"down"}
          BY <4>4, <5>1 DEF Answered, Places
        <5>. QED
          BY <2>2, <2>4, <5>2
      <4>. QED
        BY <4>1, <4>2, <4>3, <4>4 DEF AtReply
    <3>3. CASE pc[c] = "frame"
      <4>1. up[c] = <<>> /\ down[c] # <<>> /\ peer # c
        BY <2>1, <3>3 DEF ClientOK, AtFrame
      <4>2. Places(c) = {"down"}
        BY <4>1 DEF Places
      <4>. QED
        BY <2>2, <2>4, <4>2
    <3>. QED
      BY <1>1, <3>1, <3>2, <3>3 DEF Waiting
  <2>. QED
    BY <2>3, <2>4
<1>2. IInv /\ LostInv => WaitersAccounted
  BY <1>1 DEF WaitersAccounted
<1>. QED
  BY <1>2, SpecLost, PTL

(* An overwritten buffer is lost for good: nobody sends it again and no    *)
(* answer to another one reaches its program, so the loop of submit_net    *)
(* ends for it with the program only.                                      *)
THEOREM NetLostForGood ==
  ASSUME NEW c \in Clients
  PROVE  Spec => [](Waiting(c) /\ c \in lost => [](pc[c] \in {"reply", "dead"}))
<1> DEFINE Stays == c \in lost /\ pc[c] \in {"reply", "dead"}
<1>1. LostInv /\ Waiting(c) /\ c \in lost => Stays
  BY DEF LostInv, Hangs, Waiting
<1>2. ASSUME IInv, LostInv, Stays, [Next]_vars PROVE Stays'
  <2>1. c \in lost'
    BY <1>2 DEF Next, ClientStep, ServerStep, Deliver, Start, Meet, GiveUp, Submit, Overflow,
       Farewell, Kill, TakeHello, TakeReply, TakeFrame, Disconnect, Leave, Accept, Receive, Ignore,
       EndRound, Run, Answer, EndLoop, serverVars, vars
  <2>2. pc[c] = "reply" => down[c] = <<>>
    BY <1>2 DEF LostInv, Hangs, Silent
  <2>3. pc'[c] \in {"reply", "dead"}
    <3>1. pc \in [Clients -> {"off", "connecting", "hello", "ready", "reply", "frame", "bye",
                              "drain", "gone", "dead"}]
      BY <1>2 DEF IInv, Typed
    <3>2. ASSUME NEW d \in Clients,
                 \/ Start(d) \/ Meet(d) \/ GiveUp(d) \/ Submit(d, "call") \/ Submit(d, "frame")
                 \/ Overflow(d) \/ Farewell(d) \/ Kill(d) \/ ClientStep(d)
          PROVE  pc'[c] \in {"reply", "dead"}
      BY <1>2, <2>2, <3>1, <3>2 DEF ClientStep, Start, Meet, GiveUp, Submit, Overflow, Farewell,
         Kill, TakeHello, TakeReply, TakeFrame, Disconnect, Leave, Goto, Take
    <3>3. CASE ServerStep \/ \E d \in Clients : Deliver(d)
      BY <1>2, <3>3 DEF ServerStep, Deliver, EndRound, Run, Answer, EndLoop, Accept, Receive,
         Ignore, clientVars
    <3>4. CASE UNCHANGED vars
      BY <1>2, <3>4 DEF vars, clientVars
    <3>. QED
      BY <1>2, <3>2, <3>3, <3>4 DEF Next
  <2>. QED
    BY <2>1, <2>3
<1>3. Stays => pc[c] \in {"reply", "dead"}
  OBVIOUS
<1> HIDE DEF Stays
<1>. QED
  BY <1>1, <1>2, <1>3, SpecLost, PTL DEF Spec

-----------------------------------------------------------------------------
(* The refinement                                                          *)

P == [c \in Clients |-> Phase(c)]
R == [c \in Clients |-> Seen(req[c])]
G == [c \in Clients |-> Seen(got[c])]

LEMMA SeenFacts ==
  ASSUME NEW r \in Requests
  PROVE  /\ Seen(r).bit = r.bit /\ Seen(r).from = r.from
         /\ Seen(r).kind = (IF r.kind = "frame" THEN "call" ELSE r.kind)
         /\ Seen(NoResult) = NoResult
BY DEF Seen, Requests

LEMMA SeenNext ==
  ASSUME NEW c \in Clients, NEW kind \in Kinds, Typed
  PROVE  Seen(NextRequest(c, kind)) =
           [from |-> c, kind |-> IF kind = "frame" THEN "call" ELSE kind,
            bit |-> 1 - Seen(req[c]).bit]
<1>1. req[c] \in Requests
  BY DEF Typed
<1>2. NextRequest(c, kind) \in Requests
  BY <1>1 DEF NextRequest, Requests
<1>3. Seen(req[c]).bit = req[c].bit
  BY <1>1, SeenFacts
<1>4. CASE kind = "frame"
  BY <1>2, <1>3, <1>4 DEF Seen, NextRequest
<1>5. CASE kind # "frame"
  BY <1>2, <1>3, <1>5 DEF Seen, NextRequest
<1> QED BY <1>4, <1>5

(* At most one program changes                                             *)
Others(c) ==
  \A a \in Clients \ {c} : Phase(a)' = Phase(a) /\ req'[a] = req[a] /\ got'[a] = got[a]

LEMMA OneChanges ==
  ASSUME NEW c \in Clients, Others(c)
  PROVE  /\ P' = [P EXCEPT ![c] = Phase(c)']
         /\ R' = [R EXCEPT ![c] = Seen(req'[c])]
         /\ G' = [G EXCEPT ![c] = Seen(got'[c])]
BY DEF Others, P, R, G

LEMMA NoneChanges ==
  ASSUME NEW c \in Clients, Others(c),
         Phase(c)' = Phase(c), req'[c] = req[c], got'[c] = got[c]
  PROVE  UNCHANGED Service!vars
BY DEF Others, Service!vars, Seen

LEMMA OnlyPhase ==
  ASSUME NEW c \in Clients, Others(c), req'[c] = req[c], got'[c] = got[c],
         Phase(c)' = Phase(c) \/ Phase(c)' = "dead" \/ (Phase(c) = "asked" /\ Phase(c)' = "done")
  PROVE  Service!Next \/ UNCHANGED Service!vars
<1>1. P' = [P EXCEPT ![c] = Phase(c)'] /\ R' = R /\ G' = G
  BY OneChanges DEF Others, R, G
<1>2. CASE Phase(c)' = "dead"
  BY <1>1, <1>2 DEF Service!Next, Service!Die, P, R, G
<1>3. CASE Phase(c) = "asked" /\ Phase(c)' = "done"
  BY <1>1, <1>3 DEF Service!Next, Service!Run, P, R, G
<1>4. CASE Phase(c)' = Phase(c)
  BY <1>4, NoneChanges
<1> QED BY <1>2, <1>3, <1>4

(* A program that hands over a buffer                                      *)
LEMMA AskRefines ==
  ASSUME NEW c \in Clients, NEW type \in {"connect", "receive"}, NEW kind \in Kinds, IInv,
         Send(c, type, kind), ran' = ran,
         pc[c] = (IF kind = "create" THEN "connecting" ELSE "ready"),
         pc[c]' \in {"hello", "reply", "bye"},
         \A a \in Clients \ {c} : pc[a]' = pc[a]
  PROVE  Service!Next
<1>1. ClientOK(c) /\ ran[c] = req[c] /\ req[c] \in Requests
  BY DEF IInv, Typed, ClientOK, Unknown, AtReady
<1>2. req'[c] = NextRequest(c, kind) /\ got'[c] = NoResult
  BY DEF Send, IInv, Typed
<1>3. Others(c)
  BY DEF Others, Phase, Send, IInv, Typed
<1>4. Phase(c) = IF kind = "create" THEN "closed" ELSE "idle"
  BY DEF Phase
<1>5. ran[c] # NextRequest(c, kind)
  BY <1>1 DEF NextRequest, Requests
<1>6. Phase(c)' = "asked"
  BY <1>2, <1>5 DEF Phase
<1> DEFINE k == IF kind = "frame" THEN "call" ELSE kind
<1>7. k \in Service!Kinds /\ (k = "create" <=> kind = "create")
  BY DEF Kinds, Service!Kinds
<1>8. R' = [R EXCEPT ![c] = [from |-> c, kind |-> k, bit |-> 1 - R[c].bit]]
  BY <1>2, <1>3, OneChanges, SeenNext DEF IInv, R
<1>9. P' = [P EXCEPT ![c] = "asked"] /\ G' = [G EXCEPT ![c] = NoResult]
  BY <1>2, <1>3, <1>6, OneChanges DEF Seen
<1>10. P[c] = IF k = "create" THEN "closed" ELSE "idle"
  BY <1>4, <1>7 DEF P
<1> HIDE DEF k
<1>11. Service!Ask(c, k)
  BY <1>8, <1>9, <1>10 DEF Service!Ask, P, R, G
<1> QED BY <1>7, <1>11 DEF Service!Next

(* A program that takes what it waits for                                  *)
LEMMA GetRefines ==
  ASSUME NEW c \in Clients, IInv, UNCHANGED <<req, ran>>, ran[c] = req[c],
         pc[c] \in {"hello", "reply", "frame"}, req[c].kind # "goodbye",
         pc' = [pc EXCEPT ![c] = "ready"], got' = [got EXCEPT ![c] = req[c]]
  PROVE  Service!Next
<1>1. req[c] \in Requests /\ req'[c] = req[c] /\ got'[c] = req[c]
  BY DEF IInv, Typed
<1>2. Others(c)
  BY DEF Others, Phase, IInv, Typed
<1>3. Phase(c) = "done" /\ Phase(c)' = "idle"
  BY DEF Phase, IInv, Typed
<1>4. R' = R /\ P' = [P EXCEPT ![c] = "idle"] /\ G' = [G EXCEPT ![c] = R[c]]
  BY <1>1, <1>2, <1>3, OneChanges DEF R, P
<1>5. P[c] = "done" /\ R[c].kind # "goodbye"
  BY <1>1, <1>3, SeenFacts DEF R, P
<1>6. Service!GetResult(c)
  BY <1>4, <1>5 DEF Service!GetResult, P, R, G
<1> QED BY <1>6 DEF Service!Next

LEMMA ProgramRefines ==
  ASSUME NEW c \in Clients, IInv,
         \/ Start(c) \/ Meet(c) \/ GiveUp(c) \/ Submit(c, "call") \/ Submit(c, "frame")
         \/ Overflow(c) \/ Farewell(c) \/ Kill(c) \/ ClientStep(c)
  PROVE  Service!Next \/ UNCHANGED Service!vars
<1>1. ran' = ran /\ ClientOK(c)
  BY DEF IInv, Start, Meet, GiveUp, Submit, Overflow, Farewell, Kill, ClientStep, TakeHello, TakeReply,
         TakeFrame, Disconnect, Leave, serverVars, runVars
<1>2. CASE Meet(c)
  BY <1>1, <1>2, AskRefines DEF Meet, Goto, Kinds, IInv, Typed
<1>3. CASE Submit(c, "call") \/ Submit(c, "frame")
  BY <1>1, <1>3, AskRefines DEF Submit, Goto, Kinds, IInv, Typed
<1>4. CASE Farewell(c)
  BY <1>1, <1>4, AskRefines DEF Farewell, Goto, Kinds, IInv, Typed
<1>5. CASE TakeHello(c)
  <2>1. ran[c] = req[c] /\ down[c] = <<Got("hello", req[c])>> /\ req[c].kind = "create"
    BY <1>1, <1>5 DEF ClientOK, AtHello, TakeHello, Goto, Take
  <2>2. Packet(c).of = req[c]
    BY <2>1, Shortened DEF Packet, Got
  <2> QED BY <1>1, <1>5, <2>1, <2>2, GetRefines DEF TakeHello, Goto
<1>6. CASE TakeReply(c)
  <2>1. Answered(c) /\ req[c].kind \in {"call", "frame"}
    BY <1>1, <1>6 DEF ClientOK, AtReply, OnItsWay, InFifo, Overwritten, Silent, TakeReply, Take
  <2>2. CASE req[c].kind = "frame"
    <3>1. Others(c) /\ req' = req /\ got' = got /\ Phase(c)' = Phase(c)
      BY <1>1, <1>6, <2>2 DEF TakeReply, Others, Phase, IInv, Typed
    <3> QED BY <3>1, NoneChanges
  <2>3. CASE req[c].kind # "frame"
    <3>1. down[c] = <<Got("retval", req[c])>> /\ ran[c] = req[c]
      BY <2>1, <2>3 DEF Answered, WholeAnswer
    <3>2. Packet(c).of = req[c]
      BY <3>1, Shortened DEF Packet, Got
    <3> QED BY <1>1, <1>6, <2>1, <2>3, <3>1, <3>2, GetRefines DEF TakeReply
  <2> QED BY <2>2, <2>3
<1>7. CASE TakeFrame(c)
  <2>1. ran[c] = req[c] /\ down[c] = <<Got("frame", req[c])>> /\ req[c].kind = "frame"
    BY <1>1, <1>7 DEF ClientOK, AtFrame, TakeFrame, Goto, Take
  <2>2. Packet(c).of = req[c]
    BY <2>1, Shortened DEF Packet, Got
  <2> QED BY <1>1, <1>7, <2>1, <2>2, GetRefines DEF TakeFrame, Goto
<1>8. CASE Start(c) \/ GiveUp(c) \/ Overflow(c) \/ Kill(c) \/ Disconnect(c) \/ Leave(c)
  <2>1. req' = req /\ got' = got
    BY <1>8 DEF Start, GiveUp, Overflow, Kill, Disconnect, Leave
  <2>2. Others(c)
    BY <1>1, <1>8, <2>1 DEF Start, GiveUp, Overflow, Kill, Disconnect, Leave, Goto, Others, Phase, IInv, Typed
  <2>3. Phase(c)' = Phase(c) \/ Phase(c)' = "dead"
    BY <1>1, <1>8, <2>1 DEF Start, GiveUp, Overflow, Kill, Disconnect, Leave, Goto, Phase, IInv, Typed
  <2> QED BY <2>1, <2>2, <2>3, OnlyPhase
<1> QED BY <1>2, <1>3, <1>4, <1>5, <1>6, <1>7, <1>8 DEF ClientStep

LEMMA ServerRefines ==
  ASSUME IInv, ServerStep \/ \E c \in Clients : Deliver(c)
  PROVE  Service!Next \/ UNCHANGED Service!vars
<1>1. pc' = pc /\ req' = req /\ got' = got
  BY DEF ServerStep, Deliver, EndRound, Run, Answer, EndLoop, Accept, Receive, Ignore, clientVars
<1>2. CASE ran' = ran
  <2>1. \A c \in Clients : Phase(c)' = Phase(c)
    BY <1>1, <1>2 DEF Phase
  <2>2. P' = P /\ R' = R /\ G' = G
    BY <1>1, <2>1 DEF P, R, G, Seen
  <2> QED BY <2>2 DEF P, R, G, Service!vars
<1>3. ASSUME NEW c \in Clients, ran' = [ran EXCEPT ![c] = ran'[c]],
             \/ pc[c] \in {"off", "connecting", "ready", "gone", "dead"}
             \/ ran'[c] = req[c]
      PROVE  Service!Next \/ UNCHANGED Service!vars
  <2>1. \A a \in Clients \ {c} : ran'[a] = ran[a]
    BY <1>3 DEF IInv, Typed
  <2>2. Others(c)
    BY <1>1, <2>1 DEF Others, Phase
  <2>3. Phase(c)' = Phase(c) \/ (Phase(c) = "asked" /\ Phase(c)' = "done")
    BY <1>1, <1>3 DEF Phase
  <2> QED BY <1>1, <2>2, <2>3, OnlyPhase
<1>4. ASSUME NEW c \in Clients, Accept(c)
      PROVE  Service!Next \/ UNCHANGED Service!vars
  <2>1. Arrives(c, "connect") /\ ClientOK(c) /\ ran' = [ran EXCEPT ![c] = Event(c).req]
        /\ up[c] # <<>> /\ Event(c).type = "connect"
    BY <1>4 DEF Accept, Arrives, IInv
  <2>2. ran' = [ran EXCEPT ![c] = ran'[c]] /\ ran'[c] = Event(c).req
    BY <2>1 DEF IInv, Typed
  <2>3. 1 \in 1..Len(up[c]) /\ Event(c) = up[c][1]
    BY <2>1, ArrivesTyped
  <2>4. CASE pc[c] = "hello"
    <3>1. up[c] = Sent(c, "connect")
      BY <2>1, <2>4 DEF ClientOK, AtHello
    <3>2. Event(c).req = req[c]
      BY <3>1, Shortened DEF Sent, Event
    <3> QED BY <1>3, <2>2, <3>2
  <2>5. CASE pc[c] \in {"reply", "frame"}
    <3>1. up[c] = Sent(c, "receive")
      BY <2>1, <2>5 DEF ClientOK, AtReply, AtFrame, OnItsWay, InFifo, Overwritten, Answered, Silent
    <3> QED BY <2>1, <3>1, Shortened DEF Sent, Event
  <2>6. CASE pc[c] \in {"bye", "drain"}
    BY <2>1, <2>3, <2>6 DEF ClientOK, Leaving
  <2>7. CASE pc[c] \in {"off", "connecting", "ready", "gone", "dead"}
    BY <1>3, <2>2, <2>7
  <2> QED BY <2>4, <2>5, <2>6, <2>7 DEF IInv, Typed
<1>5. CASE Run
  <2>1. PICK c \in Clients : c = peer
    BY <1>5 DEF Run, IInv, Typed, ServerOK, Values
  <2>2. fifo \in Requests /\ fifo.from = c /\ ClientOK(c) /\ ran' = [ran EXCEPT ![fifo.from] = fifo]
    BY <1>5, <2>1 DEF Run, IInv, Typed, ServerOK, Values
  <2>3. ran' = [ran EXCEPT ![c] = ran'[c]] /\ ran'[c] = fifo
    BY <2>2 DEF IInv, Typed
  <2>4. pc[c] \notin {"hello", "frame"}
    BY <2>1, <2>2 DEF ClientOK, AtHello, AtFrame
  <2>5. CASE pc[c] = "reply"
    BY <1>3, <2>1, <2>2, <2>3, <2>5 DEF ClientOK, AtReply, OnItsWay, InFifo, Overwritten, Answered
  <2>6. CASE pc[c] \in {"bye", "drain"}
    BY <1>3, <2>1, <2>2, <2>3, <2>6 DEF ClientOK, Leaving
  <2>7. CASE pc[c] \in {"off", "connecting", "ready", "gone", "dead"}
    BY <1>3, <2>3, <2>7
  <2> QED BY <2>4, <2>5, <2>6, <2>7 DEF IInv, Typed
<1>6. CASE ServerStep /\ ~Run
  BY <1>2, <1>6 DEF ServerStep, EndRound, Answer, EndLoop, runVars
<1>7. ASSUME NEW c \in Clients, Receive(c) \/ Ignore(c)
      PROVE  ran' = ran
  BY <1>7 DEF Receive, Ignore, serverVars, runVars
<1> QED BY <1>2, <1>4, <1>5, <1>6, <1>7 DEF Deliver

(* Over the network too, the server runs each buffer at most once and a    *)
(* program is given what was computed for that very buffer: NetTransport   *)
(* implements RenderService, the service the shared-memory transport       *)
(* implements.                                                             *)
THEOREM NetImplementsService == Spec => ServiceSpec
<1>1. ASSUME Init PROVE Service!Init
  <2>1. \A c \in Clients : Seen(First(c)) = First(c) /\ Seen(NoResult) = NoResult
    <3>1. \A c \in Clients : First(c) \in Requests /\ First(c).kind = "goodbye"
      BY DEF First, Requests, Kinds
    <3> QED BY <3>1 DEF Seen
  <2> QED BY <1>1, <2>1 DEF Init, Service!Init, Phase, First
<1>2. ASSUME IInv, [Next]_vars PROVE [Service!Next]_(Service!vars)
  <2>1. CASE Next
    BY <1>2, <2>1, ProgramRefines, ServerRefines DEF Next
  <2>2. CASE UNCHANGED vars
    <3>1. \A c \in Clients : Phase(c)' = Phase(c)
      BY <2>2 DEF Phase, vars, clientVars, serverVars, runVars
    <3>2. req' = req /\ got' = got
      BY <2>2 DEF vars, clientVars
    <3> QED BY <3>1, <3>2 DEF Service!vars, Seen
  <2> QED BY <1>2, <2>1, <2>2
<1> QED BY <1>1, <1>2, SpecInv, PTL DEF Spec, ServiceSpec, Service!Spec

(* What a call over the network returned is the value of the program's     *)
(* latest buffer, never that of another one nor what an earlier one left   *)
(* in the registers; and a program that may go on has such a value.        *)
NetResultsAreOwn ==
  \A c \in Clients :
    /\ got[c] # NoResult => got[c] = req[c] /\ pc[c] \in {"ready", "dead"}
    /\ pc[c] = "ready" => got[c] = req[c]

THEOREM NetResultsOwn == Spec => []NetResultsAreOwn
<1>1. Init => NetResultsAreOwn
  BY DEF Init, NetResultsAreOwn
<1>2. ASSUME IInv, NetResultsAreOwn, [Next]_vars PROVE NetResultsAreOwn'
  <2>1. ASSUME UNCHANGED <<req, got>>,
               \A c \in Clients : pc[c]' = pc[c] \/ (pc[c]' # "ready" /\ got[c] = NoResult)
                                  \/ pc[c]' = "dead"
        PROVE  NetResultsAreOwn'
    BY <1>2, <2>1 DEF NetResultsAreOwn
  <2>2. ASSUME NEW c \in Clients, Start(c) \/ GiveUp(c) \/ Overflow(c) \/ Disconnect(c)
                                  \/ Leave(c) \/ Kill(c)
        PROVE  NetResultsAreOwn'
    <3>1. /\ UNCHANGED <<req, got>>
          /\ \A a \in Clients \ {c} : pc[a]' = pc[a]
          /\ pc[c]' = "dead" \/ (pc[c] \notin {"ready", "dead"} /\ pc[c]' # "ready")
      BY <1>2, <2>2 DEF IInv, Typed, Start, GiveUp, Overflow, Disconnect, Leave, Kill, Goto
    <3>2. pc[c] \notin {"ready", "dead"} => got[c] = NoResult
      BY <1>2 DEF NetResultsAreOwn
    <3> QED BY <2>1, <3>1, <3>2
  <2>3. ASSUME NEW c \in Clients,
               Meet(c) \/ Submit(c, "call") \/ Submit(c, "frame") \/ Farewell(c)
        PROVE  NetResultsAreOwn'
    <3>1. /\ got[c]' = NoResult /\ pc[c]' # "ready"
          /\ \A a \in Clients \ {c} :
               pc[a]' = pc[a] /\ req[a]' = req[a] /\ got[a]' = got[a]
      BY <1>2, <2>3 DEF IInv, Typed, Meet, Submit, Farewell, Goto, Send
    <3> QED BY <1>2, <3>1 DEF NetResultsAreOwn
  <2>4. ASSUME NEW c \in Clients, TakeHello(c) \/ TakeReply(c) \/ TakeFrame(c)
        PROVE  NetResultsAreOwn'
    <3>1. ClientOK(c) /\ pc[c] \in {"hello", "reply", "frame"} /\ down[c] # <<>>
      BY <1>2, <2>4 DEF IInv, TakeHello, TakeReply, TakeFrame, Take, Goto
    <3>2. pc[c] \in {"hello", "frame"} => Packet(c).of = req[c]
      BY <3>1 DEF ClientOK, AtHello, AtFrame, Packet, Got
    <3>3. pc[c] = "reply" /\ req[c].kind # "frame" => Packet(c).of = req[c]
      BY <3>1 DEF ClientOK, AtReply, OnItsWay, InFifo, Overwritten, Answered, Silent,
             WholeAnswer, Packet, Got
    <3>4. /\ req' = req
          /\ \A a \in Clients \ {c} : pc[a]' = pc[a] /\ got[a]' = got[a]
          /\ \/ pc[c]' = "ready" /\ got[c]' = Packet(c).of
                /\ ~(pc[c] = "reply" /\ req[c].kind = "frame")
             \/ pc[c]' = "frame" /\ got[c]' = got[c]
      BY <1>2, <2>4 DEF IInv, Typed, TakeHello, TakeReply, TakeFrame, Goto
    <3>5. got[c] = NoResult
      BY <1>2, <3>1 DEF NetResultsAreOwn
    <3> QED BY <1>2, <3>1, <3>2, <3>3, <3>4, <3>5 DEF NetResultsAreOwn
  <2>5. ASSUME UNCHANGED clientVars PROVE NetResultsAreOwn'
    BY <1>2, <2>5 DEF NetResultsAreOwn, clientVars
  <2>6. ASSUME NEW c \in Clients, Deliver(c) PROVE UNCHANGED clientVars
    BY <2>6 DEF Deliver, Accept, Receive, Ignore
  <2>7. ASSUME ServerStep PROVE UNCHANGED clientVars
    BY <2>7 DEF ServerStep, EndRound, Run, Answer, EndLoop
  <2>8. CASE UNCHANGED vars
    BY <2>5, <2>8 DEF vars
  <2> QED BY <1>2, <2>2, <2>3, <2>4, <2>5, <2>6, <2>7, <2>8 DEF Next, ClientStep
<1> QED BY <1>1, <1>2, SpecInv, PTL DEF Spec

-----------------------------------------------------------------------------
(* Liveness                                                                *)

(* A program that waits keeps what was sent to it, until it stops waiting  *)
LEMMA WaiterKeeps ==
  ASSUME NEW p \in Clients, IInv, Waiting(p), [Next]_vars
  PROVE  \/ ~Waiting(p)'
         \/ pc'[p] = pc[p] /\ (down[p] # <<>> => down'[p] # <<>>)
         \/ pc[p] = "reply" /\ pc'[p] = "frame"
<1>1. /\ Typed
      /\ \A c \in Clients : pc[c] = "frame" => pc[c] # "reply"
  BY DEF IInv
<1>2. ASSUME NEW c \in Clients, c # p,
             \/ Start(c) \/ Meet(c) \/ GiveUp(c) \/ Submit(c, "call") \/ Submit(c, "frame")
             \/ Overflow(c) \/ Farewell(c) \/ Kill(c) \/ ClientStep(c)
      PROVE  pc'[p] = pc[p] /\ down'[p] = down[p]
  BY <1>1, <1>2 DEF Typed, Start, Meet, GiveUp, Submit, Overflow, Farewell, Kill, ClientStep,
     TakeHello, TakeReply, TakeFrame, Disconnect, Leave, Goto, Send, Take, netVars
<1>3. CASE \/ Start(p) \/ Meet(p) \/ GiveUp(p) \/ Submit(p, "call") \/ Submit(p, "frame")
           \/ Overflow(p) \/ Farewell(p) \/ Kill(p) \/ ClientStep(p)
  BY <1>1, <1>3 DEF Waiting, Typed, Start, Meet, GiveUp, Submit, Overflow, Farewell, Kill,
     ClientStep, TakeHello, TakeReply, TakeFrame, Disconnect, Leave, Goto
<1>4. ASSUME NEW c \in Clients, Deliver(c)
      PROVE  pc'[p] = pc[p] /\ (down[p] # <<>> => down'[p] # <<>>)
  <2>1. CASE Accept(c)
    <3> DEFINE hello == [type |-> "hello", of |-> Event(c).req]
    <3>1. pc' = pc /\ down' = [down EXCEPT ![c] = Append(@, hello)] /\ down[p] \in Seq(Packets)
      BY <1>1, <2>1 DEF Accept, Typed, clientVars
    <3> HIDE DEF hello
    <3>2. Append(down[p], hello) # <<>>
      BY <3>1
    <3>. QED
      BY <1>1, <3>1, <3>2 DEF Typed
  <2>2. CASE Receive(c) \/ Ignore(c)
    BY <2>2 DEF Receive, Ignore, clientVars
  <2>. QED
    BY <1>4, <2>1, <2>2 DEF Deliver
<1>5. CASE EndRound \/ Run
  BY <1>5 DEF EndRound, Run, clientVars, netVars
<1>6. CASE Answer
  <2>1. pc' = pc /\ down' = [down EXCEPT ![peer] = @ \o Replies]
    BY <1>6 DEF Answer, EndLoop, clientVars
  <2>2. peer = p => down[p] = <<>>
    BY DEF IInv, ClientOK, Waiting, AtHello, AtReply, AtFrame, OnItsWay, InFifo, Overwritten,
       Answered, Silent
  <2>. QED
    BY <1>1, <2>1, <2>2 DEF Typed
<1>7. CASE UNCHANGED vars
  BY <1>7 DEF vars, clientVars, netVars
<1>. QED
  BY <1>2, <1>3, <1>4, <1>5, <1>6, <1>7 DEF Next, ServerStep

(* What the server has received stays in its fifo until it is run and      *)
(* answered, or the next buffer overwrites it                              *)
LEMMA BufferKept ==
  ASSUME NEW p \in Clients, IInv, peer = p, [Next]_vars
  PROVE  \/ peer' = p /\ spc' = spc
         \/ p \in lost'
         \/ EndRound \/ Run \/ Answer
<1>1. ready
  BY NoneAssumption DEF IInv, ServerOK, Typed
<1>2. ASSUME NEW c \in Clients,
             \/ Start(c) \/ Meet(c) \/ GiveUp(c) \/ Submit(c, "call") \/ Submit(c, "frame")
             \/ Overflow(c) \/ Farewell(c) \/ Kill(c) \/ ClientStep(c)
      PROVE  peer' = p /\ spc' = spc
  BY <1>2 DEF Start, Meet, GiveUp, Submit, Overflow, Farewell, Kill, ClientStep,
     TakeHello, TakeReply, TakeFrame, Disconnect, Leave, serverVars, takeVars
<1>3. ASSUME NEW c \in Clients, Deliver(c)
      PROVE  (peer' = p /\ spc' = spc) \/ p \in lost'
  BY <1>1, <1>3 DEF Deliver, Accept, Receive, Ignore, serverVars, takeVars
<1>4. CASE UNCHANGED vars
  BY <1>4 DEF vars, serverVars, takeVars
<1>. QED
  BY <1>2, <1>3, <1>4 DEF Next, ServerStep

(* Where a program that waits may be                                       *)
Sending(p) == Waiting(p) /\ up[p] # <<>>
Served(p, s) == Waiting(p) /\ peer = p /\ spc = s
Arrived(p, q) == pc[p] = q /\ down[p] # <<>>
Over(p) == ~Waiting(p) \/ p \in lost

(* Unless its buffer was lost, something of it is on the way, or the       *)
(* server has it, or the packet is there                                   *)
LEMMA WaiterSomewhere ==
  ASSUME NEW p \in Clients, IInv, LostInv
  PROVE  \/ Over(p) \/ Sending(p)
         \/ Served(p, "wait") \/ Served(p, "run") \/ Served(p, "answer")
         \/ Arrived(p, "hello") \/ Arrived(p, "reply") \/ Arrived(p, "frame")
<1>1. SUFFICES ASSUME Waiting(p), p \notin lost, up[p] = <<>>, down[p] = <<>>
               PROVE  peer = p
  BY DEF Over, Sending, Served, Arrived, Waiting, IInv, Typed
<1>2. ~Hangs(p)
  BY <1>1 DEF LostInv
<1>3. ClientOK(p)
  BY DEF IInv
<1>4. pc[p] # "hello"
  BY <1>1, <1>3, NonEmpty DEF ClientOK, AtHello, Sent
<1>5. pc[p] # "frame"
  BY <1>1, <1>3, NonEmpty DEF ClientOK, AtFrame
<1>. QED
  BY <1>1, <1>2, <1>4, <1>5 DEF Waiting, Hangs, Silent

(* A program waits with one buffer at most on its way                      *)
LEMMA DeliverTakes ==
  ASSUME NEW p \in Clients, IInv, Sending(p), Deliver(p)
  PROVE  up'[p] = <<>>
<1>1. ClientOK(p) /\ Typed
  BY DEF IInv
<1>2. CASE pc[p] = "hello"
  <2>1. up[p] = Sent(p, "connect")
    BY <1>1, <1>2 DEF Sending, ClientOK, AtHello
  <2>. QED
    BY <1>1, <2>1 DEF Sent, Deliver, Accept, Receive, Ignore, Arrives, Typed
<1>3. CASE pc[p] = "reply"
  <2>1. up[p] = Sent(p, "receive")
    BY <1>1, <1>3 DEF Sending, ClientOK, AtReply, OnItsWay, InFifo, Overwritten, Answered, Silent
  <2>. QED
    BY <1>1, <2>1 DEF Sent, Deliver, Accept, Receive, Ignore, Arrives, Typed
<1>4. pc[p] # "frame"
  BY <1>1 DEF Sending, ClientOK, AtFrame
<1>. QED
  BY <1>2, <1>3, <1>4 DEF Sending, Waiting

(* The steps of a program whose buffer the server has                      *)
LEMMA ServedSteps ==
  ASSUME NEW p \in Clients, IInv, Waiting(p), peer = p, [Next]_vars
  PROVE  /\ ~ServerStep => Over(p)' \/ (Waiting(p)' /\ peer' = p /\ spc' = spc)
         /\ ServerStep => \/ spc = "wait" /\ Served(p, "run")'
                          \/ spc = "run" /\ Served(p, "answer")'
                          \/ spc = "answer" /\ peer' = None /\ up'[p] = <<>>
<1>1. Silent(p)
  BY DEF IInv, ClientOK, Waiting, AtHello, AtReply, AtFrame, OnItsWay, InFifo, Overwritten,
     Answered
<1>2. CASE EndRound \/ Run
  BY <1>2 DEF ServerStep, EndRound, Run, Answer, EndLoop, takeVars, clientVars, Waiting, Served
<1>3. CASE Answer
  BY <1>1, <1>3 DEF ServerStep, Answer, EndLoop, Silent
<1>4. CASE ~ServerStep
  <2>1. (peer' = p /\ spc' = spc) \/ p \in lost'
    BY <1>4, BufferKept DEF ServerStep
  <2>. QED
    BY <1>4, <2>1 DEF Over
<1>. QED
  BY <1>2, <1>3, <1>4 DEF ServerStep

(* The steps of a program whose packet is there                            *)
LEMMA ArrivedSteps ==
  ASSUME NEW p \in Clients, IInv, IInv', Waiting(p), down[p] # <<>>, [Next]_vars
  PROVE  /\ \/ Over(p)'
            \/ pc'[p] = pc[p] /\ down'[p] # <<>>
            \/ pc[p] = "reply" /\ Arrived(p, "frame")'
         /\ ClientStep(p) => Over(p)' \/ (pc[p] = "reply" /\ Arrived(p, "frame")')
<1>1. pc'[p] = "frame" => down'[p] # <<>>
  BY NonEmpty DEF IInv, ClientOK, AtFrame
<1>2. ASSUME ClientStep(p)
      PROVE  (pc[p] = "reply" /\ pc'[p] = "frame") \/ ~Waiting(p)'
  BY <1>2 DEF ClientStep, TakeHello, TakeReply, TakeFrame, Disconnect, Leave, Goto, Waiting,
     IInv, Typed
<1>. QED
  <2>1. \/ ~Waiting(p)'
        \/ pc'[p] = pc[p] /\ down'[p] # <<>>
        \/ pc[p] = "reply" /\ pc'[p] = "frame"
    BY WaiterKeeps
  <2>2. pc[p] = "reply" /\ pc'[p] = "frame" => pc[p] = "reply" /\ Arrived(p, "frame")'
    BY <1>1 DEF Arrived
  <2>3. ~Waiting(p)' => Over(p)'
    BY DEF Over
  <2>. QED
    BY <1>2, <2>1, <2>2, <2>3

(* Fairness, taken apart for one program and for the server                *)
LEMMA FairAll == FairSpec => \A c \in Clients : ClientFair(c)
BY PTL DEF FairSpec

LEMMA FairClient ==
  ASSUME NEW p \in Clients
  PROVE  FairSpec => WF_vars(ClientStep(p)) /\ SF_vars(Deliver(p))
<1>1. FairSpec => ClientFair(p)
  BY FairAll
<1>. QED
  BY <1>1, PTL DEF ClientFair

LEMMA FairServer == FairSpec => Spec /\ WF_vars(ServerStep)
BY PTL DEF FairSpec

(* The server does not stay with a buffer                                  *)
LEMMA RoundsEnd == FairSpec /\ []NeverStuck => []<>(spc = "wait")
<1>1. IInv /\ spc = "run" /\ [Next]_vars => (spc = "run")' \/ (spc = "answer")'
  BY DEF Next, ServerStep, EndRound, Run, Answer, EndLoop, Deliver, Accept, Receive, Ignore,
     ClientStep, Start, Meet, GiveUp, Submit, Overflow, Farewell, Kill, TakeHello, TakeReply,
     TakeFrame, Disconnect, Leave, serverVars, vars
<1>2. spc = "run" /\ <<ServerStep>>_vars => (spc = "answer")'
  BY DEF ServerStep, EndRound, Run, Answer, EndLoop
<1>3. IInv /\ spc = "answer" /\ [Next]_vars => (spc = "answer")' \/ (spc = "wait")'
  BY DEF Next, ServerStep, EndRound, Run, Answer, EndLoop, Deliver, Accept, Receive, Ignore,
     ClientStep, Start, Meet, GiveUp, Submit, Overflow, Farewell, Kill, TakeHello, TakeReply,
     TakeFrame, Disconnect, Leave, serverVars, vars
<1>4. spc = "answer" /\ <<ServerStep>>_vars => (spc = "wait")'
  BY DEF ServerStep, EndRound, Run, Answer, EndLoop
<1>5. NeverStuck => /\ spc = "run" => ENABLED <<ServerStep>>_vars
                    /\ spc = "answer" => ENABLED <<ServerStep>>_vars
  BY DEF NeverStuck
<1>6. IInv => spc = "wait" \/ spc = "run" \/ spc = "answer"
  BY DEF IInv, Typed
<1>7. FairSpec /\ []NeverStuck => ((spc = "run") ~> (spc = "answer"))
  BY <1>1, <1>2, <1>5, SpecInv, FairServer, PTL DEF Spec
<1>8. FairSpec /\ []NeverStuck => ((spc = "answer") ~> (spc = "wait"))
  BY <1>3, <1>4, <1>5, SpecInv, FairServer, PTL DEF Spec
<1>. QED
  BY <1>6, <1>7, <1>8, SpecInv, FairServer, PTL

(* AnsweredUnlessLost, for one program                                     *)
Answers(p) == (Waiting(p) ~> ~Waiting(p) \/ p \in lost)
LEMMA OneIsAnswered ==
  ASSUME NEW p \in Clients
  PROVE  FairSpec /\ []NeverStuck => Answers(p)
<1>1. IInv /\ LostInv =>
        \/ Over(p) \/ Sending(p)
        \/ Served(p, "wait") \/ Served(p, "run") \/ Served(p, "answer")
        \/ Arrived(p, "hello") \/ Arrived(p, "reply") \/ Arrived(p, "frame")
  BY WaiterSomewhere
<1>2. IInv /\ Sending(p) /\ <<Deliver(p)>>_vars => ~Sending(p)'
  BY DeliverTakes DEF Sending
<1>3. /\ IInv /\ Served(p, "wait") /\ [Next]_vars => Over(p)' \/ Served(p, "wait")' \/ Served(p, "run")'
      /\ IInv /\ Served(p, "wait") /\ [Next]_vars /\ <<ServerStep>>_vars => Over(p)' \/ Served(p, "run")'
      /\ IInv /\ Served(p, "run") /\ [Next]_vars => Over(p)' \/ Served(p, "run")' \/ Served(p, "answer")'
      /\ IInv /\ Served(p, "run") /\ [Next]_vars /\ <<ServerStep>>_vars => Over(p)' \/ Served(p, "answer")'
  BY ServedSteps DEF Served
<1>4. ASSUME IInv, Served(p, "answer"), [Next]_vars
      PROVE  /\ \/ Over(p)' \/ Served(p, "answer")'
                \/ ~Sending(p)' /\ ~Served(p, "wait")' /\ ~Served(p, "run")'
             /\ <<ServerStep>>_vars =>
                   \/ Over(p)'
                   \/ /\ ~Sending(p)' /\ ~Served(p, "wait")' /\ ~Served(p, "run")'
                      /\ ~Served(p, "answer")'
  BY <1>4, ServedSteps, NoneAssumption DEF Served, Sending
<1>5. /\ IInv /\ IInv' /\ Arrived(p, "hello") /\ [Next]_vars => Over(p)' \/ Arrived(p, "hello")'
      /\ IInv /\ IInv' /\ Arrived(p, "hello") /\ [Next]_vars /\ <<ClientStep(p)>>_vars => Over(p)'
      /\ IInv /\ IInv' /\ Arrived(p, "frame") /\ [Next]_vars => Over(p)' \/ Arrived(p, "frame")'
      /\ IInv /\ IInv' /\ Arrived(p, "frame") /\ [Next]_vars /\ <<ClientStep(p)>>_vars => Over(p)'
      /\ IInv /\ IInv' /\ Arrived(p, "reply") /\ [Next]_vars
           => Over(p)' \/ Arrived(p, "reply")' \/ Arrived(p, "frame")'
      /\ IInv /\ IInv' /\ Arrived(p, "reply") /\ [Next]_vars /\ <<ClientStep(p)>>_vars
           => Over(p)' \/ Arrived(p, "frame")'
  <2>1. \A q \in {"hello", "reply", "frame"} : Arrived(p, q) => Waiting(p)
    BY DEF Arrived, Waiting
  <2>. QED
    BY <2>1, ArrivedSteps DEF Arrived
<1>6. NeverStuck =>
        /\ spc = "wait" /\ Sending(p) => ENABLED <<Deliver(p)>>_vars
        /\ Arrived(p, "hello") => ENABLED <<ClientStep(p)>>_vars
        /\ Arrived(p, "reply") => ENABLED <<ClientStep(p)>>_vars
        /\ Arrived(p, "frame") => ENABLED <<ClientStep(p)>>_vars
  <2>1. NeverStuck => GoesOn(p)
    BY DEF NeverStuck
  <2>. QED
    BY <2>1 DEF GoesOn, Sending, Arrived, Waiting
<1>7. NeverStuck /\ IInv =>
        /\ Served(p, "wait") => ENABLED <<ServerStep>>_vars
        /\ Served(p, "run") => ENABLED <<ServerStep>>_vars
        /\ Served(p, "answer") => ENABLED <<ServerStep>>_vars
  BY NoneAssumption DEF NeverStuck, Served, IInv, ServerOK, Typed
<1>8. Over(p) <=> ~Waiting(p) \/ p \in lost
  BY DEF Over
<1>. QED
  BY <1>1, <1>2, <1>3, <1>4, <1>5, <1>6, <1>7, <1>8, SpecLost, RoundsEnd, FairClient, FairServer,
     PTL DEF Spec, Answers

(* Whoever waits for a packet gets it, unless a second event of the same   *)
(* wait_net overwrote its buffer: ENet delivers it some day, the server    *)
(* runs it, and net_send_packet answers. NeverStuck, which TLC checks,     *)
(* says what is enabled on the way.                                        *)
THEOREM NetAnswers == FairSpec /\ []NeverStuck => AnsweredUnlessLost
<1>1. FairSpec /\ []NeverStuck => \A c \in Clients : Answers(c)
  BY OneIsAnswered
<1>2. (\A c \in Clients : Answers(c)) => AnsweredUnlessLost
  BY DEF AnsweredUnlessLost, Answers
<1>. QED
  BY <1>1, <1>2
=============================================================================
