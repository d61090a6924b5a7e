--------------------------- MODULE RenderService ---------------------------
(***************************************************************************)
(* What the transport of SharedGL promises to an OpenGL program.           *)
(*                                                                         *)
(* A program opens a session, then hands over one command buffer at a time *)
(* (glimpl_submit) and blocks until it gets the value the server computed  *)
(* for that very buffer.  The server runs every accepted buffer exactly    *)
(* once; a buffer that does not fit is refused: it is not run and its      *)
(* result is the zero value.  Nothing is said here of how a buffer reaches *)
(* the server: ShmTransport is one implementation.                         *)
(***************************************************************************)
EXTENDS Integers

CONSTANTS Clients,      \* the programs
          NoResult      \* the zeroed return registers

Kinds == {"create", "call", "goodbye"}

(* A command buffer; bit tells two consecutive buffers of a client apart.  *)
Requests == [from : Clients, kind : Kinds, bit : {0, 1}]

VARIABLES phase,        \* phase[c]: where c is in its current call
          req,          \* req[c]: the latest buffer of c that was accepted
          got           \* got[c]: the value its latest call returned, NoResult before

vars == <<phase, req, got>>

Init == /\ phase = [c \in Clients |-> "closed"]
        /\ req = [c \in Clients |-> [from |-> c, kind |-> "goodbye", bit |-> 0]]
        /\ got = [c \in Clients |-> NoResult]

(* The first buffer of a session is "create"; no other buffer is.          *)
Ask(c, k) ==
  /\ phase[c] = IF k = "create" THEN "closed" ELSE "idle"
  /\ phase' = [phase EXCEPT ![c] = "asked"]
  /\ req' = [req EXCEPT ![c] = [from |-> c, kind |-> k, bit |-> 1 - @.bit]]
  /\ got' = [got EXCEPT ![c] = NoResult]

(* The server runs the buffer: only once, phase "asked" is left for good.  *)
Run(c) ==
  /\ phase[c] = "asked"
  /\ phase' = [phase EXCEPT ![c] = "done"]
  /\ UNCHANGED <<req, got>>

(* An oversized buffer never reaches the server.                           *)
AskRefused(c) ==
  /\ phase[c] = "idle"
  /\ phase' = [phase EXCEPT ![c] = "refused"]
  /\ got' = [got EXCEPT ![c] = NoResult]
  /\ UNCHANGED req

GetResult(c) ==
  /\ phase[c] = "done"
  /\ req[c].kind # "goodbye"
  /\ phase' = [phase EXCEPT ![c] = "idle"]
  /\ got' = [got EXCEPT ![c] = req[c]]
  /\ UNCHANGED req

GetRefused(c) ==
  /\ phase[c] = "refused"
  /\ phase' = [phase EXCEPT ![c] = "idle"]
  /\ got' = [got EXCEPT ![c] = NoResult]
  /\ UNCHANGED req

Leave(c) ==
  /\ phase[c] = "done"
  /\ req[c].kind = "goodbye"
  /\ phase' = [phase EXCEPT ![c] = "closed"]
  /\ UNCHANGED <<req, got>>

(* The program dies; its last buffer may or may not be run afterwards.     *)
Die(c) ==
  /\ phase' = [phase EXCEPT ![c] = "dead"]
  /\ UNCHANGED <<req, got>>

Next == \E c \in Clients :
          \/ \E k \in Kinds : Ask(c, k)
          \/ AskRefused(c) \/ Run(c)
          \/ GetResult(c) \/ GetRefused(c) \/ Leave(c) \/ Die(c)

Spec == Init /\ [][Next]_vars
=============================================================================
