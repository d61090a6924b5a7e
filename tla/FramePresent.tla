---------------------------- MODULE FramePresent ----------------------------
(***************************************************************************)
(* How a frame gets onto the screen.  The server renders in hidden windows *)
(* and reads every frame back into one framebuffer at the end of the       *)
(* shared memory, whichever program asked for it; the program copies it    *)
(* from there into its own window.                                         *)
(*   programs  glXSwapBuffers in src/client/platform/glx.c (DrvSwapBuffers *)
(*             in windrv.c does the same), glimpl_swap_buffers in glimpl.c *)
(*   server    SWAP_BUFFERS in src/server/processor.c, sgl_read_pixels in  *)
(*             src/server/context.c                                        *)
(*                                                                         *)
(* Buffers are handed over by the actions of RenderService, which          *)
(* ShmTransport implements.  The framebuffer is written and read line by   *)
(* line, as both sides run at the same time in shared memory.  The overlay *)
(* is left out: it draws into the same lines within the same command.      *)
(***************************************************************************)
EXTENDS Integers

CONSTANTS Clients,     \* the programs
          Height,      \* the lines of a frame
          Vflip,       \* whether the server is asked to turn the frame over
          MayCrash,    \* the programs that may be killed
          NoResult,    \* a zeroed RETVAL
          NoFrame      \* what the framebuffer holds before the first frame

ASSUME HeightAssumption == Height \in Nat \ {0}
ASSUME VflipAssumption == Vflip \in BOOLEAN
ASSUME CrashAssumption == MayCrash \subseteq Clients

VARIABLES
  phase, req, got,     \* the state of RenderService
  swapLock,            \* SGL_OFFSET_REGISTER_SWAP_BUFFERS_SYNC
  fb,                  \* the framebuffer at SGL_OFFSET_REGISTER_FBSTART
  pending,             \* the programs whose swap is handed over and not begun
  spc,                 \* what the server does with the framebuffer
  who,                 \* the program it does that for
  line,                \* the next line it does
  ppc,                 \* where each program is in glXSwapBuffers
  next,                \* the next line its XPutImage copies
  shown                \* its window

Service == INSTANCE RenderService

serviceVars == <<phase, req, got>>
serverVars == <<fb, spc, who, line>>
windowVars == <<next, shown>>
vars == <<serviceVars, swapLock, pending, serverVars, ppc, windowVars>>

ASSUME NoResultAssumption == NoResult \notin Service!Requests

Lines == 1..Height
(* A line of a frame: whose swap it was read for and its place in the      *)
(* image, counted from the top.                                            *)
Pixels == [of : Service!Requests, place : Lines]
Mirror(i) == Height + 1 - i
Blank == [i \in Lines |-> NoFrame]

Init ==
  /\ Service!Init
  /\ swapLock = 0 /\ fb = Blank /\ pending = {}
  /\ spc = "idle" /\ who \in Clients /\ line = 1
  /\ ppc = [c \in Clients |-> "draw"]
  /\ next = [c \in Clients |-> 1] /\ shown = [c \in Clients |-> Blank]

Goto(c, from, to) ==
  phase[c] # "dead" /\ ppc[c] = from /\ ppc' = [ppc EXCEPT ![c] = to]

-----------------------------------------------------------------------------
(* The program: glXSwapBuffers                                             *)

(* spin_lock(swap_sync_lock), between two calls *)
SwapLock(c) ==
  /\ Goto(c, "draw", "submit")
  /\ phase[c] = "idle"
  /\ swapLock = 0 /\ swapLock' = 1
  /\ UNCHANGED <<serviceVars, pending, serverVars, windowVars>>

(* The commands since the last submit, closed by SWAP_BUFFERS *)
SwapSubmit(c) ==
  /\ Goto(c, "submit", "wait")
  /\ Service!Ask(c, "call")
  /\ pending' = pending \cup {c}
  /\ UNCHANGED <<swapLock, serverVars, windowVars>>

(* They overflow the push buffer, which is dropped *)
SwapDropped(c) ==
  /\ Goto(c, "submit", "wait")
  /\ Service!AskRefused(c)
  /\ UNCHANGED <<swapLock, pending, serverVars, windowVars>>

(* Faulty variant: the framebuffer is given up once the server is done *)
SwapReturnUnlocks(c) ==
  /\ Goto(c, "wait", "put")
  /\ Service!GetResult(c) \/ Service!GetRefused(c)
  /\ next' = [next EXCEPT ![c] = 1]
  /\ swapLock' = 0
  /\ UNCHANGED <<pending, serverVars, shown>>

(* glimpl_submit returns *)
SwapReturn(c) ==
  /\ Goto(c, "wait", "put")
  /\ Service!GetResult(c) \/ Service!GetRefused(c)
  /\ next' = [next EXCEPT ![c] = 1]
  /\ UNCHANGED <<swapLock, pending, serverVars, shown>>

(* XPutImage copies a line of the framebuffer into the window *)
PutLine(c) ==
  /\ Goto(c, "put", IF next[c] = Height THEN "unlock" ELSE "put")
  /\ shown' = [shown EXCEPT ![c][next[c]] = fb[next[c]]]
  /\ next' = [next EXCEPT ![c] = IF @ = Height THEN 1 ELSE @ + 1]
  /\ UNCHANGED <<serviceVars, swapLock, pending, serverVars>>

(* spin_unlock(swap_sync_lock) *)
SwapUnlock(c) ==
  /\ Goto(c, "unlock", "draw")
  /\ swapLock' = 0
  /\ UNCHANGED <<serviceVars, pending, serverVars, windowVars>>

(* Every other use of the library, from the first call to the last *)
OtherCall(c) ==
  /\ ppc[c] = "draw"
  /\ \/ \E k \in Service!Kinds : Service!Ask(c, k)
     \/ Service!AskRefused(c) \/ Service!GetResult(c)
     \/ Service!GetRefused(c) \/ Service!Leave(c)
  /\ UNCHANGED <<swapLock, pending, serverVars, ppc, windowVars>>

(* The program is killed where it stands *)
Crash(c) ==
  /\ c \in MayCrash /\ phase[c] # "dead"
  /\ Service!Die(c)
  /\ UNCHANGED <<swapLock, pending, serverVars, ppc, windowVars>>

-----------------------------------------------------------------------------
(* The server runs one buffer at a time                                    *)

RunOther(c) ==
  /\ spc = "idle" /\ ppc[c] = "draw"
  /\ Service!Run(c)
  /\ UNCHANGED <<swapLock, pending, serverVars, ppc, windowVars>>

SwapBegin(c) ==
  /\ spc = "idle" /\ spc' = "read"
  /\ c \in pending /\ pending' = pending \ {c}
  /\ who' = c /\ line' = 1
  /\ UNCHANGED <<serviceVars, swapLock, fb, ppc, windowVars>>

(* glReadPixels delivers the lowest line first *)
ReadLine ==
  /\ spc = "read"
  /\ fb' = [fb EXCEPT ![line] = [of |-> req[who], place |-> Mirror(line)]]
  /\ IF line < Height
       THEN line' = line + 1 /\ UNCHANGED spc
       ELSE line' = 1 /\ spc' = "flip"
  /\ UNCHANGED <<serviceVars, swapLock, pending, who, ppc, windowVars>>

(* Faulty variant: one round too many, which turns two lines back *)
FlipLineTooFar ==
  /\ spc = "flip" /\ Vflip /\ line <= Height \div 2 + 1
  /\ fb' = [fb EXCEPT ![line] = fb[Mirror(line)], ![Mirror(line)] = fb[line]]
  /\ line' = line + 1
  /\ UNCHANGED <<serviceVars, swapLock, pending, spc, who, ppc, windowVars>>

(* One round of the loop that exchanges the upper and the lower half *)
FlipLine ==
  /\ spc = "flip" /\ Vflip /\ line <= Height \div 2
  /\ fb' = [fb EXCEPT ![line] = fb[Mirror(line)], ![Mirror(line)] = fb[line]]
  /\ line' = line + 1
  /\ UNCHANGED <<serviceVars, swapLock, pending, spc, who, ppc, windowVars>>

(* The end of the buffer: it is answered, if its sender still lives *)
SwapEnd ==
  /\ spc = "flip" /\ spc' = "idle"
  /\ ~Vflip \/ line > Height \div 2
  /\ line' = 1
  /\ IF phase[who] = "dead" THEN UNCHANGED serviceVars ELSE Service!Run(who)
  /\ UNCHANGED <<swapLock, fb, pending, who, ppc, windowVars>>

ProgramStep(c) ==
  \/ SwapLock(c) \/ SwapSubmit(c) \/ SwapDropped(c) \/ SwapReturn(c)
  \/ PutLine(c) \/ SwapUnlock(c) \/ OtherCall(c) \/ Crash(c)

ServerStep ==
  \/ \E c \in Clients : RunOther(c) \/ SwapBegin(c)
  \/ ReadLine \/ FlipLine \/ SwapEnd

Next == (\E c \in Clients : ProgramStep(c)) \/ ServerStep

Spec == Init /\ [][Next]_vars

-----------------------------------------------------------------------------
(* Every variable has its type: the framebuffer and the windows hold lines *)
(* of frames, the loops stay within them.                                  *)
ServiceTypeOK ==
  /\ phase \in [Clients -> {"closed", "idle", "asked", "refused", "done",
                            "dead"}]
  /\ req \in [Clients -> Service!Requests]
  /\ got \in [Clients -> Service!Requests \cup {NoResult}]
TypeOK ==
  /\ ServiceTypeOK
  /\ swapLock \in {0, 1}
  /\ fb \in [Lines -> Pixels \cup {NoFrame}]
  /\ pending \subseteq Clients
  /\ spc \in {"idle", "read", "flip"} /\ who \in Clients
  /\ line \in 1..(Height + 1)
  /\ ppc \in [Clients -> {"draw", "submit", "wait", "put", "unlock"}]
  /\ next \in [Clients -> Lines]
  /\ shown \in [Clients -> [Lines -> Pixels \cup {NoFrame}]]

(* The whole frame of the swap r, as sgl_read_pixels leaves it             *)
Picture(r) ==
  [i \in Lines |-> [of |-> r, place |-> IF Vflip THEN i ELSE Mirror(i)]]

(* A swap the server ran ends with the program's window showing the frame  *)
(* of that very swap, every line in its place: no line of another          *)
(* program's frame, none of an earlier one, none not yet turned over.      *)
ShownIsOwn ==
  \A c \in Clients :
    ppc[c] = "unlock" /\ got[c] # NoResult => shown[c] = Picture(req[c])

(* A swap that was dropped shows an old frame, possibly another program's, *)
(* but a whole one.                                                        *)
ShownIsWhole ==
  \A c \in Clients :
    ppc[c] = "unlock" =>
      \/ shown[c] = Blank
      \/ \E d \in Clients, k \in Service!Kinds, b \in {0, 1} :
           shown[c] = Picture([from |-> d, kind |-> k, bit |-> b])

(* Nobody copies from the framebuffer while the server writes it, and the  *)
(* program the server writes it for is the one that holds the swap lock.   *)
FramebufferExclusive ==
  /\ spc # "idle" => ppc[who] = "wait" /\ swapLock = 1
  /\ \A c, d \in Clients : ppc[c] # "draw" /\ ppc[d] # "draw" => c = d
=============================================================================
