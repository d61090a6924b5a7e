------------------------- MODULE FramePresentProofs -------------------------
(***************************************************************************)
(* What a program shows is its own frame, for any number of programs, any  *)
(* height and with programs killed anywhere.                               *)
(***************************************************************************)
EXTENDS FramePresent, TLAPS

(* The swap lock is held by the one program that is in glXSwapBuffers      *)
LockInv ==
  /\ \A c \in Clients : ppc[c] # "draw" => swapLock = 1
  /\ \A c, d \in Clients : ppc[c] # "draw" /\ ppc[d] # "draw" => c = d

(* Where its swap is, seen from the service and from the server            *)
PhaseInv ==
  /\ \A c \in Clients :
       /\ ppc[c] \in {"submit", "put", "unlock"} => phase[c] \in {"idle", "dead"}
       /\ ppc[c] = "wait" => phase[c] \in {"asked", "done", "refused", "dead"}
       /\ c \in pending => ppc[c] = "wait" /\ phase[c] \in {"asked", "dead"}
  /\ spc # "idle" =>
       /\ ppc[who] = "wait" /\ phase[who] \in {"asked", "dead"}
       /\ who \notin pending

IsPicture(f) == f = Blank \/ \E r \in Service!Requests : f = Picture(r)

(* What is in the framebuffer before, while and after the server fills it  *)
Turned(i) == Vflip /\ (i < line \/ Mirror(i) < line)
FrameInv ==
  /\ spc = "idle" => IsPicture(fb)
  /\ spc = "read" =>
       /\ line <= Height
       /\ \A i \in Lines :
            i < line => fb[i] = [of |-> req[who], place |-> Mirror(i)]
  /\ spc = "flip" =>
       /\ line <= Height \div 2 + 1
       /\ \A i \in Lines :
            fb[i] = [of |-> req[who],
                     place |-> IF Turned(i) THEN i ELSE Mirror(i)]
  /\ \A c \in Clients :
       ppc[c] = "wait" /\ phase[c] = "done" => spc = "idle" /\ fb = Picture(req[c])

(* What the program has copied so far                                      *)
WindowInv ==
  \A c \in Clients :
    /\ ppc[c] \in {"put", "unlock"} /\ got[c] # NoResult => fb = Picture(req[c])
    /\ ppc[c] = "put" => \A i \in Lines : i < next[c] => shown[c][i] = fb[i]
    /\ ppc[c] = "unlock" => shown[c] = fb

FrameIInv == TypeOK /\ LockInv /\ PhaseInv /\ FrameInv /\ WindowInv
-----------------------------------------------------------------------------
LEMMA MirrorFacts ==
  /\ \A i \in Lines : Mirror(i) \in Lines /\ Mirror(Mirror(i)) = i
  /\ \A i, j \in Lines : Mirror(i) = j <=> i = Mirror(j)
  /\ Height \div 2 \in Nat /\ 2 * (Height \div 2) <= Height
  /\ Height < 2 * (Height \div 2) + 2
  BY HeightAssumption DEF Lines, Mirror

LEMMA FrameInit == Init => FrameIInv
<1> SUFFICES ASSUME Init PROVE FrameIInv
  OBVIOUS
<1> USE DEF Init, Service!Init
<1>1. TypeOK
  BY HeightAssumption DEF TypeOK, ServiceTypeOK, Blank, Lines, Service!Requests, Service!Kinds
<1>2. LockInv /\ PhaseInv
  BY DEF LockInv, PhaseInv
<1>3. FrameInv /\ WindowInv
  BY DEF FrameInv, WindowInv, IsPicture
<1>. QED
  BY <1>1, <1>2, <1>3 DEF FrameIInv

(* The steps of the service keep its types                                 *)
LEMMA ServiceTypeStep ==
  ASSUME ServiceTypeOK, NEW c \in Clients,
         \/ \E k \in Service!Kinds : Service!Ask(c, k)
         \/ Service!AskRefused(c) \/ Service!Run(c) \/ Service!GetResult(c)
         \/ Service!GetRefused(c) \/ Service!Leave(c) \/ Service!Die(c)
  PROVE  ServiceTypeOK'
<1> USE DEF ServiceTypeOK
<1>1. ASSUME NEW k \in Service!Kinds, Service!Ask(c, k) PROVE ServiceTypeOK'
  <2>1. req[c].bit \in {0, 1}
    BY DEF Service!Requests
  <2>2. [from |-> c, kind |-> k, bit |-> 1 - req[c].bit] \in Service!Requests
    BY <2>1 DEF Service!Requests
  <2>3. req' \in [Clients -> Service!Requests]
    BY <1>1, <2>2 DEF Service!Ask
  <2>. QED
    BY <1>1, <2>3 DEF Service!Ask
<1>2. CASE Service!GetResult(c)
  BY <1>2 DEF Service!GetResult
<1>3. CASE \/ Service!AskRefused(c) \/ Service!Run(c) \/ Service!GetRefused(c)
           \/ Service!Leave(c) \/ Service!Die(c)
  BY <1>3 DEF Service!AskRefused, Service!Run, Service!GetRefused,
              Service!Leave, Service!Die
<1>. QED
  BY <1>1, <1>2, <1>3

(* Every variable keeps its type                                           *)
LEMMA TypeStep ==
  ASSUME TypeOK, FrameInv, Next
  PROVE  TypeOK'
<1> USE HeightAssumption, MirrorFacts
<1> USE DEF TypeOK, Goto, Lines, serverVars, windowVars
<1>0. UNCHANGED serviceVars => ServiceTypeOK'
  BY DEF ServiceTypeOK, serviceVars
<1>1. ASSUME NEW c \in Clients, ProgramStep(c) PROVE TypeOK'
  <2>1. CASE SwapLock(c)
    BY <1>0, <2>1 DEF SwapLock
  <2>2. CASE SwapSubmit(c)
    BY <1>0, <2>2, ServiceTypeStep DEF SwapSubmit, Service!Kinds
  <2>3. CASE SwapDropped(c)
    BY <1>0, <2>3, ServiceTypeStep DEF SwapDropped
  <2>4. CASE SwapReturn(c)
    BY <1>0, <2>4, ServiceTypeStep DEF SwapReturn
  <2>5. CASE PutLine(c)
    BY <1>0, <2>5 DEF PutLine
  <2>6. CASE SwapUnlock(c)
    BY <1>0, <2>6 DEF SwapUnlock
  <2>7. CASE OtherCall(c)
    BY <1>0, <2>7, ServiceTypeStep DEF OtherCall
  <2>8. CASE Crash(c)
    BY <1>0, <2>8, ServiceTypeStep DEF Crash
  <2>. QED
    BY <1>1, <2>1, <2>2, <2>3, <2>4, <2>5, <2>6, <2>7, <2>8 DEF ProgramStep
<1>2. CASE ServerStep
  <2>1. ASSUME NEW c \in Clients, RunOther(c) PROVE TypeOK'
    BY <1>0, <2>1, ServiceTypeStep DEF RunOther
  <2>2. ASSUME NEW c \in Clients, SwapBegin(c) PROVE TypeOK'
    BY <1>0, <2>2 DEF SwapBegin
  <2>3. CASE ReadLine
    <3>1. line \in Lines /\ req[who] \in Service!Requests
      BY <2>3 DEF ReadLine, FrameInv, ServiceTypeOK
    <3>2. [of |-> req[who], place |-> Mirror(line)] \in Pixels
      BY <3>1 DEF Pixels
    <3>3. fb' \in [Lines -> Pixels \cup {NoFrame}]
      BY <2>3, <3>2 DEF ReadLine
    <3>4. line' \in 1..(Height + 1) /\ spc' \in {"idle", "read", "flip"}
      BY <2>3, <3>1 DEF ReadLine
    <3>. QED
      BY <1>0, <2>3, <3>3, <3>4 DEF ReadLine
  <2>4. CASE FlipLine
    <3>1. line \in Lines /\ line' \in 1..(Height + 1)
      BY <2>4 DEF FlipLine
    <3>2. fb' \in [Lines -> Pixels \cup {NoFrame}]
      BY <2>4, <3>1 DEF FlipLine
    <3>. QED
      BY <1>0, <2>4, <3>1, <3>2 DEF FlipLine
  <2>5. CASE SwapEnd
    BY <1>0, <2>5, ServiceTypeStep DEF SwapEnd
  <2>. QED
    BY <1>2, <2>1, <2>2, <2>3, <2>4, <2>5 DEF ServerStep
<1>. QED
  BY <1>1, <1>2 DEF Next

(* The lock keeps the others out, and the server works for its holder      *)
LEMMA LockStep ==
  ASSUME TypeOK, LockInv, PhaseInv, Next
  PROVE  LockInv' /\ PhaseInv'
<1> USE DEF TypeOK, ServiceTypeOK, LockInv, PhaseInv, Goto, serviceVars, serverVars, windowVars
<1>1. ASSUME NEW c \in Clients, ProgramStep(c) PROVE LockInv' /\ PhaseInv'
  <2>1. CASE SwapLock(c)
    BY <2>1 DEF SwapLock
  <2>2. CASE SwapSubmit(c)
    BY <2>2 DEF SwapSubmit, Service!Ask
  <2>3. CASE SwapDropped(c)
    BY <2>3 DEF SwapDropped, Service!AskRefused
  <2>4. CASE SwapReturn(c)
    BY <2>4 DEF SwapReturn, Service!GetResult, Service!GetRefused
  <2>5. CASE PutLine(c)
    BY <2>5 DEF PutLine
  <2>6. CASE SwapUnlock(c)
    BY <2>6 DEF SwapUnlock
  <2>7. CASE OtherCall(c)
    <3>1. /\ ppc[c] = "draw" /\ UNCHANGED <<swapLock, pending, serverVars, ppc, windowVars>>
          /\ \/ \E k \in Service!Kinds : Service!Ask(c, k)
             \/ Service!AskRefused(c) \/ Service!GetResult(c)
             \/ Service!GetRefused(c) \/ Service!Leave(c)
      BY <2>7 DEF OtherCall
    <3>2. CASE \E k \in Service!Kinds : Service!Ask(c, k)
      BY <3>1, <3>2 DEF Service!Ask
    <3>3. CASE Service!AskRefused(c)
      BY <3>1, <3>3 DEF Service!AskRefused
    <3>4. CASE Service!GetResult(c)
      BY <3>1, <3>4 DEF Service!GetResult
    <3>5. CASE Service!GetRefused(c)
      BY <3>1, <3>5 DEF Service!GetRefused
    <3>6. CASE Service!Leave(c)
      BY <3>1, <3>6 DEF Service!Leave
    <3>. QED
      BY <3>1, <3>2, <3>3, <3>4, <3>5, <3>6
  <2>8. CASE Crash(c)
    BY <2>8 DEF Crash, Service!Die
  <2>. QED
    BY <1>1, <2>1, <2>2, <2>3, <2>4, <2>5, <2>6, <2>7, <2>8 DEF ProgramStep
<1>2. CASE ServerStep
  <2>1. ASSUME NEW c \in Clients, RunOther(c) PROVE LockInv' /\ PhaseInv'
    BY <2>1 DEF RunOther, Service!Run
  <2>2. ASSUME NEW c \in Clients, SwapBegin(c) PROVE LockInv' /\ PhaseInv'
    BY <2>2 DEF SwapBegin
  <2>3. CASE ReadLine
    BY <2>3 DEF ReadLine
  <2>4. CASE FlipLine
    BY <2>4 DEF FlipLine
  <2>5. CASE SwapEnd
    BY <2>5 DEF SwapEnd, Service!Run
  <2>. QED
    BY <1>2, <2>1, <2>2, <2>3, <2>4, <2>5 DEF ServerStep
<1>. QED
  BY <1>1, <1>2 DEF Next

(* A step of a program leaves the framebuffer alone                        *)
LEMMA FrameProgramStep ==
  ASSUME FrameIInv, NEW c \in Clients, ProgramStep(c)
  PROVE  FrameInv'
<1> USE DEF FrameIInv, TypeOK, ServiceTypeOK, LockInv, PhaseInv, Goto, serviceVars, serverVars,
            windowVars
<1>1. UNCHANGED serverVars
  BY DEF ProgramStep, SwapLock, SwapSubmit, SwapDropped, SwapReturn, PutLine,
         SwapUnlock, OtherCall, Crash
<1>2. spc # "idle" => req'[who] = req[who]
  BY DEF ProgramStep, SwapLock, SwapSubmit, SwapDropped, SwapReturn, PutLine,
         SwapUnlock, OtherCall, Crash, Service!Ask, Service!AskRefused,
         Service!GetResult, Service!GetRefused, Service!Leave, Service!Die
<1>3. \A d \in Clients :
        ppc'[d] = "wait" /\ phase'[d] = "done" =>
          ppc[d] = "wait" /\ phase[d] = "done" /\ req'[d] = req[d]
  BY DEF ProgramStep, SwapLock, SwapSubmit, SwapDropped, SwapReturn, PutLine,
         SwapUnlock, OtherCall, Crash, Service!Ask, Service!AskRefused,
         Service!GetResult, Service!GetRefused, Service!Leave, Service!Die
<1>. QED
  BY <1>1, <1>2, <1>3 DEF FrameInv, IsPicture, Turned, Picture

(* The server's loops: the lines read so far, then the lines turned so far *)
LEMMA FrameServerStep ==
  ASSUME FrameIInv, ServerStep
  PROVE  FrameInv'
<1> USE HeightAssumption, MirrorFacts
<1> USE DEF FrameIInv, TypeOK, ServiceTypeOK, serviceVars, serverVars, windowVars
<1>1. ASSUME NEW c \in Clients, RunOther(c) PROVE FrameInv'
  BY <1>1 DEF RunOther, Service!Run, FrameInv, IsPicture
<1>2. ASSUME NEW c \in Clients, SwapBegin(c) PROVE FrameInv'
  <2>1. \A d \in Clients : ~(ppc[d] = "wait" /\ phase[d] = "done")
    BY <1>2 DEF SwapBegin, LockInv, PhaseInv
  <2>2. spc' = "read" /\ line' = 1 /\ ppc' = ppc /\ phase' = phase
    BY <1>2 DEF SwapBegin
  <2>3. \A i \in Lines : ~(i < 1)
    BY DEF Lines
  <2>. QED
    BY <2>1, <2>2, <2>3 DEF FrameInv
<1>3. CASE ReadLine
  <2>1. \A i \in Lines :
          i <= line => fb'[i] = [of |-> req[who], place |-> Mirror(i)]
    BY <1>3 DEF ReadLine, FrameInv, Lines
  <2>2. \A d \in Clients : ~(ppc[d] = "wait" /\ phase[d] = "done")
    BY <1>3 DEF ReadLine, FrameInv
  <2>3. CASE line < Height
    BY <1>3, <2>1, <2>2, <2>3 DEF ReadLine, FrameInv, Lines
  <2>4. CASE line >= Height
    <3>1. \A i \in Lines : ~Turned(i)'
      BY <1>3, <2>4 DEF ReadLine, Turned, Lines, Mirror
    <3>2. \A i \in Lines : fb'[i] = [of |-> req[who], place |-> Mirror(i)]
      BY <2>1, <2>4 DEF Lines
    <3>. QED
      BY <1>3, <2>2, <2>4, <3>1, <3>2 DEF ReadLine, FrameInv
  <2>. QED
    BY <2>3, <2>4
<1>4. CASE FlipLine
  <2>1. PICK y \in Lines : y = line
    BY <1>4 DEF FlipLine, Lines
  <2>2. Mirror(y) # y /\ Mirror(y) \in Lines
    BY <1>4, <2>1 DEF FlipLine, Lines, Mirror
  <2>3. /\ fb'[y] = fb[Mirror(y)] /\ fb'[Mirror(y)] = fb[y]
        /\ \A i \in Lines \ {y, Mirror(y)} : fb'[i] = fb[i]
    BY <1>4, <2>1, <2>2 DEF FlipLine
  <2>4. ~Turned(y) /\ ~Turned(Mirror(y))
    BY <1>4, <2>1 DEF FlipLine, Turned, Lines, Mirror
  <2>5. line' = y + 1 /\ Vflip
    BY <1>4, <2>1 DEF FlipLine
  <2>6. Turned(y)' /\ Turned(Mirror(y))'
    BY <2>1, <2>5 DEF Turned, Lines, Mirror
  <2>7. \A i \in Lines \ {y, Mirror(y)} : Turned(i)' <=> Turned(i)
    BY <2>1, <2>5 DEF Turned, Lines, Mirror
  <2>8. \A i \in Lines :
          fb'[i] = [of |-> req[who],
                    place |-> IF Turned(i)' THEN i ELSE Mirror(i)]
    <3> SUFFICES ASSUME NEW i \in Lines
                 PROVE  fb'[i] = [of |-> req[who],
                                  place |-> IF Turned(i)' THEN i ELSE Mirror(i)]
      OBVIOUS
    <3>1. \A n \in Lines :
            fb[n] = [of |-> req[who],
                     place |-> IF Turned(n) THEN n ELSE Mirror(n)]
      BY <1>4 DEF FlipLine, FrameInv
    <3>2. CASE i = y
      <4>1. fb'[y] = [of |-> req[who], place |-> y]
        BY <2>2, <2>3, <2>4, <3>1
      <4>. QED
        BY <2>6, <3>2, <4>1
    <3>3. CASE i = Mirror(y)
      <4>1. fb'[i] = [of |-> req[who], place |-> i]
        BY <2>3, <2>4, <3>1, <3>3
      <4>2. Turned(i)'
        BY <2>6, <3>3 DEF Turned, Mirror
      <4>. QED
        BY <4>1, <4>2
    <3>4. CASE i \notin {y, Mirror(y)}
      BY <2>3, <2>7, <3>1, <3>4
    <3>. QED
      BY <3>2, <3>3, <3>4
  <2>9. /\ spc = "flip" /\ line <= Height \div 2 /\ line' = line + 1
        /\ UNCHANGED <<spc, who, req, phase, ppc>>
    BY <1>4 DEF FlipLine, serviceVars
  <2>10. line' <= Height \div 2 + 1
    BY <2>1, <2>9 DEF Lines
  <2>11. \A c \in Clients : ~(ppc[c] = "wait" /\ phase[c] = "done")
    BY <2>9 DEF FrameInv
  <2>. QED
    BY <2>8, <2>9, <2>10, <2>11 DEF FrameInv
<1>5. CASE SwapEnd
  <2>1. fb = Picture(req[who])
    <3>1. \A i \in Lines :
            fb[i] = [of |-> req[who],
                     place |-> IF Turned(i) THEN i ELSE Mirror(i)]
      BY <1>5 DEF SwapEnd, FrameInv
    <3>2. \A i \in Lines : Vflip => Turned(i) \/ Mirror(i) = i
      BY <1>5 DEF SwapEnd, Turned, Lines, Mirror
    <3>3. \A i \in Lines :
            fb[i] = [of |-> req[who],
                     place |-> IF Vflip THEN i ELSE Mirror(i)]
      BY <3>1, <3>2 DEF Turned
    <3>. QED
      BY <3>3 DEF Picture
  <2>2. req[who] \in Service!Requests /\ req' = req /\ fb' = fb /\ spc' = "idle"
    BY <1>5 DEF SwapEnd, Service!Run
  <2>3. \A d \in Clients :
          ppc'[d] = "wait" /\ phase'[d] = "done" =>
            d = who
    BY <1>5 DEF SwapEnd, Service!Run, FrameInv
  <2>. QED
    BY <2>1, <2>2, <2>3 DEF FrameInv, IsPicture, Picture
<1>. QED
  BY <1>1, <1>2, <1>3, <1>4, <1>5 DEF ServerStep

(* What is copied is the framebuffer, which nobody writes meanwhile        *)
LEMMA WindowStep ==
  ASSUME FrameIInv, Next
  PROVE  WindowInv'
<1> USE HeightAssumption, NoResultAssumption
<1> USE DEF FrameIInv, TypeOK, ServiceTypeOK, LockInv, PhaseInv, WindowInv, Goto, Lines,
            serviceVars, serverVars, windowVars
<1>1. ASSUME NEW c \in Clients, ProgramStep(c) PROVE WindowInv'
  <2> USE DEF Picture
  <2>1. CASE SwapLock(c)
    BY <2>1 DEF SwapLock
  <2>2. CASE SwapSubmit(c)
    BY <2>2 DEF SwapSubmit, Service!Ask
  <2>3. CASE SwapDropped(c)
    BY <2>3 DEF SwapDropped, Service!AskRefused
  <2>4. CASE SwapReturn(c)
    BY <2>4 DEF SwapReturn, Service!GetResult, Service!GetRefused, FrameInv
  <2>5. CASE PutLine(c)
    BY <2>5 DEF PutLine
  <2>6. CASE SwapUnlock(c)
    BY <2>6 DEF SwapUnlock
  <2>7. CASE OtherCall(c)
    <3>1. /\ ppc[c] = "draw" /\ UNCHANGED <<swapLock, pending, serverVars, ppc, windowVars>>
          /\ \/ \E k \in Service!Kinds : Service!Ask(c, k)
             \/ Service!AskRefused(c) \/ Service!GetResult(c)
             \/ Service!GetRefused(c) \/ Service!Leave(c)
      BY <2>7 DEF OtherCall
    <3>2. CASE \E k \in Service!Kinds : Service!Ask(c, k)
      BY <3>1, <3>2 DEF Service!Ask
    <3>3. CASE Service!AskRefused(c)
      BY <3>1, <3>3 DEF Service!AskRefused
    <3>4. CASE Service!GetResult(c)
      BY <3>1, <3>4 DEF Service!GetResult
    <3>5. CASE Service!GetRefused(c)
      BY <3>1, <3>5 DEF Service!GetRefused
    <3>6. CASE Service!Leave(c)
      BY <3>1, <3>6 DEF Service!Leave
    <3>. QED
      BY <3>1, <3>2, <3>3, <3>4, <3>5, <3>6
  <2>8. CASE Crash(c)
    BY <2>8 DEF Crash, Service!Die
  <2>. QED
    BY <1>1, <2>1, <2>2, <2>3, <2>4, <2>5, <2>6, <2>7, <2>8 DEF ProgramStep
<1>2. CASE ServerStep
  <2>1. ASSUME NEW c \in Clients, RunOther(c) PROVE WindowInv'
    BY <2>1 DEF RunOther, Service!Run, Picture
  <2>2. ASSUME NEW c \in Clients, SwapBegin(c) PROVE WindowInv'
    BY <2>2 DEF SwapBegin, Picture
  <2>3. CASE ReadLine \/ FlipLine
    BY <2>3 DEF ReadLine, FlipLine
  <2>4. CASE SwapEnd
    BY <2>4 DEF SwapEnd, Service!Run
  <2>. QED
    BY <1>2, <2>1, <2>2, <2>3, <2>4 DEF ServerStep
<1>. QED
  BY <1>1, <1>2 DEF Next

-----------------------------------------------------------------------------
LEMMA FrameNext == FrameIInv /\ [Next]_vars => FrameIInv'
<1> SUFFICES ASSUME FrameIInv, [Next]_vars PROVE FrameIInv'
  OBVIOUS
<1>1. CASE Next
  <2>1. FrameInv'
    BY <1>1, FrameProgramStep, FrameServerStep DEF Next
  <2>. QED
    BY <1>1, <2>1, TypeStep, LockStep, WindowStep DEF FrameIInv
<1>2. CASE UNCHANGED vars
  BY <1>2 DEF FrameIInv, TypeOK, ServiceTypeOK, LockInv, PhaseInv, FrameInv, WindowInv,
     IsPicture, Turned, Picture, vars, serviceVars, serverVars, windowVars
<1>. QED
  BY <1>1, <1>2

(* The framebuffer holds one whole frame whenever a program may copy it,   *)
(* and the copy is as far as the program says.                             *)
THEOREM FrameInvariant == Spec => []FrameIInv
  BY FrameInit, FrameNext, PTL DEF Spec

(* Every variable of the presentation of frames keeps its type.            *)
THEOREM FrameTypeCorrect == Spec => []TypeOK
<1>1. FrameIInv => TypeOK
  BY DEF FrameIInv
<1>. QED
  BY <1>1, FrameInvariant, PTL

(* The server never writes the framebuffer while a program copies it.      *)
THEOREM FramebufferIsExclusive == Spec => []FramebufferExclusive
<1>1. FrameIInv => FramebufferExclusive
  BY DEF FrameIInv, TypeOK, LockInv, PhaseInv, FramebufferExclusive
<1>. QED
  BY <1>1, FrameInvariant, PTL

(* A program's window shows the frame of its own swap.                     *)
THEOREM OwnFrameShown == Spec => []ShownIsOwn
<1>1. FrameIInv => ShownIsOwn
  BY DEF FrameIInv, WindowInv, ShownIsOwn
<1>. QED
  BY <1>1, FrameInvariant, PTL

(* Even a dropped swap shows one whole frame.                              *)
THEOREM WholeFrameShown == Spec => []ShownIsWhole
<1>1. FrameIInv => ShownIsWhole
  <2> SUFFICES ASSUME FrameIInv, NEW c \in Clients, ppc[c] = "unlock"
               PROVE  \/ shown[c] = Blank
                      \/ \E d \in Clients, k \in Service!Kinds, b \in {0, 1} :
                           shown[c] =
                             Picture([from |-> d, kind |-> k, bit |-> b])
    BY DEF ShownIsWhole
  <2>1. spc = "idle" /\ shown[c] = fb
    BY DEF FrameIInv, TypeOK, LockInv, PhaseInv, WindowInv
  <2>2. IsPicture(shown[c])
    BY <2>1 DEF FrameIInv, FrameInv
  <2>3. ASSUME NEW r \in Service!Requests, shown[c] = Picture(r)
        PROVE  \E d \in Clients, k \in Service!Kinds, b \in {0, 1} :
                 shown[c] = Picture([from |-> d, kind |-> k, bit |-> b])
    <3>1. r = [from |-> r.from, kind |-> r.kind, bit |-> r.bit]
      BY DEF Service!Requests
    <3>2. r.from \in Clients /\ r.kind \in Service!Kinds /\ r.bit \in {0, 1}
      BY DEF Service!Requests
    <3>. QED
      BY <2>3, <3>1, <3>2
  <2>. QED
    BY <2>2, <2>3 DEF IsPicture
<1>. QED
  BY <1>1, FrameInvariant, PTL

-----------------------------------------------------------------------------
(* Killed between spin_lock and spin_unlock in glXSwapBuffers              *)
DeadHolder(c) == phase[c] = "dead" /\ ppc[c] # "draw"

LEMMA DeadStays ==
  ASSUME NEW c \in Clients, FrameIInv, DeadHolder(c), [Next]_vars PROVE DeadHolder(c)'
<1> USE DEF DeadHolder
<1>1. TypeOK /\ phase[c] = "dead"
  BY DEF FrameIInv
<1>2. ASSUME NEW d \in Clients, ProgramStep(d) PROVE DeadHolder(c)'
  <2>1. phase[d] # "dead"
    BY <1>2 DEF ProgramStep, SwapLock, SwapSubmit, SwapDropped, SwapReturn, PutLine,
       SwapUnlock, OtherCall, Crash, Goto, Service!Ask, Service!AskRefused,
       Service!GetResult, Service!GetRefused, Service!Leave
  <2>2. ppc'[c] = ppc[c]
    BY <1>1, <1>2, <2>1 DEF TypeOK, ProgramStep, SwapLock, SwapSubmit, SwapDropped,
       SwapReturn, PutLine, SwapUnlock, OtherCall, Crash, Goto
  <2>3. phase'[c] = phase[c]
    BY <1>1, <1>2, <2>1 DEF TypeOK, ServiceTypeOK, ProgramStep, SwapLock, SwapSubmit,
       SwapDropped, SwapReturn, PutLine, SwapUnlock, OtherCall, Crash, serviceVars,
       Service!Ask, Service!AskRefused, Service!GetResult, Service!GetRefused, Service!Leave,
       Service!Die
  <2>. QED
    BY <2>2, <2>3
<1>3. CASE ServerStep
  <2>1. ppc' = ppc
    BY <1>3 DEF ServerStep, RunOther, SwapBegin, ReadLine, FlipLine, SwapEnd
  <2>2. phase'[c] = phase[c]
    BY <1>1, <1>3 DEF TypeOK, ServiceTypeOK, ServerStep, RunOther, SwapBegin, ReadLine,
       FlipLine, SwapEnd, serviceVars, Service!Run
  <2>. QED
    BY <2>1, <2>2
<1>4. CASE UNCHANGED vars
  BY <1>4 DEF vars, serviceVars
<1>. QED
  BY <1>2, <1>3, <1>4 DEF Next

(* A program killed inside glXSwapBuffers keeps the swap lock for ever: no *)
(* other program ever presents a frame again.                              *)
THEOREM FramesStopForGood ==
  ASSUME NEW c \in Clients
  PROVE  Spec => [](DeadHolder(c) =>
           [](swapLock = 1 /\ \A d \in Clients \ {c} : ppc[d] = "draw"))
<1>1. FrameIInv /\ DeadHolder(c) => swapLock = 1 /\ \A d \in Clients \ {c} : ppc[d] = "draw"
  BY DEF FrameIInv, LockInv, DeadHolder
<1>2. FrameIInv /\ DeadHolder(c) /\ [Next]_vars => DeadHolder(c)'
  BY DeadStays
<1>. QED
  BY <1>1, <1>2, FrameInvariant, PTL DEF Spec

(* What the presentation adds, the framebuffer and the swap lock, is not   *)
(* seen by the programs' sessions: each still has the service of           *)
(* RenderService, whichever transport implements it.                       *)
THEOREM FramesKeepService == Spec => Service!Spec
<1>1. Init => Service!Init
  BY DEF Init
<1>2. FrameIInv /\ [Next]_vars => [Service!Next]_(Service!vars)
  <2> SUFFICES ASSUME FrameIInv, [Next]_vars PROVE Service!Next \/ UNCHANGED serviceVars
    BY DEF Service!vars, serviceVars
  <2>1. ASSUME NEW c \in Clients, ProgramStep(c) PROVE Service!Next \/ UNCHANGED serviceVars
    <3>1. "call" \in Service!Kinds
      BY DEF Service!Kinds
    <3>. QED
      BY <2>1, <3>1 DEF ProgramStep, SwapLock, SwapSubmit, SwapDropped, SwapReturn, PutLine,
         SwapUnlock, OtherCall, Crash, Service!Next
  <2>2. CASE ServerStep
    <3>1. who \in Clients
      BY DEF FrameIInv, TypeOK
    <3>. QED
      BY <2>2, <3>1 DEF ServerStep, RunOther, SwapBegin, ReadLine, FlipLine, SwapEnd,
         Service!Next
  <2>3. CASE UNCHANGED vars
    BY <2>3 DEF vars
  <2>. QED
    BY <2>1, <2>2, <2>3 DEF Next
<1>. QED
  BY <1>1, <1>2, FrameInvariant, PTL DEF Spec, Service!Spec
=============================================================================
