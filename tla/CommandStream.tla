----------------------------- MODULE CommandStream -----------------------------
(***************************************************************************)
(* How GL calls become commands and commands become GL calls again.  A     *)
(* call of the client library (src/client/glimpl.c) pushes words into the  *)
(* program's push buffer (pb.c), hands the buffer over when it needs an    *)
(* answer, and reads return registers.  The server (src/server/            *)
(* processor.c) walks through the words it was handed: it switches on one  *)
(* as a command and lets that case read as many as it does.  Nothing in    *)
(* the buffer marks where a command ends: the two sides agree only if the  *)
(* table of calls and the table of cases do.                               *)
(*                                                                         *)
(* Both tables are parameters (WireTables); the Glimpl and Processor       *)
(* modules have what the code has in them.  How a buffer travels is the    *)
(* matter of ShmTransport and NetTransport: here it is handed over and     *)
(* answered in one step each.                                              *)
(***************************************************************************)
EXTENDS WireTables

CONSTANTS Clients,   \* the programs
          Capacity,  \* the words a push buffer holds
          Programs,  \* which calls the programs may make, one after the other
          None       \* no program, no call, no memory

ASSUME CapacityAssumption == Capacity \in Nat
ASSUME NoneAssumption == None \notin Clients \cup Rows
ASSUME ProgramsAssumption == \A p \in Programs : p \in [Clients -> Seq(STRING)]

VARIABLES
  (* The programs *)
  pc,        \* "idle", at an entry point ("enter"), in its pieces ("call"),
             \* waiting ("wait"), answered ("read") or "gone"
  todo,      \* the calls a program has still to make, the present one not among them
  calling,   \* the entry point it is in, None at first
  left,      \* the pieces of the call still to do
  buf,       \* the words between in_base and in_cur
  full,      \* write_overflowed
  given,     \* the return registers that hold something of this hand-over
  (* The server *)
  serving,   \* whose buffer it runs
  exec,      \* the words it runs: shared_exec, or its memory behind wait_net
  pos,       \* pb, as an index into that buffer
  uploaded,  \* uploaded: whose call's memory it points to, None for NULL
  written,   \* the return registers it wrote since it began the buffer
  (* History *)
  said,      \* where in buf the commands begin, their words, their call
  ran,       \* how many commands of the buffer the server has begun
  row,       \* the row of the command it ran last
  took       \* the words of the command it ran last

pushVars == <<buf, full, said>>
serverVars == <<serving, exec, pos, uploaded, written, ran, row, took>>
callVars == <<todo, calling, left>>
vars == <<pc, callVars, pushVars, given, serverVars>>

(* A program without a call does not take part.                            *)
Init ==
  /\ todo \in Programs
  /\ pc = [c \in Clients |-> IF todo[c] = <<>> THEN "gone" ELSE "idle"]
  /\ calling = [c \in Clients |-> None]
  /\ left = [c \in Clients |-> <<>>]
  /\ buf = [c \in Clients |-> <<>>] /\ full = [c \in Clients |-> FALSE]
  /\ said = [c \in Clients |-> <<>>]
  /\ given = [c \in Clients |-> {}]
  /\ exec = [k \in 1..Capacity |-> "0"]
  /\ serving = None /\ pos = 0 /\ uploaded = None /\ written = {}
  /\ ran = 0 /\ row = None /\ took = <<>>

-----------------------------------------------------------------------------
(* The client library                                                      *)

Call(c) ==
  /\ pc[c] = "idle" /\ todo[c] # <<>>
  /\ pc' = [pc EXCEPT ![c] = "enter"]
  /\ calling' = [calling EXCEPT ![c] = Head(todo[c])]
  /\ todo' = [todo EXCEPT ![c] = Tail(@)]
  /\ UNCHANGED <<left, pushVars, given, serverVars>>

(* An entry point does its pieces, or those of the one it calls instead    *)
Enter(c) ==
  /\ pc[c] = "enter"
  /\ \E e \in Entries :
       /\ e.call = calling[c]
       /\ IF e.like = e.call
          THEN pc' = [pc EXCEPT ![c] = "call"] /\ left' = [left EXCEPT ![c] = e.says]
               /\ calling' = calling
          ELSE calling' = [calling EXCEPT ![c] = e.like] /\ UNCHANGED <<pc, left>>
  /\ UNCHANGED <<todo, pushVars, given, serverVars>>

(* pb_reset *)
Emptied(c) ==
  /\ buf' = [buf EXCEPT ![c] = <<>>]
  /\ full' = [full EXCEPT ![c] = FALSE]
  /\ said' = [said EXCEPT ![c] = <<>>]

(* glimpl_goodbye: what is still in the buffer is given up                 *)
Goodbye(c) ==
  /\ pc[c] = "idle"
  /\ Emptied(c)
  /\ pc' = [pc EXCEPT ![c] = "call"]
  /\ calling' = [calling EXCEPT ![c] = "glimpl_goodbye"]
  /\ left' = [left EXCEPT ![c] = <<Farewell>>]
  /\ UNCHANGED <<todo, given, serverVars>>

(* Words go in while there is room.  Once some did not fit the whole       *)
(* buffer is given up (pb_note_overflow), so it does not matter which did. *)
Fits(c, words) == Len(buf[c]) + Len(words) <= Capacity /\ ~full[c]
Noted(c, words) ==
  IF words = <<>> THEN said[c]
  ELSE Append(said[c], [at |-> Len(buf[c]) + 1, words |-> words, call |-> Len(todo[c])])
(* Faulty variant: what does not fit is left out and nobody is told.       *)
PushedUnnoticed(c, words) ==
  /\ buf' = IF Fits(c, words) THEN [buf EXCEPT ![c] = @ \o words] ELSE buf
  /\ said' = [said EXCEPT ![c] = Noted(c, words)]
  /\ full' = full
Pushed(c, words) ==
  IF Fits(c, words)
  THEN /\ buf' = [buf EXCEPT ![c] = @ \o words]
       /\ said' = [said EXCEPT ![c] = Noted(c, words)]
       /\ full' = full
  ELSE /\ buf' = [buf EXCEPT ![c] = <<>>]
       /\ said' = [said EXCEPT ![c] = <<>>]
       /\ full' = [full EXCEPT ![c] = TRUE]

Busy(c) == pc[c] = "call" /\ left[c] # <<>>
Piece(c) == Head(left[c])

(* A piece that only pushes *)
PushPiece(c) ==
  /\ Busy(c) /\ ~Piece(c).submit
  /\ Pushed(c, Piece(c).words)
  /\ left' = [left EXCEPT ![c] = Tail(@)]
  /\ UNCHANGED <<pc, todo, calling, given, serverVars>>

(* glimpl_submit: the buffer is ended by a zero and handed over...         *)
SubmitPiece(c) ==
  /\ Busy(c) /\ Piece(c).submit
  /\ LET words == Piece(c).words
     IN /\ Fits(c, Append(words, "0"))
        /\ buf' = [buf EXCEPT ![c] = @ \o Append(words, "0")]
        /\ said' = [said EXCEPT ![c] = Noted(c, words)]
  /\ pc' = [pc EXCEPT ![c] = "wait"]
  /\ UNCHANGED <<callVars, full, given, serverVars>>

(* ... or, when it overflowed, dropped: the client zeroes the registers    *)
DropPiece(c) ==
  /\ Busy(c) /\ Piece(c).submit
  /\ ~Fits(c, Append(Piece(c).words, "0"))
  /\ Emptied(c)
  /\ pc' = [pc EXCEPT ![c] = "read"]
  /\ given' = [given EXCEPT ![c] = Registers]
  /\ UNCHANGED <<callVars, serverVars>>

(* The call goes on with what it was answered                              *)
(* Faulty variant: it hands the same over again.                           *)
ReadPieceAgain(c) ==
  /\ pc[c] = "read"
  /\ pc' = [pc EXCEPT ![c] = "call"]
  /\ UNCHANGED <<callVars, pushVars, given, serverVars>>
ReadPiece(c) ==
  /\ pc[c] = "read"
  /\ pc' = [pc EXCEPT ![c] = "call"]
  /\ left' = [left EXCEPT ![c] = Tail(@)]
  /\ UNCHANGED <<todo, calling, pushVars, given, serverVars>>

Return(c) ==
  /\ pc[c] = "call" /\ left[c] = <<>>
  /\ pc' = [pc EXCEPT ![c] = IF calling[c] = "glimpl_goodbye" THEN "gone" ELSE "idle"]
  /\ UNCHANGED <<callVars, pushVars, given, serverVars>>

-----------------------------------------------------------------------------
(* The server                                                              *)

(* A buffer is copied and its registers are zeroed.  Behind the words      *)
(* copied there are still those of longer buffers before it.               *)
Begin(c) ==
  /\ pc[c] = "wait" /\ serving = None
  /\ exec' = [k \in 1..Capacity |-> IF k \in DOMAIN buf[c] THEN buf[c][k] ELSE exec[k]]
  /\ serving' = c /\ pos' = 1 /\ written' = {} /\ ran' = 0
  /\ UNCHANGED <<pc, callVars, pushVars, given, uploaded, row, took>>

(* Past the words there is room for, the model has zeroes.                 *)
Word(k) == IF k \in 1..Capacity THEN exec[k] ELSE "0"

(* The program and the call that pushed the command that begins here       *)
Owner ==
  IF ran + 1 \in DOMAIN said[serving] THEN <<serving, said[serving][ran + 1].call>> ELSE None

Runnable ==
  {r \in Rows : /\ MayRun(r, Word(pos))
               /\ \A k \in 1..Len(r.layout) : Takes(r.layout[k], Word(pos + k))}

(* The switch has no default: a word without a case is passed.             *)
NoCase == [command |-> "", layout |-> <<>>, uses |-> FALSE, writes |-> {}]
Passed ==
  {r \in {NoCase} : Word(pos) # "0" /\ Word(pos) \notin {x.command : x \in Rows}}

(* One round of the loop: a case of the switch                             *)
RunCommand ==
  /\ serving # None
  /\ ran' = ran + 1
  /\ UNCHANGED <<pc, callVars, pushVars, given, serving, exec>>
  /\ \E r \in Runnable \cup Passed :
       /\ pos' = pos + 1 + Len(r.layout)
       /\ row' = r
       /\ took' = [k \in 1..(1 + Len(r.layout)) |-> Word(pos + k - 1)]
       /\ written' = written \cup r.writes
       /\ uploaded' = IF r.command \in {"VP_UPLOAD", "VP_NULL"} THEN Owner ELSE uploaded

(* The registers go back to the client, whose wait ends                    *)
Answer ==
  /\ serving # None /\ Word(pos) \in Data \cup {"0"}
  /\ given' = [given EXCEPT ![serving] = written]
  /\ pc' = [pc EXCEPT ![serving] = "read"]
  /\ buf' = [buf EXCEPT ![serving] = <<>>]
  /\ said' = [said EXCEPT ![serving] = <<>>]
  /\ serving' = None
  /\ pos' = 0 /\ ran' = 0 /\ written' = {}
  /\ UNCHANGED <<callVars, full, exec, uploaded, row, took>>

-----------------------------------------------------------------------------
ClientNext(c) ==
  \/ Enter(c) \/ PushPiece(c) \/ SubmitPiece(c) \/ DropPiece(c) \/ ReadPiece(c) \/ Return(c)
ServerNext == (\E c \in Clients : Begin(c)) \/ RunCommand \/ Answer

Next ==
  \/ \E c \in Clients : Call(c) \/ Goodbye(c)
  \/ \E c \in Clients : ClientNext(c)
  \/ ServerNext

Spec == Init /\ [][Next]_vars
(* A program goes on with a call it has begun and the server's loop runs.  *)
FairSpec == Spec /\ (\A c \in Clients : WF_vars(ClientNext(c))) /\ WF_vars(ServerNext)

-----------------------------------------------------------------------------
(* Properties                                                              *)

TypeOK ==
  /\ pc \in [Clients -> {"idle", "enter", "call", "wait", "read", "gone"}]
  /\ full \in [Clients -> BOOLEAN]
  /\ given \in [Clients -> SUBSET Registers]
  /\ \A c \in Clients : Len(buf[c]) <= Capacity /\ Len(said[c]) <= Len(buf[c])
  /\ serving \in Clients \cup {None}
  /\ pos \in Nat /\ ran \in Nat
  /\ written \subseteq Registers
  /\ row \in Rows \cup {None, NoCase}

(* The server never takes data for a command or a command for data: each   *)
(* time it looks for a command it is at the first word of the next one its *)
(* program pushed, or at the end when it has run them all.                 *)
InSync ==
  serving # None =>
    \/ ran + 1 \in DOMAIN said[serving] /\ pos = said[serving][ran + 1].at
    \/ ran = Len(said[serving]) /\ pos = Len(buf[serving])

(* Every word is read as what it was pushed as, a float never as an        *)
(* integer and no count, flag or text as anything else.                    *)
KindsKept ==
  serving # None /\ ran > 0 =>
    /\ row # None
    /\ \A k \in DOMAIN row.layout : SameUse(row.layout[k], took[k + 1])

(* A call that reads a return register after a hand-over finds it written  *)
(* by a command of that hand-over, not left from something else.           *)
ReplyOwn ==
  \A c \in Clients : pc[c] = "read" => Piece(c).reads \subseteq given[c]

(* The memory the server gives GL with a command was uploaded by the call  *)
(* that pushed the command, not by an earlier one or by another program.   *)
UploadOwn ==
  serving # None /\ ran > 0 /\ row # None /\ row.uses =>
    /\ ran \in DOMAIN said[serving]
    /\ uploaded = <<serving, said[serving][ran].call>>

(* Every call comes to an end: the server finds the end of every buffer    *)
(* and the pieces of a call run out.                                       *)
EveryCallReturns ==
  \A c \in Clients : pc[c] \notin {"idle", "gone"} ~> pc[c] \in {"idle", "gone"}

-----------------------------------------------------------------------------
(* What CommandQueue promises, as seen here                                *)

WordsOf(list) == [k \in DOMAIN list |-> list[k].words]
Ran(c) == IF serving = c THEN ran ELSE 0
Open(c) == IF pc[c] = "wait" THEN <<>> ELSE WordsOf(said[c])
Due(c) ==
  IF pc[c] = "wait" THEN SubSeq(WordsOf(said[c]), Ran(c) + 1, Len(said[c])) ELSE <<>>
Queue == INSTANCE CommandQueue WITH
  open <- [c \in Clients |-> Open(c)],
  due <- [c \in Clients |-> Due(c)],
  latest <- took
(* The server runs the commands of the calls and nothing else, in order.   *)
QueueSpec == Queue!Spec

=============================================================================
