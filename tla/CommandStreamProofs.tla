-------------------------- MODULE CommandStreamProofs --------------------------
(***************************************************************************)
(* Two tables that agree keep the server in step, whatever the calls, the  *)
(* programs and the size of the buffer: proofs about CommandStream.        *)
(***************************************************************************)
EXTENDS CommandStream, SequenceTheorems, TLAPS

(* What the theorems ask of the tables                                     *)
TablesAgree == NamesApart /\ \A words \in Commands : AgreesOn(words)
KindsAgree == \A words \in Commands : AgreesOnKinds(words)
RepliesAgree == \A p \in Pieces : AgreesOnReply(p)
UploadsAgree ==
  (\A e \in Entries : AgreesOnUpload(e.says)) /\ ~MayUse(Farewell.words)

(* All strings, with those the proofs must know to be strings              *)
Vocabulary == STRING \cup {"GOODBYE_WORLD", "i", "0"}
Saying == [at : Nat, words : Commands, call : Nat]

Typing ==
  /\ pc \in [Clients -> {"idle", "enter", "call", "wait", "read", "gone"}]
  /\ todo \in [Clients -> Seq(STRING)]
  /\ left \in [Clients -> Seq(Pieces)]
  /\ \A c \in Clients : pc[c] \in {"wait", "read"} => left[c] # <<>>
  /\ buf \in [Clients -> Seq(Vocabulary)]
  /\ full \in [Clients -> BOOLEAN]
  /\ said \in [Clients -> Seq(Saying)]
  /\ given \in [Clients -> SUBSET Registers]
  /\ serving \in Clients \cup {None}
  /\ pos \in Nat /\ ran \in Nat
  /\ written \subseteq Registers
  /\ row \in Rows \cup {None, NoCase}

(* Where the k-th command of s begins when all of them take e words        *)
From(s, k, e) == IF k \in 1..Len(s) THEN s[k].at ELSE e + 1
Lies(b, r) == \A j \in 1..Len(r.words) : b[r.at + j - 1] = r.words[j]
(* The commands of s lie in the first e words of b, one after the other    *)
Laid(b, s, e) ==
  /\ e \in 0..Len(b) /\ Len(s) <= e
  /\ From(s, 1, e) = 1
  /\ \A k \in 1..Len(s) : s[k].at \in k..e
  /\ \A k \in 1..Len(s) : s[k].at + Len(s[k].words) = From(s, k + 1, e)
  /\ \A k \in 1..Len(s) : Lies(b, s[k])

Used(c) == IF pc[c] = "wait" THEN Len(buf[c]) - 1 ELSE Len(buf[c])
BufferInv ==
  \A c \in Clients :
    /\ Laid(buf[c], said[c], Used(c))
    /\ pc[c] = "wait" => ~full[c] /\ buf[c][Len(buf[c])] = "0"
    /\ full[c] => buf[c] = <<>>
    /\ Len(buf[c]) <= Capacity

(* What the server runs, and where it looks for its next command           *)
Copied == \A k \in 1..Len(buf[serving]) : Word(k) = buf[serving][k]
ServerInv ==
  serving # None =>
    /\ pc[serving] = "wait"
    /\ Copied
    /\ ran <= Len(said[serving])
    /\ pos = From(said[serving], ran + 1, Used(serving))

StreamInv == Typing /\ BufferInv /\ ServerInv

-----------------------------------------------------------------------------
LEMMA TwoWords == ASSUME NEW S, NEW x \in S, NEW y \in S PROVE <<x, y>> \in Seq(S)
OBVIOUS

LEMMA PiecesTyped ==
  /\ \A p \in Pieces : /\ p.words \in Seq(Vocabulary) /\ p.submit \in BOOLEAN
                       /\ p.reads \subseteq Registers
  /\ \A e \in Entries : e.says \in Seq(Pieces)
  /\ Farewell \in Pieces
<1>1. Farewell.words \in Seq(Vocabulary) /\ Farewell.submit \in BOOLEAN
      /\ Farewell.reads \subseteq Registers /\ Farewell \in Pieces
  <2>1. Farewell \in Pieces
    BY DEF Pieces
  <2>2. Farewell.words = <<"GOODBYE_WORLD", "i">> /\ Farewell.submit = TRUE
        /\ Farewell.reads = {}
    BY DEF Farewell
  <2>3. <<"GOODBYE_WORLD", "i">> \in Seq(Vocabulary)
    <3>1. "GOODBYE_WORLD" \in Vocabulary /\ "i" \in Vocabulary
      BY DEF Vocabulary
    <3>. QED
      BY <3>1, TwoWords
  <2>. QED
    BY <2>1, <2>2, <2>3
<1>2. ASSUME NEW e \in Entries, NEW k \in DOMAIN e.says
      PROVE  e.says[k] \in [words : Seq(STRING), submit : BOOLEAN, reads : SUBSET Registers]
  <2> DEFINE P == [words : Seq(STRING), submit : BOOLEAN, reads : SUBSET Registers]
  <2>1. e.says \in Seq(P)
    BY EntriesAssumption
  <2> HIDE DEF P
  <2>2. e.says[k] \in P
    BY <2>1
  <2>. QED
    BY <2>2 DEF P
<1>3. \A p \in Pieces : \/ p = Farewell
                        \/ p \in [words : Seq(STRING), submit : BOOLEAN, reads : SUBSET Registers]
  BY <1>2 DEF Pieces
<1>5. \A w \in Seq(STRING) : w \in Seq(Vocabulary)
  BY DEF Vocabulary
<1>4. ASSUME NEW e \in Entries PROVE e.says \in Seq(Pieces)
  <2>1. \A k \in DOMAIN e.says : e.says[k] \in Pieces
    BY DEF Pieces
  <2>. QED
    BY <2>1, EntriesAssumption
<1>. QED
  BY <1>1, <1>3, <1>4, <1>5

LEMMA CommandsTyped ==
  \A w \in Commands : w \in Seq(Vocabulary) /\ w # <<>> /\ Len(w) \in Nat \ {0}
BY PiecesTyped DEF Commands

LEMMA PieceCommand ==
  ASSUME NEW p \in Pieces, p.words # <<>> PROVE p.words \in Commands
BY DEF Commands

LEMMA SayingTyped ==
  ASSUME NEW s \in Seq(Saying), NEW k \in 1..Len(s)
  PROVE  /\ s[k].at \in Nat /\ s[k].words \in Commands
         /\ s[k].words \in Seq(Vocabulary) /\ Len(s[k].words) \in Nat \ {0}
<1>1. s[k] \in Saying
  OBVIOUS
<1>. QED
  BY <1>1, CommandsTyped DEF Saying

(* Words behind those of a command, like the zero at the end, disturb none *)
LEMMA LiesOn ==
  ASSUME NEW b \in Seq(Vocabulary), NEW x \in Seq(Vocabulary), NEW r,
         r.at \in Nat \ {0}, Len(r.words) \in Nat,
         r.at + Len(r.words) <= Len(b) + 1, Lies(b, r)
  PROVE  Lies(b \o x, r)
<1>1. SUFFICES ASSUME NEW j \in 1..Len(r.words)
               PROVE  (b \o x)[r.at + j - 1] = r.words[j]
  BY DEF Lies
<1>2. r.at + j - 1 \in 1..Len(b)
  OBVIOUS
<1>3. (b \o x)[r.at + j - 1] = b[r.at + j - 1]
  BY <1>2
<1>. QED
  BY <1>3 DEF Lies

LEMMA Bounded ==
  ASSUME NEW b \in Seq(Vocabulary), NEW s \in Seq(Saying), NEW e \in Nat, Laid(b, s, e),
         NEW k \in 1..Len(s)
  PROVE  s[k].at \in Nat \ {0} /\ s[k].at + Len(s[k].words) <= e + 1
<1>1. s[k].at \in k..e /\ s[k].at + Len(s[k].words) = From(s, k + 1, e)
  BY DEF Laid
<1>2. CASE k + 1 \in 1..Len(s)
  <2>1. s[k + 1].at \in (k + 1)..e
    BY <1>2 DEF Laid
  <2>. QED
    BY <1>1, <1>2, <2>1 DEF From
<1>3. CASE k + 1 \notin 1..Len(s)
  BY <1>1, <1>3 DEF From
<1>. QED
  BY <1>2, <1>3

LEMMA ExtendLaid ==
  ASSUME NEW b \in Seq(Vocabulary), NEW s \in Seq(Saying), NEW x \in Seq(Vocabulary),
         NEW e \in Nat, Laid(b, s, e)
  PROVE  Laid(b \o x, s, e)
<1>1. Len(b \o x) = Len(b) + Len(x) /\ Len(x) \in Nat /\ Len(b) \in Nat
  OBVIOUS
<1>2. e \in 0..Len(b \o x)
  BY <1>1 DEF Laid
<1>3. ASSUME NEW k \in 1..Len(s) PROVE Lies(b \o x, s[k])
  <2>1. s[k].at \in Nat \ {0} /\ s[k].at + Len(s[k].words) <= Len(b) + 1
        /\ Len(s[k].words) \in Nat
    <3>1. s[k].at \in Nat \ {0} /\ s[k].at + Len(s[k].words) <= e + 1
      BY Bounded
    <3>2. Len(s[k].words) \in Nat /\ e <= Len(b)
      BY SayingTyped DEF Laid
    <3>. QED
      BY <3>1, <3>2, <1>1
  <2>2. Lies(b, s[k])
    BY DEF Laid
  <2>. QED
    BY <2>1, <2>2, LiesOn
<1>. QED
  BY <1>2, <1>3 DEF Laid

(* One more command at the end of the buffer                               *)
LEMMA AppendLaid ==
  ASSUME NEW b \in Seq(Vocabulary), NEW s \in Seq(Saying), NEW w \in Commands, NEW n \in Nat,
         Laid(b, s, Len(b))
  PROVE  LET new == [at |-> Len(b) + 1, words |-> w, call |-> n]
         IN Laid(b \o w, Append(s, new), Len(b \o w))
<1> DEFINE new == [at |-> Len(b) + 1, words |-> w, call |-> n]
           s2 == Append(s, new)
           b2 == b \o w
<1>1. w \in Seq(Vocabulary) /\ Len(w) \in Nat \ {0} /\ Len(b2) = Len(b) + Len(w)
      /\ Len(b) \in Nat /\ Len(s) \in Nat
  BY CommandsTyped
<1>2. Len(s2) = Len(s) + 1 /\ s2[Len(s) + 1] = new
  OBVIOUS
<1>3. \A k \in 1..Len(s) : s2[k] = s[k]
  OBVIOUS
<1>4. Laid(b2, s, Len(b))
  BY <1>1, ExtendLaid
<1>5. \A k \in 1..(Len(s) + 1) : From(s2, k, Len(b2)) = From(s, k, Len(b))
  BY <1>1, <1>2, <1>3 DEF From
<1>6. From(s2, Len(s) + 2, Len(b2)) = Len(b2) + 1
  BY <1>1, <1>2 DEF From
<1> HIDE DEF s2, b2
<1>7. ASSUME NEW k \in 1..Len(s2)
      PROVE  /\ s2[k].at \in k..Len(b2)
             /\ s2[k].at + Len(s2[k].words) = From(s2, k + 1, Len(b2))
             /\ Lies(b2, s2[k])
  <2>1. CASE k \in 1..Len(s)
    <3>1. s2[k] = s[k] /\ From(s2, k + 1, Len(b2)) = From(s, k + 1, Len(b))
      BY <2>1, <1>1, <1>3, <1>5
    <3>2. s[k].at \in k..Len(b) /\ s[k].at + Len(s[k].words) = From(s, k + 1, Len(b))
          /\ Lies(b2, s[k])
      BY <2>1, <1>4 DEF Laid
    <3>. QED
      BY <3>1, <3>2, <1>1
  <2>2. CASE k = Len(s) + 1
    <3>1. s2[k].at = Len(b) + 1 /\ s2[k].words = w
      BY <2>2, <1>2
    <3>2. Len(s) <= Len(b)
      BY <1>4 DEF Laid
    <3>3. \A j \in 1..Len(w) : b2[Len(b) + 1 + j - 1] = w[j]
      BY <1>1 DEF b2
    <3>4. k + 1 = Len(s) + 2
      BY <2>2, <1>1
    <3>5. Lies(b2, s2[k])
      BY <3>1, <3>3 DEF Lies
    <3>. QED
      BY <2>2, <3>1, <3>2, <3>4, <3>5, <1>1, <1>6
  <2>. QED
    BY <2>1, <2>2, <1>1, <1>2
<1>8. From(s2, 1, Len(b2)) = 1 /\ Len(s2) <= Len(b2)
  BY <1>1, <1>2, <1>4, <1>5 DEF Laid
<1>9. Laid(b2, s2, Len(b2))
  BY <1>1, <1>7, <1>8 DEF Laid
<1>. QED
  BY <1>9 DEF s2, b2

-----------------------------------------------------------------------------
LEMMA InitInv == Init => StreamInv
<1> SUFFICES ASSUME Init PROVE StreamInv
  OBVIOUS
<1>1. Typing
  BY ProgramsAssumption DEF Init, Typing
<1>2. BufferInv
  <2>1. Laid(<<>>, <<>>, 0)
    BY DEF Laid, From
  <2>. QED
    BY <2>1, CapacityAssumption DEF Init, BufferInv, Used
<1>3. ServerInv
  BY DEF Init, ServerInv
<1>. QED
  BY <1>1, <1>2, <1>3 DEF StreamInv

(* Steps that leave the buffers and what was said alone, and take nobody   *)
(* into or out of a wait, keep the layout                                  *)
LEMMA SameBuffers ==
  ASSUME Typing, BufferInv, ServerInv, UNCHANGED <<pushVars, serving, exec, pos, ran>>,
         \A c \in Clients : pc'[c] = "wait" <=> pc[c] = "wait"
  PROVE  BufferInv' /\ ServerInv'
<1>1. \A c \in Clients : Used(c)' = Used(c)
  BY DEF Used, pushVars
<1>2. BufferInv'
  BY <1>1 DEF BufferInv, pushVars
<1>3. ServerInv'
  BY <1>1 DEF ServerInv, Copied, Word, pushVars, Typing
<1>. QED
  BY <1>2, <1>3

(* A step of one program outside its wait disturbs no other buffer and not *)
(* the server, which serves one that waits                                 *)
LEMMA OwnBuffer ==
  ASSUME Typing, BufferInv, ServerInv, NEW c \in Clients, pc[c] # "wait",
         UNCHANGED <<serving, exec, pos, ran>>,
         \A d \in Clients \ {c} :
           pc'[d] = pc[d] /\ buf'[d] = buf[d] /\ said'[d] = said[d] /\ full'[d] = full[d],
         /\ Laid(buf'[c], said'[c], Used(c)')
         /\ pc'[c] = "wait" => ~full'[c] /\ buf'[c][Len(buf'[c])] = "0"
         /\ full'[c] => buf'[c] = <<>>
         /\ Len(buf'[c]) <= Capacity
  PROVE  BufferInv' /\ ServerInv'
<1>1. \A d \in Clients \ {c} : Used(d)' = Used(d)
  BY DEF Used
<1>2. BufferInv'
  BY <1>1 DEF BufferInv
<1>3. serving # None => serving \in Clients \ {c}
  BY DEF ServerInv, Typing
<1>4. ServerInv'
  BY <1>1, <1>3 DEF ServerInv, Copied, Word
<1>. QED
  BY <1>2, <1>4

LEMMA HeadPiece ==
  ASSUME Typing, NEW c \in Clients, left[c] # <<>>
  PROVE  Piece(c) \in Pieces /\ Piece(c).words \in Seq(Vocabulary)
         /\ Tail(left[c]) \in Seq(Pieces)
<1>1. left[c] \in Seq(Pieces) /\ Head(left[c]) \in Pieces
  BY DEF Typing
<1>. QED
  BY <1>1, PiecesTyped DEF Piece

(* What is noted of the words that went in                                 *)
LEMMA NotedLaid ==
  ASSUME Typing, NEW c \in Clients, NEW p \in Pieces, Laid(buf[c], said[c], Len(buf[c]))
  PROVE  /\ Noted(c, p.words) \in Seq(Saying)
         /\ Laid(buf[c] \o p.words, Noted(c, p.words), Len(buf[c] \o p.words))
<1>1. buf[c] \in Seq(Vocabulary) /\ said[c] \in Seq(Saying) /\ Len(todo[c]) \in Nat
      /\ p.words \in Seq(Vocabulary)
  BY PiecesTyped DEF Typing
<1>2. CASE p.words = <<>>
  <2>1. buf[c] \o p.words = buf[c] /\ Noted(c, p.words) = said[c]
    BY <1>1, <1>2 DEF Noted
  <2>. QED
    BY <2>1, <1>1
<1>3. CASE p.words # <<>>
  <2>1. p.words \in Commands
    BY <1>3, PieceCommand
  <2> DEFINE new == [at |-> Len(buf[c]) + 1, words |-> p.words, call |-> Len(todo[c])]
  <2>2. Noted(c, p.words) = Append(said[c], new)
    BY <1>3 DEF Noted
  <2>3. new \in Saying
    BY <2>1, <1>1 DEF Saying
  <2>. QED
    <3>1. Append(said[c], new) \in Seq(Saying)
      BY <2>3, <1>1
    <3>2. Laid(buf[c] \o p.words, Append(said[c], new), Len(buf[c] \o p.words))
      BY <2>1, <1>1, AppendLaid
    <3>. QED
      BY <2>2, <3>1, <3>2
<1>. QED
  BY <1>2, <1>3

-----------------------------------------------------------------------------
LEMMA ClientTyped ==
  ASSUME Typing, BufferInv, NEW c \in Clients, ClientNext(c) \/ Call(c) \/ Goodbye(c)
  PROVE  Typing'
<1> USE DEF serverVars, callVars, pushVars
<1>1. CASE Call(c)
  BY <1>1 DEF Call, Typing
<1>2. CASE Goodbye(c)
  <2>1. <<Farewell>> \in Seq(Pieces)
    BY PiecesTyped
  <2>. QED
    BY <1>2, <2>1 DEF Goodbye, Emptied, Typing
<1>3. CASE Enter(c)
  BY <1>3, PiecesTyped DEF Enter, Typing
<1>4. CASE PushPiece(c)
  <2>1. left[c] # <<>> /\ pc[c] # "wait"
    BY <1>4 DEF PushPiece, Busy
  <2>2. Laid(buf[c], said[c], Len(buf[c]))
    BY <2>1 DEF BufferInv, Used
  <2>3. Noted(c, Piece(c).words) \in Seq(Saying)
    BY <2>1, <2>2, HeadPiece, NotedLaid
  <2>4. buf[c] \o Piece(c).words \in Seq(Vocabulary)
    BY <2>1, HeadPiece DEF Typing
  <2>. QED
    <3>1. Tail(left[c]) \in Seq(Pieces)
      BY <2>1, HeadPiece
    <3>2. buf' \in [Clients -> Seq(Vocabulary)] /\ said' \in [Clients -> Seq(Saying)]
          /\ full' \in [Clients -> BOOLEAN]
      <4>1. CASE Fits(c, Piece(c).words)
        BY <1>4, <4>1, <2>3, <2>4 DEF PushPiece, Pushed, Typing
      <4>2. CASE ~Fits(c, Piece(c).words)
        <5>1. /\ buf' = [buf EXCEPT ![c] = <<>>] /\ said' = [said EXCEPT ![c] = <<>>]
              /\ full' = [full EXCEPT ![c] = TRUE]
          BY <1>4, <4>2 DEF PushPiece, Pushed
        <5>2. <<>> \in Seq(Vocabulary) /\ <<>> \in Seq(Saying)
          OBVIOUS
        <5>. QED
          BY <5>1, <5>2 DEF Typing
      <4>. QED
        BY <4>1, <4>2
    <3>. QED
      BY <1>4, <2>1, <3>1, <3>2 DEF PushPiece, Busy, Typing
<1>5. CASE SubmitPiece(c)
  <2>1. left[c] # <<>> /\ pc[c] # "wait"
    BY <1>5 DEF SubmitPiece, Busy
  <2>2. Laid(buf[c], said[c], Len(buf[c]))
    BY <2>1 DEF BufferInv, Used
  <2>3. Noted(c, Piece(c).words) \in Seq(Saying)
    BY <2>1, <2>2, HeadPiece, NotedLaid
  <2>4. buf[c] \o Append(Piece(c).words, "0") \in Seq(Vocabulary)
    <3>1. "0" \in Vocabulary
      BY DEF Vocabulary
    <3>. QED
      BY <3>1, <2>1, HeadPiece DEF Typing
  <2>. QED
    BY <1>5, <2>1, <2>3, <2>4, HeadPiece DEF SubmitPiece, Typing
<1>6. CASE DropPiece(c)
  BY <1>6 DEF DropPiece, Emptied, Busy, Typing
<1>7. CASE ReadPiece(c)
  <2>1. left[c] # <<>>
    BY <1>7 DEF ReadPiece, Typing
  <2>. QED
    BY <1>7, <2>1, HeadPiece DEF ReadPiece, Typing
<1>8. CASE Return(c)
  BY <1>8 DEF Return, Typing
<1>. QED
  BY <1>1, <1>2, <1>3, <1>4, <1>5, <1>6, <1>7, <1>8 DEF ClientNext

LEMMA ClientBuffers ==
  ASSUME Typing, Typing', BufferInv, ServerInv, NEW c \in Clients,
         ClientNext(c) \/ Call(c) \/ Goodbye(c)
  PROVE  BufferInv' /\ ServerInv'
<1> USE DEF serverVars, callVars
<1>1. CASE Call(c) \/ Enter(c) \/ ReadPiece(c) \/ Return(c)
  <2>1. UNCHANGED <<pushVars, serving, exec, pos, ran>>
    BY <1>1 DEF Call, Enter, ReadPiece, Return
  <2>2. \A d \in Clients : pc'[d] = "wait" <=> pc[d] = "wait"
    BY <1>1 DEF Call, Enter, ReadPiece, Return, Typing
  <2>. QED
    BY <2>1, <2>2, SameBuffers
<1>2. ASSUME Emptied(c), pc[c] # "wait", pc'[c] # "wait", UNCHANGED <<serving, exec, pos, ran>>,
             \A d \in Clients \ {c} : pc'[d] = pc[d]
      PROVE  BufferInv' /\ ServerInv'
  <2>1. buf'[c] = <<>> /\ said'[c] = <<>> /\ ~full'[c]
        /\ \A d \in Clients \ {c} :
             buf'[d] = buf[d] /\ said'[d] = said[d] /\ full'[d] = full[d]
    BY <1>2 DEF Emptied, Typing
  <2>2. Laid(buf'[c], said'[c], Used(c)')
    BY <1>2, <2>1 DEF Laid, From, Used
  <2>. QED
    BY <1>2, <2>1, <2>2, OwnBuffer, CapacityAssumption
<1>3. CASE Goodbye(c)
  BY <1>2, <1>3 DEF Goodbye, Typing
<1>4. CASE DropPiece(c)
  BY <1>2, <1>4 DEF DropPiece, Busy, Typing
<1>5. CASE PushPiece(c)
  <2>1. left[c] # <<>> /\ pc[c] # "wait" /\ pc' = pc /\ UNCHANGED <<serving, exec, pos, ran>>
    BY <1>5 DEF PushPiece, Busy
  <2>2. Laid(buf[c], said[c], Len(buf[c]))
    BY <2>1 DEF BufferInv, Used
  <2>3. CASE Fits(c, Piece(c).words)
    <3>1. /\ buf'[c] = buf[c] \o Piece(c).words /\ said'[c] = Noted(c, Piece(c).words)
          /\ full' = full /\ ~full[c]
          /\ \A d \in Clients \ {c} : buf'[d] = buf[d] /\ said'[d] = said[d]
      BY <1>5, <2>3 DEF PushPiece, Pushed, Fits, Typing
    <3>2. Laid(buf'[c], said'[c], Len(buf'[c]))
      BY <2>1, <2>2, <3>1, HeadPiece, NotedLaid
    <3>3. Len(buf'[c]) <= Capacity
      BY <2>1, <2>3, <3>1, HeadPiece DEF Fits, Typing
    <3>4. Laid(buf'[c], said'[c], Used(c)')
      BY <2>1, <3>2 DEF Used
    <3>. QED
      BY <2>1, <3>1, <3>3, <3>4, OwnBuffer
  <2>4. CASE ~Fits(c, Piece(c).words)
    <3>1. /\ buf'[c] = <<>> /\ said'[c] = <<>>
          /\ \A d \in Clients \ {c} :
               buf'[d] = buf[d] /\ said'[d] = said[d] /\ full'[d] = full[d]
      BY <1>5, <2>4 DEF PushPiece, Pushed, Typing
    <3>2. Laid(buf'[c], said'[c], Used(c)')
      BY <2>1, <3>1 DEF Laid, From, Used
    <3>. QED
      BY <2>1, <3>1, <3>2, OwnBuffer, CapacityAssumption
  <2>. QED
    BY <2>3, <2>4
<1>6. CASE SubmitPiece(c)
  <2> DEFINE words == Piece(c).words
  <2>1. left[c] # <<>> /\ pc[c] # "wait" /\ UNCHANGED <<serving, exec, pos, ran>>
        /\ pc'[c] = "wait" /\ \A d \in Clients \ {c} : pc'[d] = pc[d]
    BY <1>6 DEF SubmitPiece, Busy, Typing
  <2>2. Laid(buf[c], said[c], Len(buf[c]))
    BY <2>1 DEF BufferInv, Used
  <2>3. Piece(c) \in Pieces /\ words \in Seq(Vocabulary) /\ buf[c] \in Seq(Vocabulary)
        /\ "0" \in Vocabulary
    BY <2>1, HeadPiece DEF Typing, Vocabulary
  <2>4. /\ buf'[c] = buf[c] \o Append(words, "0") /\ said'[c] = Noted(c, words)
        /\ full' = full /\ ~full[c] /\ Len(buf[c]) + Len(Append(words, "0")) <= Capacity
        /\ \A d \in Clients \ {c} : buf'[d] = buf[d] /\ said'[d] = said[d]
    BY <1>6 DEF SubmitPiece, Fits, Typing
  <2> HIDE DEF words
  <2>5. buf'[c] = (buf[c] \o words) \o <<"0">> /\ Len(buf'[c]) = Len(buf[c] \o words) + 1
        /\ buf'[c][Len(buf'[c])] = "0" /\ Len(buf'[c]) <= Capacity
    <3>1. Append(words, "0") = words \o <<"0">> /\ <<"0">> \in Seq(Vocabulary)
      BY <2>3, AppendIsConcat
    <3>2. buf'[c] = (buf[c] \o words) \o <<"0">>
      <4>1. (buf[c] \o words) \o <<"0">> = buf[c] \o (words \o <<"0">>)
        <5>1. \A s, t, u \in Seq(Vocabulary) : (s \o t) \o u = s \o (t \o u)
          BY ConcatAssociative
        <5>. QED
          BY <2>3, <3>1, <5>1
      <4>2. buf'[c] = buf[c] \o (words \o <<"0">>)
        BY <2>4, <3>1
      <4>. QED
        BY <4>1, <4>2
    <3>3. buf[c] \o words \in Seq(Vocabulary)
          /\ Len(Append(words, "0")) = Len(words) + 1 /\ Len(words) \in Nat
          /\ Len(buf[c] \o words) = Len(buf[c]) + Len(words) /\ Len(buf[c]) \in Nat
      BY <2>3
    <3>4. Len(buf'[c]) = Len(buf[c] \o words) + 1 /\ buf'[c][Len(buf'[c])] = "0"
      <4>1. /\ Len((buf[c] \o words) \o <<"0">>) = Len(buf[c] \o words) + 1
            /\ ((buf[c] \o words) \o <<"0">>)[Len(buf[c] \o words) + 1] = "0"
        BY <2>3, <3>3
      <4>. QED
        BY <3>2, <4>1
    <3>5. Len(buf'[c]) <= Capacity
      <4> DEFINE m == Len(buf[c])
                 n == Len(words)
      <4>2. m \in Nat /\ n \in Nat /\ Len(buf[c] \o words) = m + n
            /\ Len(Append(words, "0")) = n + 1
        BY <3>3
      <4>3. Len(buf'[c]) = (m + n) + 1
        BY <3>4, <4>2
      <4> HIDE DEF m, n
      <4>4. (m + n) + 1 = m + (n + 1)
        BY <4>2
      <4>1. Len(buf'[c]) = m + Len(Append(words, "0"))
        BY <4>2, <4>3, <4>4
      <4>. QED
        BY <2>4, <4>1 DEF m
    <3>. QED
      BY <3>2, <3>4, <3>5
  <2>6. Noted(c, words) \in Seq(Saying)
        /\ Laid(buf[c] \o words, Noted(c, words), Len(buf[c] \o words))
    BY <2>2, <2>3, NotedLaid DEF words
  <2>7. buf[c] \o words \in Seq(Vocabulary) /\ <<"0">> \in Seq(Vocabulary)
    BY <2>3
  <2>8. Laid((buf[c] \o words) \o <<"0">>, Noted(c, words), Len(buf[c] \o words))
    <3>1. Len(buf[c] \o words) \in Nat
      BY <2>7
    <3>. QED
      BY <2>6, <2>7, <3>1, ExtendLaid
  <2>9. Laid(buf'[c], said'[c], Used(c)')
    <3>1. Used(c)' = Len(buf[c] \o words)
      BY <2>1, <2>5, <2>7 DEF Used
    <3>. QED
      BY <2>4, <2>5, <2>8, <3>1
  <2>. QED
    BY <2>1, <2>4, <2>5, <2>9, OwnBuffer
<1>. QED
  BY <1>1, <1>3, <1>4, <1>5, <1>6 DEF ClientNext

-----------------------------------------------------------------------------
(* The server.  Where a command begins, its words follow; where none does, *)
(* there is the zero.                                                      *)
LEMMA WordsHere ==
  ASSUME Typing, BufferInv, ServerInv, serving # None, ran < Len(said[serving])
  PROVE  LET words == said[serving][ran + 1].words
         IN /\ words \in Commands /\ Len(words) \in Nat \ {0} /\ words \in Seq(Vocabulary)
            /\ Word(pos) = words[1]
            /\ \A k \in 1..(Len(words) - 1) : Word(pos + k) = words[k + 1]
            /\ pos + Len(words) = From(said[serving], ran + 2, Used(serving))
<1> DEFINE s == said[serving]
           b == buf[serving]
           e == Used(serving)
           words == s[ran + 1].words
<1>1. serving \in Clients /\ s \in Seq(Saying) /\ b \in Seq(Vocabulary)
      /\ ran + 1 \in 1..Len(s) /\ ran \in Nat
  BY DEF Typing
<1>2. Laid(b, s, e) /\ e \in 0..Len(b) /\ e \in Nat
  <2>1. Laid(b, s, e)
    BY <1>1 DEF BufferInv
  <2>. QED
    BY <2>1, <1>1 DEF Laid
<1>3. pos = s[ran + 1].at
  BY <1>1 DEF ServerInv, From
<1> HIDE DEF s, b, e
<1>4. words \in Commands /\ Len(words) \in Nat \ {0} /\ words \in Seq(Vocabulary)
  BY <1>1, SayingTyped
<1>5. pos \in Nat \ {0} /\ pos + Len(words) <= e + 1
  BY <1>1, <1>2, <1>3, Bounded
<1>6. Lies(b, s[ran + 1])
  BY <1>1, <1>2 DEF Laid
<1>7. \A j \in 1..Len(words) : b[pos + j - 1] = words[j] /\ pos + j - 1 \in 1..Len(b)
  <2>1. SUFFICES ASSUME NEW j \in 1..Len(words)
                 PROVE  b[pos + j - 1] = words[j] /\ pos + j - 1 \in 1..Len(b)
    OBVIOUS
  <2>2. b[pos + j - 1] = words[j]
    BY <1>3, <1>6 DEF Lies
  <2>3. e <= Len(b) /\ Len(b) \in Nat
    BY <1>1, <1>2
  <2>. QED
    BY <1>2, <1>4, <1>5, <2>2, <2>3
<1>8. \A j \in 1..Len(words) : Word(pos + j - 1) = words[j]
  BY <1>7 DEF ServerInv, Copied, b
<1>9. Word(pos) = words[1]
  BY <1>4, <1>5, <1>8
<1>10. \A k \in 1..(Len(words) - 1) : Word(pos + k) = words[k + 1]
  <2>1. SUFFICES ASSUME NEW k \in 1..(Len(words) - 1)
                 PROVE  Word(pos + k) = words[k + 1]
    OBVIOUS
  <2>2. k + 1 \in 1..Len(words) /\ pos + (k + 1) - 1 = pos + k
    BY <1>4, <1>5
  <2>. QED
    BY <1>8, <2>2
<1>11. pos + Len(words) = From(s, ran + 2, e)
  <2>1. ran + 1 + 1 = ran + 2
    BY <1>1
  <2>. QED
    BY <1>1, <1>2, <1>3, <2>1 DEF Laid
<1>. QED
  BY <1>4, <1>9, <1>10, <1>11 DEF s, e

LEMMA ZeroHere ==
  ASSUME Typing, BufferInv, ServerInv, serving # None, ran = Len(said[serving])
  PROVE  Word(pos) = "0" /\ pos = Len(buf[serving])
<1>1. serving \in Clients /\ said[serving] \in Seq(Saying)
      /\ buf[serving] \in Seq(Vocabulary) /\ pc[serving] = "wait"
  BY DEF Typing, ServerInv
<1>2. Laid(buf[serving], said[serving], Len(buf[serving]) - 1)
      /\ buf[serving][Len(buf[serving])] = "0"
  BY <1>1 DEF BufferInv, Used
<1>3. pos = Len(buf[serving])
  BY <1>1 DEF ServerInv, From, Used
<1>4. Len(buf[serving]) \in 1..Len(buf[serving])
  BY <1>1, <1>2 DEF Laid
<1>. QED
  BY <1>1, <1>2, <1>3, <1>4 DEF ServerInv, Copied

(* With tables that agree the server runs the command that begins here     *)
LEMMA RunsMeant ==
  ASSUME TablesAgree, Typing, BufferInv, ServerInv, serving # None,
         ran < Len(said[serving])
  PROVE  LET words == said[serving][ran + 1].words
         IN /\ Word(pos) \notin Data \cup {"0"}
            /\ \E r \in Rows : r.command = Word(pos)
            /\ \A r \in Runnable : ReadsAll(r, words)
<1> DEFINE words == said[serving][ran + 1].words
<1>1. /\ words \in Commands /\ Len(words) \in Nat \ {0} /\ words \in Seq(Vocabulary)
      /\ Word(pos) = words[1]
      /\ \A k \in 1..(Len(words) - 1) : Word(pos + k) = words[k + 1]
  BY WordsHere
<1> HIDE DEF words
<1>2. AgreesOn(words)
  BY <1>1 DEF TablesAgree
<1>3. PICK r0 \in Rows : Possible(r0, words)
  BY <1>2 DEF AgreesOn
<1>4. r0.command = Word(pos) /\ Word(pos) \notin Data \cup {"0"}
  BY <1>1, <1>3 DEF Possible, TablesAgree, NamesApart
<1>5. ASSUME NEW r \in Runnable PROVE ReadsAll(r, words)
  <2>1. r \in Rows /\ r.command = words[1]
        /\ \A k \in 1..Len(r.layout) : Takes(r.layout[k], Word(pos + k))
    BY <1>1, <1>4 DEF Runnable, MayRun
  <2>2. \A k \in 1..Len(r.layout) : k < Len(words) => Takes(r.layout[k], words[k + 1])
    <3>1. SUFFICES ASSUME NEW k \in 1..Len(r.layout), k < Len(words)
                   PROVE  Takes(r.layout[k], words[k + 1])
      OBVIOUS
    <3>2. k \in 1..(Len(words) - 1)
      BY <3>1, <1>1
    <3>. QED
      BY <2>1, <3>2, <1>1
  <2>3. Possible(r, words)
    BY <2>1, <2>2 DEF Possible
  <2>. QED
    BY <1>2, <2>1, <2>3 DEF AgreesOn
<1>. QED
  BY <1>3, <1>4, <1>5 DEF words

LEMMA RunsNothing ==
  ASSUME TablesAgree, Typing, BufferInv, ServerInv, serving # None,
         ran = Len(said[serving])
  PROVE  Runnable = {}
<1>1. Word(pos) = "0"
  BY ZeroHere
<1>2. "0" \notin Data
  BY DEF Data, Values, Markers
<1>. QED
  BY <1>1, <1>2 DEF Runnable, MayRun, TablesAgree, NamesApart

(* Every word is a command the server knows                                *)
LEMMA NothingPassed ==
  ASSUME TablesAgree, Typing, BufferInv, ServerInv, serving # None PROVE Passed = {}
<1> SUFFICES ASSUME Word(pos) # "0", \A r \in Rows : r.command # Word(pos) PROVE FALSE
  BY DEF Passed
<1>1. ran <= Len(said[serving]) /\ ran \in Nat /\ Len(said[serving]) \in Nat
  BY DEF ServerInv, Typing
<1>2. ran = Len(said[serving]) \/ ran < Len(said[serving])
  BY <1>1
<1>. QED
  BY <1>2, ZeroHere, RunsMeant, TablesAgree

(* A command runs, and the server is where the next one begins             *)
LEMMA RunStep ==
  ASSUME TablesAgree, StreamInv, RunCommand
  PROVE  StreamInv'
<1>1. serving # None /\ Passed = {} /\ Runnable # {}
  BY NothingPassed, TablesAgree DEF RunCommand, StreamInv
<1>2. Typing /\ BufferInv /\ ServerInv /\ serving \in Clients /\ pc[serving] = "wait"
      /\ said[serving] \in Seq(Saying) /\ ran \in Nat /\ pos \in Nat
  BY <1>1 DEF StreamInv, Typing, ServerInv
<1>3. ran < Len(said[serving])
  BY <1>1, <1>2, RunsNothing DEF ServerInv
<1> DEFINE words == said[serving][ran + 1].words
<1>4. PICK r \in Runnable : /\ pos' = pos + 1 + Len(r.layout) /\ row' = r
                           /\ written' = written \cup r.writes
  BY <1>1 DEF RunCommand
<1>5. ReadsAll(r, words) /\ r \in Rows /\ Len(words) \in Nat \ {0}
      /\ pos + Len(words) = From(said[serving], ran + 2, Used(serving))
  BY <1>1, <1>2, <1>3, RunsMeant, WordsHere, TablesAgree DEF Runnable
<1>6. r.layout \in Seq(STRING) /\ r.writes \subseteq Registers
  BY <1>5, RowsAssumption
<1> HIDE DEF words
<1>7. pos' = From(said[serving], ran + 2, Used(serving)) /\ pos' \in Nat
  <2>1. Len(r.layout) + 1 = Len(words) /\ Len(r.layout) \in Nat
    BY <1>5, <1>6 DEF ReadsAll
  <2>2. pos' = pos + Len(words)
    <3>1. \A m, n \in Nat : m + 1 + n = m + (n + 1)
      OBVIOUS
    <3>2. pos + 1 + Len(r.layout) = pos + (Len(r.layout) + 1)
      BY <1>2, <2>1, <3>1
    <3>. QED
      BY <1>4, <2>1, <3>2
  <2>. QED
    BY <1>2, <1>5, <2>2
<1>8. ran' = ran + 1 /\ UNCHANGED <<pc, todo, left, pushVars, given, serving, exec>>
  BY DEF RunCommand, callVars
<1>9. Typing'
  <2>1. row' \in Rows /\ written' \subseteq Registers /\ ran' \in Nat
    BY <1>2, <1>4, <1>5, <1>6, <1>8 DEF Typing
  <2>. QED
    BY <1>2, <1>7, <1>8, <2>1 DEF Typing, pushVars
<1>10. BufferInv'
  BY <1>2, <1>8 DEF BufferInv, Used, pushVars
<1>11. ServerInv'
  <2>1. ran' + 1 = ran + 2 /\ ran' <= Len(said[serving])
    BY <1>2, <1>3, <1>8
  <2>. QED
    BY <1>1, <1>2, <1>7, <1>8, <2>1 DEF ServerInv, Copied, Word, Used, pushVars
<1>. QED
  BY <1>9, <1>10, <1>11 DEF StreamInv

(* The server answers when it has run everything                           *)
LEMMA AnswerLast ==
  ASSUME TablesAgree, StreamInv, Answer PROVE ran = Len(said[serving])
<1>1. serving # None /\ Word(pos) \in Data \cup {"0"}
  BY DEF Answer
<1>2. Typing /\ BufferInv /\ ServerInv /\ ran <= Len(said[serving]) /\ ran \in Nat
      /\ Len(said[serving]) \in Nat
  BY <1>1 DEF StreamInv, ServerInv, Typing
<1>3. ran = Len(said[serving]) \/ ran < Len(said[serving])
  BY <1>2
<1>. QED
  BY <1>1, <1>2, <1>3, RunsMeant, TablesAgree

LEMMA BeginStep ==
  ASSUME StreamInv, NEW c \in Clients, Begin(c) PROVE StreamInv'
<1>1. /\ pc[c] = "wait" /\ serving' = c /\ pos' = 1 /\ ran' = 0 /\ written' = {}
      /\ UNCHANGED <<pc, todo, left, pushVars, given, row>>
  BY DEF Begin, callVars
<1>2. Typing'
  BY <1>1 DEF StreamInv, Typing, pushVars
<1>3. BufferInv'
  BY <1>1 DEF StreamInv, BufferInv, Used, pushVars
<1>4. ServerInv'
  <2>1. From(said[c], 1, Used(c)) = 1 /\ Len(said[c]) \in Nat
    BY DEF StreamInv, BufferInv, Laid, Typing
  <2>2. Copied'
    <3>1. Len(buf[c]) <= Capacity /\ buf[c] \in Seq(Vocabulary)
      BY DEF StreamInv, BufferInv, Typing
    <3>. QED
      BY <1>1, <3>1, CapacityAssumption DEF Begin, Copied, Word, pushVars
  <2>. QED
    BY <1>1, <2>1, <2>2 DEF ServerInv, Used, pushVars
<1>. QED
  BY <1>2, <1>3, <1>4 DEF StreamInv

LEMMA AnswerStep ==
  ASSUME StreamInv, Answer PROVE StreamInv'
<1>1. serving \in Clients /\ pc[serving] = "wait" /\ serving # None
  BY DEF StreamInv, Typing, ServerInv, Answer
<1>2. /\ pc' = [pc EXCEPT ![serving] = "read"]
      /\ buf' = [buf EXCEPT ![serving] = <<>>] /\ said' = [said EXCEPT ![serving] = <<>>]
      /\ given' = [given EXCEPT ![serving] = written]
      /\ serving' = None /\ pos' = 0 /\ ran' = 0 /\ written' = {}
      /\ UNCHANGED <<todo, left, full, row>>
  BY DEF Answer, callVars
<1>3. Typing'
  BY <1>1, <1>2 DEF StreamInv, Typing
<1>4. BufferInv'
  <2>1. SUFFICES ASSUME NEW c \in Clients
                 PROVE  /\ Laid(buf'[c], said'[c], Used(c)')
                        /\ pc'[c] = "wait" => ~full'[c] /\ buf'[c][Len(buf'[c])] = "0"
                        /\ full'[c] => buf'[c] = <<>>
                        /\ Len(buf'[c]) <= Capacity
    BY DEF BufferInv
  <2>2. CASE c = serving
    <3>1. buf'[c] = <<>> /\ said'[c] = <<>> /\ pc'[c] = "read"
      BY <1>1, <1>2, <2>2 DEF StreamInv, Typing
    <3>. QED
      BY <3>1, CapacityAssumption DEF Laid, From, Used
  <2>3. CASE c # serving
    <3>1. buf'[c] = buf[c] /\ said'[c] = said[c] /\ pc'[c] = pc[c] /\ full'[c] = full[c]
      BY <1>1, <1>2, <2>3 DEF StreamInv, Typing
    <3>2. Used(c)' = Used(c)
      BY <3>1 DEF Used
    <3>. QED
      BY <3>1, <3>2 DEF StreamInv, BufferInv
  <2>. QED
    BY <2>2, <2>3
<1>5. ServerInv'
  BY <1>2 DEF ServerInv
<1>. QED
  BY <1>3, <1>4, <1>5 DEF StreamInv

(* The invariant of two tables that agree                                  *)
LEMMA StreamStep ==
  ASSUME TablesAgree, StreamInv, [Next]_vars PROVE StreamInv'
<1>1. ASSUME NEW c \in Clients, ClientNext(c) \/ Call(c) \/ Goodbye(c) PROVE StreamInv'
  BY <1>1, ClientTyped, ClientBuffers DEF StreamInv
<1>2. CASE ServerNext
  BY <1>2, BeginStep, RunStep, AnswerStep, TablesAgree DEF ServerNext
<1>3. CASE UNCHANGED vars
  BY <1>3 DEF vars, Copied, Word, callVars, pushVars, serverVars, StreamInv, Typing, BufferInv,
              ServerInv, Used
<1>. QED
  BY <1>1, <1>2, <1>3 DEF Next

LEMMA StreamInvariant == ASSUME TablesAgree PROVE Spec => []StreamInv
<1>1. Init => StreamInv
  BY InitInv
<1>2. StreamInv /\ [Next]_vars => StreamInv'
  BY StreamStep, TablesAgree
<1>. QED
  BY <1>1, <1>2, PTL DEF Spec

(* Whatever calls there are and whatever the server's cases do, if every   *)
(* case reads just the words of its command then no sequence of calls, no  *)
(* size of the buffer and no number of programs makes the server take data *)
(* for a command.                                                          *)
THEOREM ServerInSync == ASSUME TablesAgree PROVE Spec => []InSync
<1>1. StreamInv => InSync
  <2>1. SUFFICES ASSUME StreamInv, serving # None PROVE InSync
    BY DEF InSync
  <2>2. serving \in Clients /\ said[serving] \in Seq(Saying) /\ ran \in Nat
        /\ ran <= Len(said[serving]) /\ pc[serving] = "wait"
        /\ pos = From(said[serving], ran + 1, Used(serving))
        /\ buf[serving] \in Seq(Vocabulary)
    BY <2>1 DEF StreamInv, Typing, ServerInv
  <2>3. CASE ran < Len(said[serving])
    BY <2>2, <2>3 DEF From, InSync
  <2>4. CASE ran = Len(said[serving])
    BY <2>2, <2>4 DEF From, Used, InSync
  <2>. QED
    BY <2>2, <2>3, <2>4
<1>. QED
  BY <1>1, StreamInvariant, TablesAgree, PTL

(* The server's loop never leaves the buffer and always gets on: a command *)
(* ends behind where it began and not behind the zero that glimpl_submit   *)
(* puts at the end, and the server answers at that zero, with every        *)
(* command of the buffer run (sgl_cmd_processor_start has no bound of its  *)
(* own: it stops at a zero, wherever it finds one).                        *)
StaysInside ==
  [][/\ RunCommand => pos < pos' /\ pos' <= Len(buf[serving])
     /\ Answer => ran = Len(said[serving]) /\ pos = Len(buf[serving])]_vars

LEMMA RunInside ==
  ASSUME TablesAgree, StreamInv, StreamInv', RunCommand
  PROVE  pos < pos' /\ pos' <= Len(buf[serving])
<1>1. serving # None /\ Passed = {} /\ Typing /\ BufferInv /\ ServerInv
  BY NothingPassed, TablesAgree DEF RunCommand, StreamInv
<1>2. pos < pos'
  <2>1. PICK r \in Runnable : pos' = pos + 1 + Len(r.layout)
    BY <1>1 DEF RunCommand
  <2>2. r.layout \in Seq(STRING) /\ pos \in Nat
    BY <1>1, RowsAssumption DEF Runnable, Typing
  <2>3. \A m, n \in Nat : m < m + 1 + n
    OBVIOUS
  <2>4. Len(r.layout) \in Nat /\ pos \in Nat
    BY <2>2
  <2>5. pos < pos + 1 + Len(r.layout)
    BY <2>3, <2>4
  <2>. QED
    BY <2>1, <2>5
<1>3. UNCHANGED <<pc, buf, said, serving>> /\ ran' = ran + 1
  BY DEF RunCommand, pushVars
<1> DEFINE c == serving
           b == buf[c]
           s == said[c]
           e == Len(b) - 1
<1>4. c \in Clients /\ pc[c] = "wait" /\ b \in Seq(Vocabulary) /\ s \in Seq(Saying)
      /\ ran \in Nat
  BY <1>1 DEF Typing, ServerInv
<1>5. pos' = From(s, ran + 2, e)
  <2>1. pos' = From(s, ran' + 1, e) /\ ran' + 1 = ran + 2
    BY <1>1, <1>3, <1>4 DEF StreamInv, ServerInv, Used
  <2>. QED
    BY <2>1
<1>6. Laid(b, s, e)
  BY <1>1, <1>4 DEF BufferInv, Used
<1> HIDE DEF b, s, e
<1>7. e \in 0..Len(b) /\ \A k \in 1..Len(s) : s[k].at \in k..e
  BY <1>6 DEF Laid
<1>8. pos' <= e + 1
  <2>1. CASE ran + 2 \in 1..Len(s)
    BY <1>5, <1>7, <2>1 DEF From
  <2>2. CASE ran + 2 \notin 1..Len(s)
    BY <1>5, <1>7, <2>2 DEF From
  <2>. QED
    BY <2>1, <2>2
<1>9. e + 1 = Len(b)
  BY <1>4 DEF e
<1>. QED
  BY <1>2, <1>8, <1>9 DEF b

(* So a buffer of n words takes the server at most n rounds, and what lies *)
(* behind the words it was handed is never looked at.                      *)
THEOREM ServerStaysInside == ASSUME TablesAgree PROVE Spec => StaysInside
<1>1. ASSUME StreamInv, StreamInv', [Next]_vars
      PROVE  /\ RunCommand => pos < pos' /\ pos' <= Len(buf[serving])
             /\ Answer => ran = Len(said[serving]) /\ pos = Len(buf[serving])
  <2>1. Answer => serving # None /\ Typing /\ BufferInv /\ ServerInv
    BY <1>1 DEF Answer, StreamInv
  <2>2. Answer => ran = Len(said[serving])
    BY <1>1, AnswerLast, TablesAgree
  <2>3. Answer => pos = Len(buf[serving])
    BY <2>1, <2>2, ZeroHere
  <2>. QED
    BY <1>1, <2>2, <2>3, RunInside, TablesAgree
<1>. QED
  BY <1>1, StreamInvariant, TablesAgree, PTL DEF Spec, StaysInside

(* The parameters' types, and no buffer is ever longer than it may be nor  *)
(* holds more commands than words.                                         *)
THEOREM StreamTyped == ASSUME TablesAgree PROVE Spec => []TypeOK
<1>1. StreamInv => TypeOK
  <2>1. SUFFICES ASSUME StreamInv PROVE TypeOK
    OBVIOUS
  <2>2. ASSUME NEW c \in Clients
        PROVE  Len(buf[c]) <= Capacity /\ Len(said[c]) <= Len(buf[c])
    <3>1. Laid(buf[c], said[c], Used(c)) /\ Len(buf[c]) <= Capacity
          /\ Len(buf[c]) \in Nat /\ Len(said[c]) \in Nat
      BY <2>1 DEF StreamInv, BufferInv, Typing
    <3>. QED
      BY <3>1 DEF Laid
  <2>. QED
    BY <2>1, <2>2 DEF StreamInv, Typing, TypeOK
<1>. QED
  BY <1>1, StreamInvariant, TablesAgree, PTL

-----------------------------------------------------------------------------
(* Only the server and the programs' calls change what they change         *)
LEMMA ClientLeavesServer ==
  ASSUME NEW c \in Clients, ClientNext(c) \/ Call(c) \/ Goodbye(c)
  PROVE  UNCHANGED serverVars
BY DEF ClientNext, Call, Goodbye, Enter, PushPiece, SubmitPiece, DropPiece, ReadPiece, Return

(* A program's calls concern that program                                  *)
LEMMA ClientLeavesOthers ==
  ASSUME Typing, NEW c \in Clients, ClientNext(c) \/ Call(c) \/ Goodbye(c)
  PROVE  \A d \in Clients \ {c} :
           /\ pc'[d] = pc[d] /\ todo'[d] = todo[d] /\ left'[d] = left[d]
           /\ said'[d] = said[d] /\ full'[d] = full[d] /\ given'[d] = given[d]
<1> USE DEF Typing, callVars, pushVars
<1>1. CASE Call(c)
  BY <1>1 DEF Call
<1>2. CASE Goodbye(c)
  BY <1>2 DEF Goodbye, Emptied
<1>3. CASE Enter(c)
  BY <1>3 DEF Enter
<1>4. CASE PushPiece(c)
  BY <1>4 DEF PushPiece, Pushed
<1>5. CASE SubmitPiece(c)
  BY <1>5 DEF SubmitPiece
<1>6. CASE DropPiece(c)
  BY <1>6 DEF DropPiece, Emptied
<1>7. CASE ReadPiece(c)
  BY <1>7 DEF ReadPiece
<1>8. CASE Return(c)
  BY <1>8 DEF Return
<1> QED
  BY <1>1, <1>2, <1>3, <1>4, <1>5, <1>6, <1>7, <1>8 DEF ClientNext

(* What the server runs is what was pushed, word for word                  *)
LEMMA RunsWords ==
  ASSUME TablesAgree, StreamInv, RunCommand
  PROVE  /\ ran < Len(said[serving]) /\ ran' = ran + 1 /\ row' \in Rows
         /\ ReadsAll(row', said[serving][ran + 1].words)
         /\ took' = said[serving][ran + 1].words
<1>1. serving # None /\ Passed = {} /\ Runnable # {} /\ ran' = ran + 1
  BY NothingPassed, TablesAgree DEF RunCommand, StreamInv
<1>2. Typing /\ BufferInv /\ ServerInv /\ serving \in Clients
      /\ said[serving] \in Seq(Saying) /\ ran \in Nat /\ pos \in Nat
  BY <1>1 DEF StreamInv, Typing
<1>3. ran < Len(said[serving])
  BY <1>1, <1>2, RunsNothing DEF ServerInv
<1> DEFINE words == said[serving][ran + 1].words
<1>4. PICK r \in Runnable : /\ row' = r
                           /\ took' = [k \in 1..(1 + Len(r.layout)) |-> Word(pos + k - 1)]
  BY <1>1 DEF RunCommand
<1>5. r \in Rows /\ ReadsAll(r, words)
  BY <1>1, <1>2, <1>3, RunsMeant, TablesAgree DEF Runnable
<1>6. /\ words \in Seq(Vocabulary) /\ Len(words) \in Nat \ {0}
      /\ Word(pos) = words[1]
      /\ \A k \in 1..(Len(words) - 1) : Word(pos + k) = words[k + 1]
  BY <1>1, <1>2, <1>3, WordsHere
<1> HIDE DEF words
<1>7. 1 + Len(r.layout) = Len(words)
  <2>1. Len(r.layout) \in Nat /\ Len(r.layout) + 1 = Len(words)
    BY <1>5, RowsAssumption DEF ReadsAll
  <2>. QED
    BY <2>1
<1>8. ASSUME NEW j \in 1..Len(words) PROVE Word(pos + j - 1) = words[j]
  <2>1. CASE j = 1
    BY <2>1, <1>2, <1>6
  <2>2. CASE j # 1
    <3>1. j - 1 \in 1..(Len(words) - 1) /\ pos + j - 1 = pos + (j - 1) /\ (j - 1) + 1 = j
      BY <2>2, <1>2, <1>6
    <3>. QED
      BY <3>1, <1>6
  <2>. QED
    BY <2>1, <2>2
<1>9. took' = [j \in 1..Len(words) |-> words[j]]
  BY <1>4, <1>7, <1>8
<1>10. words = [j \in 1..Len(words) |-> words[j]]
  BY <1>6
<1>. QED
  BY <1>1, <1>3, <1>4, <1>5, <1>9, <1>10 DEF words

(* If moreover the cases take every word for what it was pushed as, then   *)
(* no float is ever given to GL as an integer, nor the other way round.    *)
THEOREM KindsAreKept == ASSUME TablesAgree, KindsAgree PROVE Spec => []KindsKept
<1>1. Init => KindsKept
  BY DEF Init, KindsKept
<1>2. ASSUME StreamInv, KindsKept, [Next]_vars PROVE KindsKept'
  <2>1. ASSUME NEW c \in Clients, ClientNext(c) \/ Call(c) \/ Goodbye(c) PROVE KindsKept'
    BY <1>2, <2>1, ClientLeavesServer DEF serverVars, KindsKept
  <2>2. CASE \E c \in Clients : Begin(c)
    BY <2>2 DEF Begin, KindsKept
  <2>3. CASE RunCommand
    <3> DEFINE words == said[serving][ran + 1].words
    <3>1. row' \in Rows /\ ReadsAll(row', words) /\ took' = words
      BY <1>2, <2>3, RunsWords, TablesAgree
    <3>2. words \in Commands /\ Len(words) \in Nat
      <4>1. serving # None /\ ran < Len(said[serving]) /\ Typing /\ BufferInv /\ ServerInv
        BY <1>2, <2>3, RunsWords, TablesAgree DEF RunCommand, StreamInv
      <4>. QED
        BY <4>1, WordsHere
    <3> HIDE DEF words
    <3>3. \A k \in DOMAIN row'.layout : SameUse(row'.layout[k], words[k + 1])
      BY <3>1, <3>2, KindsAgree DEF KindsAgree, AgreesOnKinds
    <3>4. row' # None
      BY <3>1, NoneAssumption
    <3>. QED
      BY <3>1, <3>3, <3>4 DEF KindsKept
  <2>4. CASE Answer
    BY <2>4 DEF Answer, KindsKept
  <2>5. CASE UNCHANGED vars
    BY <1>2, <2>5 DEF vars, serverVars, KindsKept
  <2>. QED
    BY <1>2, <2>1, <2>2, <2>3, <2>4, <2>5, TablesAgree DEF Next, ServerNext
<1>. QED
  BY <1>1, <1>2, StreamInvariant, TablesAgree, PTL DEF Spec

-----------------------------------------------------------------------------
(* The last command of a hand-over is the one the call waits for           *)
Asked(c) == Piece(c).reads
ReplyInv ==
  /\ \A c \in Clients :
       /\ pc[c] \in {"wait", "read"} => Piece(c).submit
       /\ pc[c] = "wait" /\ Asked(c) # {} =>
            /\ said[c] # <<>> /\ said[c][Len(said[c])].words = Piece(c).words
       /\ pc[c] = "read" => Asked(c) \subseteq given[c]
  /\ serving # None /\ ran = Len(said[serving]) => Asked(serving) \subseteq written

LEMMA ReplyClient ==
  ASSUME RepliesAgree, StreamInv, ReplyInv, NEW c \in Clients,
         ClientNext(c) \/ Call(c) \/ Goodbye(c)
  PROVE  ReplyInv'
<1> USE DEF serverVars, callVars, pushVars
<1>1. UNCHANGED <<serving, ran, written>>
  BY ClientLeavesServer
<1>2. pc[c] # "wait" /\ (serving # None => serving \in Clients \ {c})
  BY DEF ClientNext, Call, Goodbye, Enter, PushPiece, SubmitPiece, DropPiece, ReadPiece,
         Return, Busy, StreamInv, ServerInv, Typing
<1>3. \A d \in Clients \ {c} :
        pc'[d] = pc[d] /\ left'[d] = left[d] /\ said'[d] = said[d] /\ given'[d] = given[d]
  BY ClientLeavesOthers DEF StreamInv
<1>4. \A d \in Clients \ {c} : Piece(d)' = Piece(d)
  BY <1>3 DEF Piece
<1>5. serving # None /\ ran = Len(said[serving]) => Asked(serving) \subseteq written
  BY DEF ReplyInv
<1>6. (serving # None /\ ran = Len(said[serving]) => Asked(serving) \subseteq written)'
  BY <1>1, <1>2, <1>3, <1>4, <1>5 DEF Asked
<1>7. ASSUME pc'[c] \notin {"wait", "read"} PROVE ReplyInv'
  BY <1>3, <1>4, <1>6, <1>7 DEF ReplyInv, Asked
<1>8. CASE SubmitPiece(c)
  <2>1. /\ pc'[c] = "wait" /\ left'[c] = left[c] /\ Piece(c).submit /\ left[c] # <<>>
        /\ said'[c] = Noted(c, Piece(c).words)
    BY <1>8 DEF SubmitPiece, Busy, StreamInv, Typing
  <2>2. Piece(c)' = Piece(c)
    BY <2>1 DEF Piece
  <2>3. Piece(c) \in Pieces /\ said[c] \in Seq(Saying)
    BY <2>1, HeadPiece DEF StreamInv, Typing
  <2>4. ASSUME Asked(c) # {}
        PROVE  said'[c] # <<>> /\ said'[c][Len(said'[c])].words = Piece(c).words
    <3>1. Piece(c).words # <<>>
      BY <2>1, <2>3, <2>4, RepliesAgree DEF RepliesAgree, AgreesOnReply, Asked
    <3>. QED
      BY <2>1, <2>3, <3>1 DEF Noted
  <2>. QED
    BY <1>3, <1>4, <1>6, <2>1, <2>2, <2>4 DEF ReplyInv, Asked
<1>9. CASE DropPiece(c)
  <2>1. /\ pc'[c] = "read" /\ left'[c] = left[c] /\ Piece(c).submit /\ left[c] # <<>>
        /\ given'[c] = Registers
    BY <1>9 DEF DropPiece, Busy, StreamInv, Typing
  <2>2. Piece(c)' = Piece(c) /\ Asked(c) \subseteq Registers
    BY <2>1, HeadPiece, PiecesTyped DEF Piece, Asked, StreamInv
  <2>. QED
    BY <1>3, <1>4, <1>6, <2>1, <2>2 DEF ReplyInv, Asked
<1>10. CASE Enter(c) \/ PushPiece(c) \/ ReadPiece(c) \/ Return(c) \/ Call(c) \/ Goodbye(c)
  <2>1. pc'[c] \notin {"wait", "read"}
    BY <1>10 DEF Enter, PushPiece, ReadPiece, Return, Call, Goodbye, Busy, StreamInv, Typing
  <2>. QED
    BY <1>7, <2>1
<1>. QED
  BY <1>8, <1>9, <1>10 DEF ClientNext

LEMMA ReplyServer ==
  ASSUME TablesAgree, RepliesAgree, StreamInv, ReplyInv, ServerNext
  PROVE  ReplyInv'
<1> USE DEF callVars, pushVars
<1>1. ASSUME NEW c \in Clients, Begin(c) PROVE ReplyInv'
  <2>1. /\ serving' = c /\ ran' = 0 /\ written' = {} /\ pc[c] = "wait"
        /\ UNCHANGED <<pc, left, said, given>>
    BY <1>1 DEF Begin
  <2>2. Len(said[c]) = 0 => Asked(c) = {}
    BY <2>1 DEF ReplyInv, StreamInv, Typing
  <2>. QED
    BY <2>1, <2>2 DEF ReplyInv, Asked, Piece
<1>2. CASE RunCommand
  <2>1. /\ ran < Len(said[serving]) /\ ran' = ran + 1 /\ row' \in Rows
        /\ ReadsAll(row', said[serving][ran + 1].words)
    BY <1>2, RunsWords, TablesAgree
  <2>2. serving # None /\ UNCHANGED <<pc, left, said, given, serving>>
        /\ written' = written \cup row'.writes
    BY <1>2 DEF RunCommand
  <2>3. serving \in Clients /\ pc[serving] = "wait" /\ ran \in Nat
        /\ said[serving] \in Seq(Saying) /\ left[serving] # <<>>
    BY <2>2 DEF StreamInv, Typing, ServerInv
  <2>4. Piece(serving) \in Pieces /\ Piece(serving).submit
    BY <2>3, HeadPiece DEF ReplyInv, StreamInv
  <2>5. ASSUME ran' = Len(said[serving]) PROVE Asked(serving) \subseteq written'
    <3>1. CASE Asked(serving) = {}
      BY <3>1
    <3>2. CASE Asked(serving) # {}
      <4>1. said[serving][ran + 1].words = Piece(serving).words
        BY <2>1, <2>3, <2>5, <3>2 DEF ReplyInv
      <4>2. Possible(row', Piece(serving).words)
        BY <2>1, <4>1 DEF ReadsAll
      <4>3. Asked(serving) \subseteq row'.writes
        BY <2>1, <2>4, <3>2, <4>2, RepliesAgree DEF RepliesAgree, AgreesOnReply, Asked
      <4>. QED
        BY <2>2, <4>3
    <3>. QED
      BY <3>1, <3>2
  <2>. QED
    BY <2>2, <2>5 DEF ReplyInv, Asked, Piece
<1>3. CASE Answer
  <2>1. /\ pc' = [pc EXCEPT ![serving] = "read"] /\ said' = [said EXCEPT ![serving] = <<>>]
        /\ given' = [given EXCEPT ![serving] = written] /\ serving' = None
        /\ serving # None /\ left' = left
    BY <1>3 DEF Answer
  <2>2. serving \in Clients /\ pc[serving] = "wait"
    BY <2>1 DEF StreamInv, Typing, ServerInv
  <2>3. Asked(serving) \subseteq written
    BY <1>3, <2>1, AnswerLast, TablesAgree DEF ReplyInv
  <2>4. \A c \in Clients : Piece(c)' = Piece(c)
    BY <2>1 DEF Piece
  <2>. QED
    BY <2>1, <2>2, <2>3, <2>4 DEF ReplyInv, Asked, StreamInv, Typing
<1>. QED
  BY <1>1, <1>2, <1>3, TablesAgree DEF ServerNext

(* If moreover every case a call asks writes the registers the call reads, *)
(* then no call ever reads an answer that was not given to it.             *)
THEOREM RepliesAreOwn == ASSUME TablesAgree, RepliesAgree PROVE Spec => []ReplyOwn
<1>1. Init => ReplyInv
  BY DEF Init, ReplyInv
<1>2. StreamInv /\ ReplyInv /\ [Next]_vars => ReplyInv'
  <2>1. SUFFICES ASSUME StreamInv, ReplyInv, [Next]_vars PROVE ReplyInv'
    OBVIOUS
  <2>2. CASE UNCHANGED vars
    BY <2>1, <2>2 DEF vars, callVars, pushVars, serverVars, ReplyInv, Asked, Piece
  <2>3. ASSUME NEW c \in Clients, ClientNext(c) \/ Call(c) \/ Goodbye(c) PROVE ReplyInv'
    BY <2>1, <2>3, ReplyClient, RepliesAgree
  <2>4. CASE ServerNext
    BY <2>1, <2>4, ReplyServer, TablesAgree, RepliesAgree
  <2>. QED
    BY <2>1, <2>2, <2>3, <2>4 DEF Next
<1>3. ReplyInv => ReplyOwn
  BY DEF ReplyInv, ReplyOwn, Asked
<1>. QED
  BY <1>1, <1>2, <1>3, StreamInvariant, TablesAgree, PTL DEF Spec

-----------------------------------------------------------------------------
(* Each command that may use the upload comes after one of its own call    *)
(* that sets it                                                            *)
UploadsSaid(s) ==
  \A k \in 1..Len(s) : MayUse(s[k].words) =>
    \E j \in 1..(k - 1) : SetsUpload(s[j].words) /\ \A i \in j..k : s[i].call = s[k].call

(* The call at hand has set the upload in the commands s of this hand-over *)
UploadIn(s, call) ==
  \E m \in 1..Len(s) : SetsUpload(s[m].words) /\ \A i \in m..Len(s) : s[i].call = call
Ready(c) == full[c] \/ UploadIn(said[c], Len(todo[c]))
(* Nothing that is left to push uses an upload that is neither there nor   *)
(* pushed before                                                           *)
Covered(says, ready) ==
  \A k \in 1..Len(says) : MayUse(says[k].words) =>
    UploadsFirst(says, k) \/ (ready /\ \A i \in 1..(k - 1) : ~says[i].submit)

UploadInv ==
  /\ \A c \in Clients : UploadsSaid(said[c])
  /\ \A c \in Clients :
       /\ pc[c] = "call" => Covered(left[c], Ready(c))
       /\ pc[c] \in {"wait", "read"} =>
            left[c] # <<>> /\ left[c][1].submit /\ Covered(Tail(left[c]), FALSE)
  /\ serving # None =>
       /\ \A j \in 1..ran : SetsUpload(said[serving][j].words) =>
            \E i \in j..ran : uploaded = <<serving, said[serving][i].call>>
       /\ ran > 0 => Possible(row, said[serving][ran].words)

LEMMA NothingBefore == ASSUME NEW says PROVE ~UploadsFirst(says, 1)
BY DEF UploadsFirst

(* A piece that only pushes is done                                        *)
LEMMA CoveredAfterPush ==
  ASSUME NEW says \in Seq(Pieces), says # <<>>, ~says[1].submit,
         NEW ready, NEW after, Covered(says, ready),
         ready \/ SetsUpload(says[1].words) => after
  PROVE  Covered(Tail(says), after)
<1>1. Tail(says) \in Seq(Pieces) /\ Len(Tail(says)) = Len(says) - 1 /\ Len(says) \in Nat \ {0}
      /\ \A i \in 1..Len(Tail(says)) : Tail(says)[i] = says[i + 1]
  OBVIOUS
<1> DEFINE rest == Tail(says)
<1> HIDE DEF rest
<1> SUFFICES ASSUME NEW k \in 1..Len(rest), MayUse(rest[k].words)
             PROVE  UploadsFirst(rest, k) \/ (after /\ \A i \in 1..(k - 1) : ~rest[i].submit)
  BY DEF Covered, rest
<1>2. k + 1 \in 1..Len(says) /\ k \in Nat /\ \A i \in 1..k : rest[i] = says[i + 1]
  BY <1>1 DEF rest
<1>3. UploadsFirst(says, k + 1) \/ (ready /\ \A i \in 1..k : ~says[i].submit)
  <2>1. MayUse(says[k + 1].words) /\ (k + 1) - 1 = k
    BY <1>2
  <2>. QED
    BY <1>2, <2>1 DEF Covered
<1>4. CASE ready /\ \A i \in 1..k : ~says[i].submit
  <2>1. after /\ k - 1 \in Int
    BY <1>2, <1>4
  <2>2. \A i \in 1..(k - 1) : ~rest[i].submit
    BY <1>2, <1>4
  <2>. QED
    BY <2>1, <2>2
<1>5. CASE UploadsFirst(says, k + 1)
  <2>1. PICK j \in 1..k : SetsUpload(says[j].words) /\ \A i \in j..k : ~says[i].submit
    <3>1. (k + 1) - 1 = k
      BY <1>2
    <3>. QED
      BY <1>5, <3>1 DEF UploadsFirst
  <2>4. ASSUME NEW i \in (j - 1)..(k - 1), i \in Nat \ {0} PROVE ~rest[i].submit
    <3>1. i \in 1..k /\ i + 1 \in j..k
      BY <1>2, <2>4
    <3>. QED
      BY <1>2, <2>1, <3>1
  <2>2. CASE j = 1
    <3>1. \A i \in 1..(k - 1) : ~rest[i].submit
      BY <1>2, <2>2, <2>4
    <3>. QED
      BY <2>1, <2>2, <3>1
  <2>3. CASE j # 1
    <3>1. j - 1 \in 1..(k - 1) /\ rest[j - 1] = says[j]
      BY <1>2, <2>3
    <3>2. \A i \in (j - 1)..(k - 1) : ~rest[i].submit
      BY <1>2, <2>4, <3>1
    <3>. QED
      BY <2>1, <3>1, <3>2 DEF UploadsFirst
  <2>. QED
    BY <2>2, <2>3
<1>. QED
  BY <1>3, <1>4, <1>5

(* A piece that hands over is done: nothing is left of it                  *)
LEMMA CoveredAfterSubmit ==
  ASSUME NEW says \in Seq(Pieces), says # <<>>, says[1].submit,
         NEW ready, Covered(says, ready)
  PROVE  Covered(Tail(says), FALSE)
<1>1. Tail(says) \in Seq(Pieces) /\ Len(Tail(says)) = Len(says) - 1 /\ Len(says) \in Nat \ {0}
      /\ \A i \in 1..Len(Tail(says)) : Tail(says)[i] = says[i + 1]
  OBVIOUS
<1> DEFINE rest == Tail(says)
<1> HIDE DEF rest
<1> SUFFICES ASSUME NEW k \in 1..Len(rest), MayUse(rest[k].words)
             PROVE  UploadsFirst(rest, k)
  BY DEF Covered, rest
<1>2. k + 1 \in 1..Len(says) /\ k \in Nat \ {0} /\ \A i \in 1..k : rest[i] = says[i + 1]
  BY <1>1 DEF rest
<1>3. UploadsFirst(says, k + 1)
  <2>1. MayUse(says[k + 1].words) /\ (k + 1) - 1 = k /\ 1 \in 1..k
    BY <1>2
  <2>. QED
    BY <1>2, <2>1 DEF Covered
<1>4. PICK j \in 1..k : SetsUpload(says[j].words) /\ \A i \in j..k : ~says[i].submit
  <2>1. (k + 1) - 1 = k
    BY <1>2
  <2>. QED
    BY <1>3, <2>1 DEF UploadsFirst
<1>5. j # 1
  BY <1>2, <1>4
<1>6. j - 1 \in 1..(k - 1) /\ rest[j - 1] = says[j]
  BY <1>2, <1>5
<1>7. ASSUME NEW i \in (j - 1)..(k - 1) PROVE ~rest[i].submit
  <2>1. i \in 1..k /\ i + 1 \in j..k
    BY <1>2, <1>6
  <2>. QED
    BY <1>2, <1>4, <2>1
<1>. QED
  BY <1>4, <1>6, <1>7 DEF UploadsFirst

LEMMA CoveredMore ==
  ASSUME NEW says, NEW ready, Covered(says, FALSE) PROVE Covered(says, ready)
BY DEF Covered

(* A command is noted after those of the hand-over                         *)
LEMMA UploadNoted ==
  ASSUME Typing, NEW c \in Clients, UploadsSaid(said[c]), NEW words,
         MayUse(words) => UploadIn(said[c], Len(todo[c]))
  PROVE  /\ UploadsSaid(Noted(c, words))
         /\ UploadIn(said[c], Len(todo[c])) \/ SetsUpload(words)
              => UploadIn(Noted(c, words), Len(todo[c]))
<1> DEFINE call == Len(todo[c])
           new == [at |-> Len(buf[c]) + 1, words |-> words, call |-> call]
           s == said[c]
           t == Append(s, new)
<1>1. CASE words = <<>>
  BY <1>1 DEF Noted, SetsUpload
<1>2. CASE words # <<>>
  <2>1. Noted(c, words) = t
    BY <1>2 DEF Noted
  <2>2. s \in Seq(Saying)
    BY DEF Typing
  <2>3. /\ Len(t) = Len(s) + 1 /\ Len(s) \in Nat /\ t[Len(s) + 1] = new
        /\ \A i \in 1..Len(s) : t[i] = s[i]
    BY <2>2
  <2>4. new.words = words /\ new.call = call
    OBVIOUS
  <2> HIDE DEF s, t, new, call
  <2>5. ASSUME UploadIn(s, call) PROVE UploadIn(t, call)
    <3>1. PICK m \in 1..Len(s) : SetsUpload(s[m].words) /\ \A i \in m..Len(s) : s[i].call = call
      BY <2>5 DEF UploadIn
    <3>2. m \in 1..Len(t) /\ SetsUpload(t[m].words)
      BY <2>3, <3>1
    <3>3. \A i \in m..Len(t) : t[i].call = call
      BY <2>3, <2>4, <3>1
    <3>. QED
      BY <3>2, <3>3 DEF UploadIn
  <2>6. ASSUME SetsUpload(words) PROVE UploadIn(t, call)
    <3>1. Len(t) \in 1..Len(t) /\ SetsUpload(t[Len(t)].words)
      BY <2>3, <2>4, <2>6
    <3>2. \A i \in Len(t)..Len(t) : t[i].call = call
      BY <2>3, <2>4
    <3>. QED
      BY <3>1, <3>2 DEF UploadIn
  <2>7. ASSUME NEW k \in 1..Len(t), MayUse(t[k].words)
        PROVE  \E j \in 1..(k - 1) :
                 SetsUpload(t[j].words) /\ \A i \in j..k : t[i].call = t[k].call
    <3>1. CASE k \in 1..Len(s)
      <4>1. PICK j \in 1..(k - 1) :
              SetsUpload(s[j].words) /\ \A i \in j..k : s[i].call = s[k].call
        BY <2>3, <2>7, <3>1 DEF UploadsSaid, s
      <4>. QED
        BY <2>3, <3>1, <4>1
    <3>2. CASE k = Len(s) + 1
      <4>1. UploadIn(s, call)
        BY <2>3, <2>4, <2>7, <3>2 DEF s, call
      <4>2. PICK m \in 1..Len(s) :
              SetsUpload(s[m].words) /\ \A i \in m..Len(s) : s[i].call = call
        BY <4>1 DEF UploadIn
      <4>3. m \in 1..(k - 1) /\ SetsUpload(t[m].words)
        BY <2>3, <3>2, <4>2
      <4>4. \A i \in m..k : t[i].call = t[k].call
        BY <2>3, <2>4, <3>2, <4>2
      <4>. QED
        BY <4>3, <4>4
    <3>. QED
      BY <2>3, <3>1, <3>2
  <2>8. UploadsSaid(t)
    BY <2>7 DEF UploadsSaid
  <2>. QED
    BY <2>1, <2>5, <2>6, <2>8 DEF s, call
<1>. QED
  BY <1>1, <1>2

(* What remains to be pushed of a call, in the three kinds of places       *)
PlanOf(c) ==
  /\ pc[c] = "call" => Covered(left[c], Ready(c))
  /\ pc[c] \in {"wait", "read"} =>
       left[c] # <<>> /\ left[c][1].submit /\ Covered(Tail(left[c]), FALSE)

LEMMA UploadClient ==
  ASSUME UploadsAgree, StreamInv, UploadInv, NEW c \in Clients,
         ClientNext(c) \/ Call(c) \/ Goodbye(c)
  PROVE  UploadInv'
<1> USE DEF callVars, pushVars
<1>1. Typing /\ UNCHANGED <<serving, ran, uploaded, row>>
  BY ClientLeavesServer DEF StreamInv, serverVars
<1>2. serving # None => serving \in Clients \ {c}
  BY DEF ClientNext, Call, Goodbye, Enter, PushPiece, SubmitPiece, DropPiece, ReadPiece,
         Return, Busy, StreamInv, ServerInv, Typing
<1>3. \A d \in Clients \ {c} :
        /\ pc'[d] = pc[d] /\ todo'[d] = todo[d] /\ left'[d] = left[d]
        /\ said'[d] = said[d] /\ full'[d] = full[d]
  BY <1>1, ClientLeavesOthers
<1>4. \A d \in Clients \ {c} : UploadsSaid(said[d])' /\ PlanOf(d)'
  <2>1. \A d \in Clients : UploadsSaid(said[d]) /\ PlanOf(d)
    BY DEF UploadInv, PlanOf
  <2>2. \A d \in Clients \ {c} : PlanOf(d)' <=> PlanOf(d)
    BY <1>3 DEF PlanOf, Ready
  <2>. QED
    BY <1>3, <2>1, <2>2
<1>5. serving # None =>
        /\ \A j \in 1..ran : SetsUpload(said[serving][j].words) =>
             \E i \in j..ran : uploaded = <<serving, said[serving][i].call>>
        /\ ran > 0 => Possible(row, said[serving][ran].words)
  BY DEF UploadInv
<1>6. (serving # None =>
        /\ \A j \in 1..ran : SetsUpload(said[serving][j].words) =>
             \E i \in j..ran : uploaded = <<serving, said[serving][i].call>>
        /\ ran > 0 => Possible(row, said[serving][ran].words))'
  BY <1>1, <1>2, <1>3, <1>5
<1>7. ASSUME UploadsSaid(said'[c]), PlanOf(c)' PROVE UploadInv'
  BY <1>4, <1>6, <1>7 DEF UploadInv, PlanOf
<1>8. /\ UploadsSaid(said[c])
      /\ pc[c] = "call" => Covered(left[c], Ready(c))
      /\ pc[c] = "read" => Covered(Tail(left[c]), FALSE)
  BY DEF UploadInv
<1>9. UploadsSaid(<<>>)
  BY DEF UploadsSaid
<1>10. CASE Call(c) \/ Return(c)
  <2>1. said' = said /\ pc'[c] \notin {"call", "wait", "read"}
    BY <1>1, <1>10 DEF Call, Return, Typing
  <2>. QED
    BY <1>7, <1>8, <2>1 DEF PlanOf
<1>11. CASE Goodbye(c)
  <2>1. said'[c] = <<>> /\ pc'[c] = "call" /\ left'[c] = <<Farewell>>
    BY <1>1, <1>11 DEF Goodbye, Emptied, Typing
  <2>2. Covered(<<Farewell>>, Ready(c)')
    BY UploadsAgree DEF Covered, UploadsAgree
  <2>. QED
    BY <1>7, <1>9, <2>1, <2>2 DEF PlanOf
<1>12. CASE Enter(c)
  <2>1. said' = said /\ pc[c] = "enter"
    BY <1>12 DEF Enter
  <2>2. PICK e \in Entries :
          \/ pc'[c] = "call" /\ left'[c] = e.says
          \/ pc'[c] = "enter"
    BY <1>1, <1>12 DEF Enter, Typing
  <2>3. e.says \in Seq(Pieces) /\ AgreesOnUpload(e.says)
    BY UploadsAgree, PiecesTyped DEF UploadsAgree
  <2>4. Covered(e.says, Ready(c)')
    BY <2>3 DEF Covered, AgreesOnUpload
  <2>. QED
    BY <1>7, <1>8, <2>1, <2>2, <2>4 DEF PlanOf
<1>13. ASSUME Busy(c)
       PROVE  /\ Piece(c) = left[c][1] /\ left[c] \in Seq(Pieces) /\ left[c] # <<>>
              /\ Covered(left[c], Ready(c)) /\ pc[c] = "call"
              /\ MayUse(Piece(c).words) => Ready(c)
  <2>1. Piece(c) = left[c][1] /\ left[c] \in Seq(Pieces) /\ left[c] # <<>> /\ pc[c] = "call"
    BY <1>1, <1>13 DEF Busy, Piece, Typing
  <2>2. Covered(left[c], Ready(c)) /\ 1 \in 1..Len(left[c])
    BY <1>8, <2>1
  <2>. QED
    BY <2>1, <2>2, NothingBefore DEF Covered
<1>14. CASE PushPiece(c)
  <2>1. /\ Busy(c) /\ ~Piece(c).submit /\ Pushed(c, Piece(c).words)
        /\ left'[c] = Tail(left[c]) /\ pc' = pc /\ todo' = todo
    BY <1>1, <1>14 DEF PushPiece, Typing
  <2>2. UploadsSaid(said'[c]) /\ (Ready(c) \/ SetsUpload(Piece(c).words) => Ready(c)')
    <3>1. CASE Fits(c, Piece(c).words)
      <4>1. said'[c] = Noted(c, Piece(c).words) /\ full' = full /\ ~full[c]
        BY <1>1, <2>1, <3>1 DEF Pushed, Fits, Typing
      <4>2. MayUse(Piece(c).words) => UploadIn(said[c], Len(todo[c]))
        BY <1>13, <2>1, <4>1 DEF Ready
      <4>. QED
        BY <1>1, <1>8, <2>1, <4>1, <4>2, UploadNoted DEF Ready
    <3>2. CASE ~Fits(c, Piece(c).words)
      <4>1. said'[c] = <<>> /\ full'[c] = TRUE
        BY <1>1, <2>1, <3>2 DEF Pushed, Typing
      <4>. QED
        BY <1>9, <4>1 DEF Ready
    <3>. QED
      BY <3>1, <3>2
  <2>3. Covered(Tail(left[c]), Ready(c)')
    BY <1>13, <2>1, <2>2, CoveredAfterPush
  <2>4. pc'[c] = "call"
    BY <1>13, <2>1
  <2>. QED
    BY <1>7, <2>1, <2>2, <2>3, <2>4 DEF PlanOf
<1>15. CASE SubmitPiece(c)
  <2>1. /\ Busy(c) /\ Piece(c).submit /\ said'[c] = Noted(c, Piece(c).words)
        /\ pc'[c] = "wait" /\ left' = left /\ ~full[c]
    BY <1>1, <1>15 DEF SubmitPiece, Fits, Typing
  <2>2. MayUse(Piece(c).words) => UploadIn(said[c], Len(todo[c]))
    BY <1>13, <2>1 DEF Ready
  <2>3. UploadsSaid(said'[c])
    BY <1>1, <1>8, <2>1, <2>2, UploadNoted
  <2>4. left[c] # <<>> /\ left[c][1].submit /\ Covered(Tail(left[c]), FALSE)
    BY <1>13, <2>1, CoveredAfterSubmit
  <2>. QED
    BY <1>7, <2>1, <2>3, <2>4 DEF PlanOf
<1>16. CASE DropPiece(c)
  <2>1. /\ Busy(c) /\ Piece(c).submit /\ said'[c] = <<>>
        /\ pc'[c] = "read" /\ left' = left
    BY <1>1, <1>16 DEF DropPiece, Emptied, Typing
  <2>2. left[c] # <<>> /\ left[c][1].submit /\ Covered(Tail(left[c]), FALSE)
    BY <1>13, <2>1, CoveredAfterSubmit
  <2>. QED
    BY <1>7, <1>9, <2>1, <2>2 DEF PlanOf
<1>17. CASE ReadPiece(c)
  <2>1. said' = said /\ pc[c] = "read" /\ pc'[c] = "call" /\ left'[c] = Tail(left[c])
    BY <1>1, <1>17 DEF ReadPiece, Typing
  <2>2. Covered(Tail(left[c]), Ready(c)')
    BY <1>8, <2>1, CoveredMore
  <2>. QED
    BY <1>7, <1>8, <2>1, <2>2 DEF PlanOf
<1>. QED
  BY <1>10, <1>11, <1>12, <1>14, <1>15, <1>16, <1>17 DEF ClientNext

LEMMA UploadServer ==
  ASSUME TablesAgree, StreamInv, UploadInv, ServerNext
  PROVE  UploadInv'
<1> USE DEF callVars, pushVars
<1>1. Typing /\ \A c \in Clients : UploadsSaid(said[c]) /\ PlanOf(c)
  BY DEF StreamInv, UploadInv, PlanOf
<1>2. ASSUME UNCHANGED <<pc, todo, left, said, full>>
      PROVE  \A c \in Clients : UploadsSaid(said[c])' /\ PlanOf(c)'
  BY <1>1, <1>2 DEF PlanOf, Ready
<1>3. ASSUME NEW c \in Clients, Begin(c) PROVE UploadInv'
  <2>1. ran' = 0 /\ UNCHANGED <<pc, todo, left, said, full>>
    BY <1>3 DEF Begin
  <2>2. \A c2 \in Clients : UploadsSaid(said[c2])' /\ PlanOf(c2)'
    BY <1>2, <2>1
  <2>3. 1..ran' = {} /\ ~(ran' > 0)
    BY <2>1
  <2>. QED
    BY <2>2, <2>3 DEF UploadInv, PlanOf
<1>4. CASE RunCommand
  <2> DEFINE s == said[serving]
  <2>1. /\ ran < Len(s) /\ ran' = ran + 1 /\ Possible(row', s[ran + 1].words)
        /\ row' \in Rows
    BY <1>4, RunsWords, TablesAgree DEF ReadsAll
  <2>2. serving # None /\ UNCHANGED <<pc, todo, left, said, full, serving>>
        /\ uploaded' = IF row'.command \in {"VP_UPLOAD", "VP_NULL"} THEN Owner ELSE uploaded
    BY <1>4 DEF RunCommand
  <2>3. serving \in Clients /\ ran \in Nat /\ s \in Seq(Saying) /\ Len(s) \in Nat
    BY <1>1, <2>2 DEF Typing
  <2>4. Owner = <<serving, s[ran + 1].call>>
    BY <2>1, <2>3 DEF Owner
  <2>5. SetsUpload(s[ran + 1].words) => row'.command \in {"VP_UPLOAD", "VP_NULL"}
    BY <2>1 DEF SetsUpload, Possible
  <2> HIDE DEF s
  <2>6. ASSUME NEW j \in 1..ran', SetsUpload(s[j].words)
        PROVE  \E i \in j..ran' : uploaded' = <<serving, s[i].call>>
    <3>1. CASE row'.command \in {"VP_UPLOAD", "VP_NULL"}
      <4>1. ran + 1 \in j..ran' /\ uploaded' = <<serving, s[ran + 1].call>>
        BY <2>1, <2>2, <2>3, <2>4, <3>1
      <4>. QED
        BY <4>1
    <3>2. CASE row'.command \notin {"VP_UPLOAD", "VP_NULL"}
      <4>1. j \in 1..ran /\ uploaded' = uploaded
        BY <2>1, <2>2, <2>3, <2>5, <2>6, <3>2
      <4>2. PICK i \in j..ran : uploaded = <<serving, s[i].call>>
        BY <2>2, <2>6, <4>1 DEF UploadInv, s
      <4>3. i \in j..ran'
        BY <2>1, <2>3
      <4>. QED
        BY <4>1, <4>2, <4>3
    <3>. QED
      BY <3>1, <3>2
  <2>7. \A c \in Clients : UploadsSaid(said[c])' /\ PlanOf(c)'
    BY <1>2, <2>2
  <2>. QED
    BY <2>1, <2>2, <2>6, <2>7 DEF UploadInv, PlanOf, s
<1>5. CASE Answer
  <2>1. /\ pc' = [pc EXCEPT ![serving] = "read"] /\ said' = [said EXCEPT ![serving] = <<>>]
        /\ serving' = None /\ serving # None /\ UNCHANGED <<todo, left, full>>
    BY <1>5 DEF Answer
  <2>2. serving \in Clients /\ pc[serving] = "wait"
    BY <2>1 DEF StreamInv, Typing, ServerInv
  <2>3. UploadsSaid(<<>>)
    BY DEF UploadsSaid
  <2>4. \A c \in Clients \ {serving} : pc'[c] = pc[c] /\ said'[c] = said[c]
    BY <1>1, <2>1, <2>2 DEF Typing
  <2>5. pc'[serving] = "read" /\ said'[serving] = <<>>
    BY <1>1, <2>1, <2>2 DEF Typing
  <2>6. \A c \in Clients : PlanOf(c)'
    BY <1>1, <2>1, <2>2, <2>4, <2>5 DEF PlanOf, Ready
  <2>. QED
    BY <1>1, <2>1, <2>3, <2>4, <2>5, <2>6 DEF UploadInv, PlanOf
<1>. QED
  BY <1>3, <1>4, <1>5, TablesAgree DEF ServerNext

(* If moreover every call that has an upload used makes one first, in the  *)
(* same hand-over, then the memory the server gives GL was uploaded by the *)
(* call that pushed the command, whatever the other programs do and        *)
(* whatever the size of the buffer made the library drop.                  *)
THEOREM UploadsAreOwn == ASSUME TablesAgree, UploadsAgree PROVE Spec => []UploadOwn
<1>1. Init => UploadInv
  <2>1. SUFFICES ASSUME Init PROVE UploadInv
    OBVIOUS
  <2>2. \A c \in Clients : said[c] = <<>> /\ pc[c] \notin {"call", "wait", "read"}
    BY <2>1 DEF Init
  <2>3. UploadsSaid(<<>>)
    BY DEF UploadsSaid
  <2>. QED
    BY <2>1, <2>2, <2>3 DEF Init, UploadInv
<1>2. StreamInv /\ UploadInv /\ [Next]_vars => UploadInv'
  <2>1. SUFFICES ASSUME StreamInv, UploadInv, [Next]_vars PROVE UploadInv'
    OBVIOUS
  <2>2. CASE UNCHANGED vars
    BY <2>1, <2>2 DEF vars, callVars, pushVars, serverVars, UploadInv, Ready
  <2>3. ASSUME NEW c \in Clients, ClientNext(c) \/ Call(c) \/ Goodbye(c) PROVE UploadInv'
    BY <2>1, <2>3, UploadClient, UploadsAgree
  <2>4. CASE ServerNext
    BY <2>1, <2>4, UploadServer, TablesAgree
  <2>. QED
    BY <2>1, <2>2, <2>3, <2>4 DEF Next
<1>3. StreamInv /\ UploadInv => UploadOwn
  <2>1. SUFFICES ASSUME StreamInv, UploadInv, serving # None, ran > 0, row # None, row.uses
                 PROVE  /\ ran \in DOMAIN said[serving]
                        /\ uploaded = <<serving, said[serving][ran].call>>
    BY DEF UploadOwn
  <2>2. ran \in 1..Len(said[serving]) /\ said[serving] \in Seq(Saying) /\ serving \in Clients
    BY <2>1 DEF StreamInv, Typing, ServerInv
  <2>3. Possible(row, said[serving][ran].words) /\ row \in Rows
    <3>1. row \in Rows \cup {None, NoCase} /\ Possible(row, said[serving][ran].words)
      BY <2>1 DEF UploadInv, StreamInv, Typing
    <3>2. row # NoCase
      <4>1. ~NoCase.uses
        BY DEF NoCase
      <4>. QED
        BY <2>1, <4>1
    <3>. QED
      BY <2>1, <3>1, <3>2
  <2>4. said[serving][ran].words # <<>>
    BY <2>2, SayingTyped
  <2>5. MayUse(said[serving][ran].words)
    BY <2>1, <2>3, <2>4 DEF MayUse
  <2>6. PICK j \in 1..(ran - 1) :
          /\ SetsUpload(said[serving][j].words)
          /\ \A i \in j..ran : said[serving][i].call = said[serving][ran].call
    <3>1. UploadsSaid(said[serving])
      BY <2>1, <2>2 DEF UploadInv
    <3>. QED
      BY <2>2, <2>5, <3>1 DEF UploadsSaid
  <2>7. PICK i \in j..ran : uploaded = <<serving, said[serving][i].call>>
    BY <2>1, <2>2, <2>6 DEF UploadInv
  <2>. QED
    BY <2>2, <2>6, <2>7
<1>. QED
  BY <1>1, <1>2, <1>3, StreamInvariant, TablesAgree, PTL DEF Spec

-----------------------------------------------------------------------------
(* That the tables agree is a matter of one piece at a time, as the run    *)
(* wire_in_step looks at them: when each piece that the calls push agrees  *)
(* with the cases of the server, and no case has the number of data, the   *)
(* tables agree as the theorems about the command stream ask; and there is *)
(* no weaker way.                                                          *)
THEOREM PiecesSuffice ==
  NamesApart /\ (\A p \in Pieces : Agree(p)) <=> TablesAgree /\ KindsAgree /\ RepliesAgree
<1>1. Commands = {p.words : p \in Pieces} \ {<<>>}
  BY DEF Commands
<1>2. ASSUME NamesApart, \A p \in Pieces : Agree(p)
      PROVE  TablesAgree /\ KindsAgree /\ RepliesAgree
  <2>1. \A p \in Pieces : AgreesOnReply(p)
    BY <1>2 DEF Agree
  <2>2. ASSUME NEW words \in Commands PROVE AgreesOn(words) /\ AgreesOnKinds(words)
    <3>1. PICK p \in Pieces : p.words = words /\ words # <<>>
      BY <1>1
    <3>. QED
      BY <1>2, <3>1 DEF Agree
  <2>. QED
    BY <1>2, <2>1, <2>2 DEF TablesAgree, KindsAgree, RepliesAgree
<1>3. ASSUME TablesAgree, KindsAgree, RepliesAgree
      PROVE  NamesApart /\ \A p \in Pieces : Agree(p)
  <2>1. ASSUME NEW p \in Pieces, p.words # <<>> PROVE p.words \in Commands
    BY <1>1, <2>1
  <2>2. ASSUME NEW p \in Pieces, p.words # <<>> PROVE AgreesOn(p.words) /\ AgreesOnKinds(p.words)
    BY <1>3, <2>1, <2>2 DEF TablesAgree, KindsAgree
  <2>. QED
    BY <1>3, <2>2 DEF TablesAgree, RepliesAgree, Agree
<1>. QED
  BY <1>2, <1>3

-----------------------------------------------------------------------------
(* What is on the way, as the abstract queue sees it                       *)
LEMMA WordsTyped ==
  ASSUME NEW s \in Seq(Saying)
  PROVE  /\ WordsOf(s) \in Seq(Commands) /\ Len(WordsOf(s)) = Len(s)
         /\ DOMAIN WordsOf(s) = 1..Len(s)
         /\ \A k \in 1..Len(s) : WordsOf(s)[k] = s[k].words
<1>1. \A k \in 1..Len(s) : s[k].words \in Commands
  BY SayingTyped
<1>2. WordsOf(s) = [k \in 1..Len(s) |-> s[k].words]
  BY DEF WordsOf
<1>. QED
  BY <1>1, <1>2

LEMMA WordsAppend ==
  ASSUME NEW s \in Seq(Saying), NEW r \in Saying
  PROVE  WordsOf(Append(s, r)) = Append(WordsOf(s), r.words)
<1>1. Append(s, r) \in Seq(Saying) /\ Len(Append(s, r)) = Len(s) + 1
      /\ \A k \in 1..Len(s) : Append(s, r)[k] = s[k]
      /\ Append(s, r)[Len(s) + 1] = r
  OBVIOUS
<1>2. r.words \in Commands
  BY DEF Saying
<1> DEFINE t == Append(s, r)
<1>3. WordsOf(t) \in Seq(Commands) /\ Len(WordsOf(t)) = Len(t)
      /\ \A k \in 1..Len(t) : WordsOf(t)[k] = t[k].words
  BY <1>1, WordsTyped
<1>4. WordsOf(s) \in Seq(Commands) /\ Len(WordsOf(s)) = Len(s)
      /\ \A k \in 1..Len(s) : WordsOf(s)[k] = s[k].words
  BY WordsTyped
<1> DEFINE u == Append(WordsOf(s), r.words)
<1>5. u \in Seq(Commands) /\ Len(u) = Len(s) + 1 /\ u[Len(s) + 1] = r.words
      /\ \A k \in 1..Len(s) : u[k] = WordsOf(s)[k]
  BY <1>2, <1>4
<1> HIDE DEF t, u
<1>6. ASSUME NEW k \in 1..(Len(s) + 1) PROVE WordsOf(t)[k] = u[k]
  <2>1. CASE k \in 1..Len(s)
    BY <2>1, <1>1, <1>3, <1>4, <1>5 DEF t
  <2>2. CASE k = Len(s) + 1
    BY <2>2, <1>1, <1>3, <1>5 DEF t
  <2>. QED
    BY <2>1, <2>2
<1>7. Len(WordsOf(t)) = Len(s) + 1
  BY <1>1, <1>3 DEF t
<1>8. WordsOf(t) = u
  BY <1>3, <1>5, <1>6, <1>7
<1>. QED
  BY <1>8 DEF t, u

LEMMA NotedWords ==
  ASSUME Typing, NEW c \in Clients, NEW p \in Pieces
  PROVE  WordsOf(Noted(c, p.words)) =
           WordsOf(said[c]) \o (IF p.words = <<>> THEN <<>> ELSE <<p.words>>)
<1>1. said[c] \in Seq(Saying) /\ buf[c] \in Seq(Vocabulary) /\ todo[c] \in Seq(STRING)
  BY DEF Typing
<1>2. CASE p.words = <<>>
  BY <1>1, <1>2, WordsTyped DEF Noted
<1>3. CASE p.words # <<>>
  <2> DEFINE new == [at |-> Len(buf[c]) + 1, words |-> p.words, call |-> Len(todo[c])]
  <2>1. p.words \in Commands
    BY <1>3, PieceCommand
  <2>2. new \in Saying /\ new.words = p.words
    BY <1>1, <2>1 DEF Saying
  <2>3. Noted(c, p.words) = Append(said[c], new)
    BY <1>3 DEF Noted
  <2> HIDE DEF new
  <2>4. WordsOf(Noted(c, p.words)) = Append(WordsOf(said[c]), p.words)
    BY <1>1, <2>2, <2>3, WordsAppend
  <2>5. Append(WordsOf(said[c]), p.words) = WordsOf(said[c]) \o <<p.words>>
    BY <1>1, <2>1, WordsTyped, AppendIsConcat
  <2>. QED
    BY <1>3, <2>4, <2>5
<1>. QED
  BY <1>2, <1>3

(* A step of one program changes what the queue has of that program only   *)
LEMMA OthersQueued ==
  ASSUME Typing, Typing', NEW c \in Clients,
         \A d \in Clients \ {c} :
           pc'[d] = pc[d] /\ said'[d] = said[d] /\ Ran(d)' = Ran(d)
  PROVE  /\ [d \in Clients |-> Open(d)]' = [[d \in Clients |-> Open(d)] EXCEPT ![c] = Open(c)']
         /\ [d \in Clients |-> Due(d)]' = [[d \in Clients |-> Due(d)] EXCEPT ![c] = Due(c)']
<1>1. \A d \in Clients \ {c} : Open(d)' = Open(d) /\ Due(d)' = Due(d)
  BY DEF Open, Due
<1>. QED
  BY <1>1

LEMMA ClientQueued ==
  ASSUME StreamInv, StreamInv', NEW c \in Clients, ClientNext(c) \/ Call(c) \/ Goodbye(c)
  PROVE  Queue!Next \/ UNCHANGED Queue!vars
<1> USE DEF serverVars, callVars, pushVars
<1>1. Typing /\ Typing' /\ UNCHANGED <<serving, ran, took>>
  BY ClientLeavesServer DEF StreamInv
<1>2. pc[c] # "wait" /\ serving # c
  <2>1. pc[c] # "wait"
    BY DEF ClientNext, Call, Goodbye, Enter, PushPiece, SubmitPiece, DropPiece, ReadPiece,
         Return, Busy
  <2>. QED
    BY <2>1, NoneAssumption DEF StreamInv, ServerInv
<1>3. \A d \in Clients \ {c} :
        pc'[d] = pc[d] /\ said'[d] = said[d] /\ Ran(d)' = Ran(d)
  <2>1. \A d \in Clients \ {c} : pc'[d] = pc[d] /\ said'[d] = said[d]
    BY ClientLeavesOthers DEF StreamInv
  <2>. QED
    BY <1>1, <2>1 DEF Ran
<1>4. /\ [d \in Clients |-> Open(d)]' = [[d \in Clients |-> Open(d)] EXCEPT ![c] = Open(c)']
      /\ [d \in Clients |-> Due(d)]' = [[d \in Clients |-> Due(d)] EXCEPT ![c] = Due(c)']
  BY <1>1, <1>3, OthersQueued
<1>5. Due(c) = <<>> /\ Open(c) = WordsOf(said[c]) /\ Ran(c)' = 0
  BY <1>1, <1>2 DEF Due, Open, Ran
<1>6. ASSUME pc'[c] # "wait" PROVE Due(c)' = <<>> /\ Open(c)' = WordsOf(said'[c])
  BY <1>6 DEF Due, Open
<1> DEFINE o == [d \in Clients |-> Open(d)]
           q == [d \in Clients |-> Due(d)]
<1>7. o[c] = Open(c) /\ q[c] = Due(c)
  OBVIOUS
<1>8. ASSUME pc'[c] # "wait", said'[c] = said[c] PROVE UNCHANGED Queue!vars
  <2>1. o' = o /\ q' = q
    BY <1>4, <1>5, <1>6, <1>7, <1>8
  <2>. QED
    BY <1>1, <2>1 DEF Queue!vars
<1>9. ASSUME pc'[c] # "wait", said'[c] = <<>> PROVE Queue!Drop(c)
  <2>1. WordsOf(<<>>) = <<>>
    BY DEF WordsOf
  <2>2. o' = [o EXCEPT ![c] = <<>>] /\ q' = q
    BY <1>4, <1>5, <1>6, <1>7, <1>9, <2>1
  <2>. QED
    BY <1>1, <2>2 DEF Queue!Drop
<1>10. CASE Call(c) \/ Enter(c) \/ ReadPiece(c) \/ Return(c)
  <2>1. pc'[c] # "wait" /\ said'[c] = said[c]
    BY <1>1, <1>2, <1>10 DEF Call, Enter, ReadPiece, Return, Typing
  <2>. QED
    BY <1>8, <2>1
<1>11. CASE Goodbye(c) \/ DropPiece(c)
  <2>1. pc'[c] # "wait" /\ said'[c] = <<>>
    BY <1>1, <1>11 DEF Goodbye, DropPiece, Emptied, Typing
  <2>. QED
    BY <1>9, <2>1 DEF Queue!Next
<1>12. CASE PushPiece(c)
  <2>1. pc'[c] # "wait" /\ left[c] # <<>>
    BY <1>1, <1>2, <1>12 DEF PushPiece, Busy, Typing
  <2>2. Piece(c) \in Pieces
    BY <1>1, <2>1, HeadPiece
  <2>3. CASE ~Fits(c, Piece(c).words)
    <3>1. said'[c] = <<>>
      BY <1>1, <1>12, <2>3 DEF PushPiece, Pushed, Typing
    <3>. QED
      BY <1>9, <2>1, <3>1 DEF Queue!Next
  <2>4. CASE Fits(c, Piece(c).words)
    <3>1. said'[c] = Noted(c, Piece(c).words)
      BY <1>1, <1>12, <2>4 DEF PushPiece, Pushed, Typing
    <3>2. CASE Piece(c).words = <<>>
      BY <1>8, <2>1, <3>1, <3>2 DEF Noted
    <3>3. CASE Piece(c).words # <<>>
      <4>1. Piece(c).words \in Commands
        BY <2>2, <3>3, PieceCommand
      <4>2. Open(c)' = WordsOf(said[c]) \o <<Piece(c).words>>
        BY <1>1, <1>6, <2>1, <2>2, <3>1, <3>3, NotedWords
      <4>3. Append(WordsOf(said[c]), Piece(c).words) = WordsOf(said[c]) \o <<Piece(c).words>>
        BY <1>1, <4>1, WordsTyped, AppendIsConcat DEF Typing
      <4>4. o' = [o EXCEPT ![c] = Append(o[c], Piece(c).words)] /\ q' = q
        BY <1>4, <1>5, <1>6, <1>7, <2>1, <4>2, <4>3
      <4>5. Queue!Say(c, Piece(c).words)
        BY <1>1, <4>4 DEF Queue!Say
      <4>. QED
        BY <4>1, <4>5 DEF Queue!Next
    <3>. QED
      BY <3>2, <3>3
  <2>. QED
    BY <2>3, <2>4
<1>13. CASE SubmitPiece(c)
  <2> DEFINE last == IF Piece(c).words = <<>> THEN <<>> ELSE <<Piece(c).words>>
  <2>1. /\ left[c] # <<>> /\ pc'[c] = "wait" /\ said'[c] = Noted(c, Piece(c).words)
    BY <1>1, <1>13 DEF SubmitPiece, Busy, Typing
  <2>2. Piece(c) \in Pieces
    BY <1>1, <2>1, HeadPiece
  <2>3. WordsOf(said'[c]) = Open(c) \o last
    BY <1>1, <1>5, <2>1, <2>2, NotedWords
  <2>4. said'[c] \in Seq(Saying)
    BY <1>1 DEF Typing
  <2>5. Due(c)' = WordsOf(said'[c]) /\ Open(c)' = <<>>
    <3>1. Due(c)' = SubSeq(WordsOf(said'[c]), 1, Len(said'[c])) /\ Open(c)' = <<>>
      BY <1>5, <2>1 DEF Due, Open
    <3>2. WordsOf(said'[c]) \in Seq(Commands) /\ Len(WordsOf(said'[c])) = Len(said'[c])
      BY <2>4, WordsTyped
    <3>3. SubSeq(WordsOf(said'[c]), 1, Len(said'[c])) = WordsOf(said'[c])
      BY <3>2
    <3>. QED
      BY <3>1, <3>3
  <2> HIDE DEF last
  <2>6. Queue!HandOver(c, last)
    <3>1. o' = [o EXCEPT ![c] = <<>>] /\ q' = [q EXCEPT ![c] = o[c] \o last] /\ q[c] = <<>>
      BY <1>4, <1>5, <1>7, <2>3, <2>5
    <3>. QED
      BY <1>1, <3>1 DEF Queue!HandOver
  <2>7. CASE Piece(c).words = <<>>
    BY <2>6, <2>7 DEF Queue!Next, last
  <2>8. CASE Piece(c).words # <<>>
    BY <2>2, <2>6, <2>8, PieceCommand DEF Queue!Next, last
  <2>. QED
    BY <2>7, <2>8
<1>. QED
  BY <1>10, <1>11, <1>12, <1>13 DEF ClientNext

LEMMA ServerQueued ==
  ASSUME TablesAgree, StreamInv, StreamInv', ServerNext
  PROVE  Queue!Next \/ UNCHANGED Queue!vars
<1> USE DEF callVars, pushVars
<1> DEFINE o == [d \in Clients |-> Open(d)]
           q == [d \in Clients |-> Due(d)]
<1>1. ASSUME NEW c \in Clients, Begin(c) PROVE UNCHANGED Queue!vars
  <2>1. /\ UNCHANGED <<pc, said, took>> /\ serving = None /\ serving' = c /\ ran' = 0
    BY <1>1 DEF Begin
  <2>2. \A d \in Clients : Ran(d)' = Ran(d)
    BY <2>1, NoneAssumption DEF Ran
  <2>3. \A d \in Clients : Open(d)' = Open(d) /\ Due(d)' = Due(d)
    BY <2>1, <2>2 DEF Open, Due
  <2>. QED
    BY <2>1, <2>3 DEF Queue!vars
<1>2. CASE RunCommand
  <2> DEFINE c == serving
             w == WordsOf(said[c])
             n == Len(said[c])
  <2>1. /\ ran < n /\ ran' = ran + 1 /\ took' = said[c][ran + 1].words
        /\ UNCHANGED <<pc, said, serving>> /\ c # None
    BY <1>2, RunsWords, TablesAgree DEF RunCommand
  <2>2. c \in Clients /\ pc[c] = "wait" /\ ran \in Nat /\ said[c] \in Seq(Saying) /\ Typing
        /\ Typing' /\ n \in Nat
    <3>1. Typing /\ Typing' /\ ServerInv
      BY DEF StreamInv
    <3>2. pc[c] = "wait"
      BY <2>1, <3>1 DEF ServerInv
    <3>3. c \in Clients /\ ran \in Nat /\ said[c] \in Seq(Saying)
      BY <2>1, <3>1 DEF Typing
    <3>. QED
      BY <3>1, <3>2, <3>3
  <2>3. w \in Seq(Commands) /\ Len(w) = n /\ w[ran + 1] = said[c][ran + 1].words
    BY <2>1, <2>2, WordsTyped
  <2>4. Due(c) = SubSeq(w, ran + 1, n) /\ Due(c)' = SubSeq(w, ran + 2, n)
        /\ Open(c) = <<>> /\ Open(c)' = <<>>
    <3>1. Ran(c) = ran /\ Ran(c)' = ran + 1 /\ (ran + 1) + 1 = ran + 2
      BY <2>1, <2>2 DEF Ran
    <3>. QED
      BY <2>1, <2>2, <3>1 DEF Due, Open
  <2>5. \A d \in Clients \ {c} : Ran(d)' = Ran(d)
    BY <2>1 DEF Ran
  <2>6. o' = [o EXCEPT ![c] = Open(c)'] /\ q' = [q EXCEPT ![c] = Due(c)']
    BY <2>1, <2>2, <2>5, OthersQueued
  <2>7. q[c] = Due(c) /\ o[c] = Open(c)
    BY <2>2
  <2> HIDE DEF w, n
  <2>8. /\ SubSeq(w, ran + 1, n) # <<>> /\ Head(SubSeq(w, ran + 1, n)) = w[ran + 1]
        /\ Tail(SubSeq(w, ran + 1, n)) = SubSeq(w, ran + 2, n)
    <3>1. ran + 1 \in 1..Len(w) /\ n \in (ran + 1)..Len(w) /\ ran + 2 = (ran + 1) + 1
      BY <2>1, <2>2, <2>3
    <3>2. /\ Head(SubSeq(w, ran + 1, n)) = w[ran + 1]
          /\ Tail(SubSeq(w, ran + 1, n)) = SubSeq(w, (ran + 1) + 1, n)
      BY <2>3, <3>1, HeadTailOfSubSeq
    <3>3. SubSeq(w, ran + 1, n) # <<>>
      BY <2>1, <2>2, <2>3
    <3>. QED
      BY <3>1, <3>2, <3>3
  <2>9. Queue!Run(c)
    <3>1. q[c] # <<>> /\ took' = Head(q[c])
      BY <2>1, <2>3, <2>4, <2>7, <2>8
    <3>2. q' = [q EXCEPT ![c] = Tail(q[c])]
      BY <2>4, <2>6, <2>7, <2>8
    <3>3. o' = o
      BY <2>4, <2>6, <2>7
    <3>. QED
      BY <3>1, <3>2, <3>3 DEF Queue!Run
  <2>. QED
    BY <2>2, <2>9 DEF Queue!Next
<1>3. CASE Answer
  <2>0. PICK c \in Clients : c = serving
    BY <1>3 DEF Answer, StreamInv, Typing
  <2>1. /\ c # None /\ serving' = None /\ ran = Len(said[c]) /\ took' = took
        /\ pc' = [pc EXCEPT ![c] = "read"] /\ said' = [said EXCEPT ![c] = <<>>]
    BY <1>3, <2>0, AnswerLast, TablesAgree DEF Answer
  <2>2. c \in Clients /\ pc[c] = "wait" /\ said[c] \in Seq(Saying) /\ Typing /\ Typing'
    BY <2>0, <2>1 DEF StreamInv, Typing, ServerInv
  <2>3. \A d \in Clients \ {c} :
          pc'[d] = pc[d] /\ said'[d] = said[d] /\ Ran(d)' = Ran(d)
    BY <2>0, <2>1, <2>2, NoneAssumption DEF Ran, Typing
  <2>4. Open(c) = <<>> /\ Open(c)' = <<>> /\ Due(c)' = <<>>
    <3>1. WordsOf(<<>>) = <<>>
      BY DEF WordsOf
    <3>2. pc'[c] = "read" /\ said'[c] = <<>>
      BY <2>1, <2>2 DEF Typing
    <3>. QED
      BY <2>2, <3>1, <3>2 DEF Open, Due
  <2>5. Due(c) = <<>>
    <3>1. Due(c) = SubSeq(WordsOf(said[c]), Len(said[c]) + 1, Len(said[c]))
      BY <2>0, <2>1, <2>2 DEF Due, Ran
    <3>2. WordsOf(said[c]) \in Seq(Commands) /\ Len(said[c]) \in Nat
      BY <2>2, WordsTyped
    <3>. QED
      BY <3>1, <3>2
  <2>6. o' = [o EXCEPT ![c] = Open(c)'] /\ q' = [q EXCEPT ![c] = Due(c)']
    BY <2>2, <2>3, OthersQueued
  <2>7. o' = o /\ q' = q
    BY <2>2, <2>4, <2>5, <2>6
  <2>. QED
    BY <2>1, <2>7 DEF Queue!vars
<1>. QED
  BY <1>1, <1>2, <1>3, TablesAgree DEF ServerNext

(* Two tables that agree make the stream of words the queue of commands    *)
(* that programs expect: each command handed over is run once, as it was   *)
(* pushed, in its turn and before its program goes on.                     *)
THEOREM StreamImplementsQueue == ASSUME TablesAgree PROVE Spec => QueueSpec
<1>1. Init => Queue!Init
  <2>1. SUFFICES ASSUME Init PROVE Queue!Init
    OBVIOUS
  <2>2. WordsOf(<<>>) = <<>>
    BY DEF WordsOf
  <2>3. \A c \in Clients : Open(c) = <<>> /\ Due(c) = <<>>
    BY <2>1, <2>2 DEF Init, Open, Due
  <2>. QED
    BY <2>1, <2>3 DEF Init, Queue!Init
<1>2. StreamInv /\ StreamInv' /\ [Next]_vars => [Queue!Next]_(Queue!vars)
  <2>1. SUFFICES ASSUME StreamInv, StreamInv', [Next]_vars
                 PROVE  Queue!Next \/ UNCHANGED Queue!vars
    OBVIOUS
  <2>2. CASE UNCHANGED vars
    <3>1. UNCHANGED <<pc, said, serving, ran, took>>
      BY <2>2 DEF vars, pushVars, serverVars
    <3>2. \A c \in Clients : Open(c)' = Open(c) /\ Due(c)' = Due(c)
      BY <3>1 DEF Open, Due, Ran
    <3>. QED
      BY <3>1, <3>2 DEF Queue!vars
  <2>3. ASSUME NEW c \in Clients, ClientNext(c) \/ Call(c) \/ Goodbye(c)
        PROVE  Queue!Next \/ UNCHANGED Queue!vars
    BY <2>1, <2>3, ClientQueued
  <2>4. CASE ServerNext
    BY <2>1, <2>4, ServerQueued, TablesAgree
  <2>. QED
    BY <2>1, <2>2, <2>3, <2>4 DEF Next
<1>. QED
  BY <1>1, <1>2, StreamInvariant, TablesAgree, PTL DEF Spec, QueueSpec, Queue!Spec
=============================================================================
