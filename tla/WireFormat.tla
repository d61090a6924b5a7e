------------------------------ MODULE WireFormat ------------------------------
(***************************************************************************)
(* The words of a command buffer, as the two tables that must agree about  *)
(* them are written in: what each GL entry point of the client pushes      *)
(* (glimpl.c; the Glimpl modules) and what each case of the server's       *)
(* switch reads (processor.c; the Processor modules).                      *)
(*                                                                         *)
(* A word is a string: the number of a command by its name, a datum by     *)
(* what the code pushes or reads it as.                                    *)
(*   "i"          an integer (pb_push, *pb++)                              *)
(*   "f"          a float (pb_pushf, a float read through pb)              *)
(*   "lo" "hi"    the halves of a 64-bit value (pb_push64)                 *)
(*   "w"          a word copied from or to memory without a type           *)
(*   "n0" "n1"..  a count, on which the length of the rest depends         *)
(*   "s" "z"      four characters of a text, without and with a zero       *)
(*   "yes" "no"   a flag, on which the rest or its meaning depends         *)
(*   "0"          the zero that ends a buffer                              *)
(***************************************************************************)
EXTENDS Integers, Sequences

Yes == <<"yes">>
No == <<"no">>
Wide == <<"lo", "hi">>
I(n) == [k \in 1..n |-> "i"]
F(n) == [k \in 1..n |-> "f"]
Raw(n) == [k \in 1..n |-> "w"]

Counters == <<"n0", "n1", "n2", "n3", "n4">>
Count(n) == <<Counters[n + 1]>>
(* How many words an upload, how many items a list and how many words a    *)
(* counted text may have: enough for none, one and several.                *)
Sizes == 0..2

Times(n, item) ==
  [k \in 1..(n * Len(item)) |-> item[((k - 1) % Len(item)) + 1]]

(* push_string: four characters a word, and a word of zeroes unless the    *)
(* last word holds one.  (For the empty text see EmptyText.)               *)
Texts == {<<"z">>, <<"s", "z">>}

(* push_counted_string, as many as counted                                 *)
CountedText(len) == Count(len) \o Raw(len)
CountedTexts ==
  {Count(0)}
    \cup {Count(1) \o CountedText(a) : a \in Sizes}
    \cup {Count(2) \o CountedText(a) \o CountedText(b) : a, b \in Sizes}

-----------------------------------------------------------------------------
(* Commands: a name and the words after it.  Both tables name sets of them *)

Forms(names, words) == {<<name, words>> : name \in names}
(* GL's names for one command at several sizes and types: glVertex2f,      *)
(* glVertex3i...  Doubles travel as floats, all other types as integers.   *)
Digit == <<"1", "2", "3", "4">>
Typed(stem, sizes, types) ==
  {stem \o Digit[n] \o t : n \in sizes, t \in types}
Numbers(n, type) == IF type \in {"D", "F"} THEN F(n) ELSE I(n)
Family(stem, lead, sizes, types) ==
  {<<stem \o Digit[n] \o t, lead \o Numbers(n, t)>> : n \in sizes, t \in types}

Cmd(name, words) == <<name>> \o words

(* glimpl_upload_buffer: the words between here and the command that uses  *)
(* them.                                                                   *)
Upload(n) == Cmd("VP_UPLOAD", Count(n) \o Raw(n))

=============================================================================
