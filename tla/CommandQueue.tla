----------------------------- MODULE CommandQueue -----------------------------
(***************************************************************************)
(* What a program may expect of the commands its GL calls push: the server *)
(* runs every command it was handed, with the words it was pushed with, in *)
(* the order of the pushes and before the call that handed it over         *)
(* returns.  The commands of a buffer that was too small are dropped       *)
(* together, and so are those still in the buffer when the program ends.   *)
(***************************************************************************)
EXTENDS Sequences

CONSTANTS Clients,   \* the programs
          Commands   \* the commands with their words

VARIABLES open,      \* the commands a program has pushed, not handed over
          due,       \* those it handed over and the server has not run yet
          latest     \* the command the server ran last

vars == <<open, due, latest>>

Init ==
  /\ open = [c \in Clients |-> <<>>]
  /\ due = [c \in Clients |-> <<>>]
  /\ latest = <<>>

Say(c, w) ==
  /\ open' = [open EXCEPT ![c] = Append(@, w)]
  /\ UNCHANGED <<due, latest>>

(* The last command may be pushed and handed over in one                   *)
HandOver(c, last) ==
  /\ due[c] = <<>>
  /\ due' = [due EXCEPT ![c] = open[c] \o last]
  /\ open' = [open EXCEPT ![c] = <<>>]
  /\ UNCHANGED latest

Drop(c) ==
  /\ open' = [open EXCEPT ![c] = <<>>]
  /\ UNCHANGED <<due, latest>>

Run(c) ==
  /\ due[c] # <<>>
  /\ latest' = Head(due[c])
  /\ due' = [due EXCEPT ![c] = Tail(@)]
  /\ UNCHANGED open

Next ==
  \E c \in Clients :
    \/ Run(c) \/ Drop(c) \/ HandOver(c, <<>>)
    \/ \E w \in Commands : Say(c, w) \/ HandOver(c, <<w>>)

Spec == Init /\ [][Next]_vars
=============================================================================
