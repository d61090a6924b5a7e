---------------------------- MODULE VertexArrays ----------------------------
(***************************************************************************)
(* What the client keeps of GL's vertex arrays, in src/client/glimpl.c:    *)
(* the array buffer bound, the current vertex array object, a table of the *)
(* element buffers of these objects, and for every array whether it is     *)
(* enabled and where the program said it is.  A draw is prepared from      *)
(* these copies: arrays in the program's memory are uploaded and pointed   *)
(* to just before the draw, those in buffers are told to GL when they are  *)
(* specified - and the arrays of fixed-function GL ("vertex") at the draw. *)
(*                                                                         *)
(* GL (external) has the bindings and arrays that the forwarded commands   *)
(* gave it.  The program knows GL's rules: bound and told are what it      *)
(* would have with its calls made to GL itself.  One program with one      *)
(* context, none of whose buffers is dropped.  In a vertex array object    *)
(* other than 0, GL refuses arrays in the program's memory.                *)
(***************************************************************************)
EXTENDS Integers, FiniteSets

CONSTANTS Names,     \* names of GL buffers
          Objects,   \* names of vertex array objects, beside 0
          Attribs,   \* generic arrays
          Capacity,  \* entries of the table: GLIMPL_MAX_OBJECTS
          MaxSteps,  \* bound on the calls of a behaviour
          Zero,      \* the name 0
          NoDraw     \* the latest call was not a draw

ASSUME CapacityAssumption == Capacity \in Nat \ {0} /\ MaxSteps \in Nat
ASSUME ZeroAssumption == Zero \notin Names \cup Objects
ASSUME NamesAssumption == Names \cap {"memory", "stale", "wild", "none"} = {}

Legacy == "vertex"
Arrays == Attribs \cup {Legacy}
VAOs == Objects \cup {Zero}
Bindings == Names \cup {Zero}
(* Where an array is: in a buffer, in the program's memory, in an upload   *)
(* of an earlier draw, at an offset taken for an address, or unspecified   *)
Places == Names \cup {"memory", "stale", "wild", "none"}

VARIABLES
  (* The client *)
  array_buffer,   \* glimpl_array_buffer_binding
  current,        \* glimpl_current_vertex_array, which GL's never leaves
  table,          \* glimpl_vertex_array_bindings: object |-> element buffer
  vaps,           \* per array: enabled, and client_managed
  (* GL *)
  glArray,        \* the array buffer bound
  glElement,      \* the element buffer of each object
  glEnabled,      \* the arrays enabled in each object
  source,         \* where each object has each array
  (* The program *)
  bound,          \* the array buffer it has bound
  told,           \* where it said that each array of each object is
  drawn,          \* what the latest draw read, and whether it took pointers
  (* History *)
  steps,          \* calls made
  forgotten,      \* objects whose element buffer changed behind the table
  toldIn,         \* the objects in which an array was specified or switched
  misled          \* arrays specified while the array buffer was mistaken

shadowVars == <<array_buffer, current, table, vaps>>
glArrayVars == <<glArray, glElement, glEnabled, source>>
programVars == <<bound, told, drawn>>
arrayHistory == <<steps, forgotten, toldIn, misled>>
arrayVars == <<shadowVars, glArrayVars, programVars, arrayHistory>>

DrawInit ==
  /\ array_buffer = Zero /\ current = Zero
  /\ table = [v \in {Zero} |-> Zero]
  /\ vaps = [a \in Arrays |-> [enabled |-> FALSE, managed |-> FALSE]]
  /\ glArray = Zero
  /\ glElement = [v \in VAOs |-> Zero]
  /\ glEnabled = [v \in VAOs |-> {}]
  /\ source = [v \in VAOs |-> [a \in Arrays |-> "none"]]
  /\ bound = Zero
  /\ told = [v \in VAOs |-> [a \in Arrays |-> "none"]]
  /\ drawn = NoDraw
  /\ steps = 0 /\ forgotten = {} /\ misled = {}
  /\ toldIn = [a \in Arrays |-> {}]

Step == steps < MaxSteps /\ steps' = steps + 1
NotADraw == Step /\ drawn' = NoDraw

-----------------------------------------------------------------------------
(* The table of element buffers                                            *)

(* glimpl_get_vertex_array_binding with create: a new entry is 0, and a    *)
(* full table stays as it is                                               *)
Entered(v) ==
  IF v \in DOMAIN table \/ Cardinality(DOMAIN table) >= Capacity THEN table
  ELSE [w \in DOMAIN table \cup {v} |-> IF w = v THEN Zero ELSE table[w]]

(* glimpl_get_element_array_buffer_binding                                 *)
ElementBinding(v) == IF v \in DOMAIN table THEN table[v] ELSE Zero

(* Faulty variant: the entry of a deleted object stays.                    *)
RemovedNot(v) == IF v = Zero THEN [table EXCEPT ![Zero] = Zero] ELSE table
(* glimpl_remove_vertex_array_binding: the entry of 0 is emptied and kept  *)
Removed(v) ==
  IF v = Zero THEN [table EXCEPT ![Zero] = Zero]
  ELSE [w \in DOMAIN table \ {v} |-> table[w]]

-----------------------------------------------------------------------------
(* Binding and deleting                                                    *)

BindArrayBuffer(b) ==
  /\ NotADraw
  /\ array_buffer' = b /\ glArray' = b /\ bound' = b
  /\ UNCHANGED <<current, table, vaps, glElement, glEnabled, source, told,
                 forgotten, toldIn, misled>>

BindElementBuffer(b) ==
  /\ NotADraw
  /\ table' = [v \in DOMAIN Entered(current) |->
                 IF v = current THEN b ELSE Entered(current)[v]]
  /\ glElement' = [glElement EXCEPT ![current] = b]
  /\ forgotten' = IF current \in DOMAIN table' THEN forgotten \ {current}
                  ELSE forgotten \cup {current}
  /\ UNCHANGED <<array_buffer, current, vaps, glArray, glEnabled, source, bound,
                 told, toldIn, misled>>

BindVertexArray(v) ==
  /\ NotADraw
  /\ current' = v /\ table' = Entered(v)
  /\ UNCHANGED <<array_buffer, vaps, glArrayVars, bound, told, forgotten, toldIn, misled>>

(* GL unbinds a deleted buffer from the current object and the array       *)
(* binding; the client forwards the name only.  A program does not draw    *)
(* from a buffer that it deleted.                                          *)
DeleteBuffer(b) ==
  LET without(places) == [v \in VAOs |-> [a \in Arrays |->
        IF places[v][a] = b THEN "none" ELSE places[v][a]]]
  IN /\ NotADraw
     /\ glArray' = IF glArray = b THEN Zero ELSE glArray
     /\ bound' = IF bound = b THEN Zero ELSE bound
     /\ glElement' = [glElement EXCEPT ![current] = IF @ = b THEN Zero ELSE @]
     /\ source' = without(source) /\ told' = without(told)
     /\ forgotten' = IF glElement[current] = b THEN forgotten \cup {current} ELSE forgotten
     /\ UNCHANGED <<shadowVars, glEnabled, toldIn, misled>>

(* GL ignores the name 0, the table does not                               *)
DeleteVertexArray(v) ==
  /\ NotADraw
  /\ current' = IF current = v THEN Zero ELSE current
  /\ table' = Removed(v)
  /\ IF v = Zero
     THEN /\ forgotten' = IF glElement[Zero] # Zero THEN forgotten \cup {Zero} ELSE forgotten
          /\ UNCHANGED <<glElement, glEnabled, source, told>>
     ELSE /\ forgotten' = forgotten \ {v}
          /\ glElement' = [glElement EXCEPT ![v] = Zero]
          /\ glEnabled' = [glEnabled EXCEPT ![v] = {}]
          /\ source' = [source EXCEPT ![v] = [a \in Arrays |-> "none"]]
          /\ told' = [told EXCEPT ![v] = [a \in Arrays |-> "none"]]
  /\ UNCHANGED <<array_buffer, vaps, glArray, bound, toldIn, misled>>

-----------------------------------------------------------------------------
(* Specifying and switching arrays                                         *)

(* The place GL gives a pointer that comes with the binding b              *)
PointedAt(b) == IF b = Zero THEN "wild" ELSE b

(* glVertexAttribPointer, glVertexPointer                                  *)
Specify(a) ==
  /\ NotADraw
  /\ bound # Zero \/ current = Zero
  /\ vaps' = [vaps EXCEPT ![a].managed = (array_buffer = Zero)]
  /\ source' = IF a # Legacy /\ array_buffer # Zero
               THEN [source EXCEPT ![current][a] = PointedAt(glArray)] ELSE source
  /\ told' = [told EXCEPT ![current][a] = IF bound = Zero THEN "memory" ELSE bound]
  /\ toldIn' = [toldIn EXCEPT ![a] = @ \cup {current}]
  /\ misled' = IF array_buffer = bound THEN misled \ {a} ELSE misled \cup {a}
  /\ UNCHANGED <<array_buffer, current, table, glArray, glElement, glEnabled, bound, forgotten>>

(* glEnableVertexAttribArray, glEnableClientState and the opposites        *)
Switch(a, on) ==
  /\ NotADraw
  /\ vaps' = [vaps EXCEPT ![a].enabled = on]
  /\ glEnabled' = [glEnabled EXCEPT ![current] = IF on THEN @ \cup {a} ELSE @ \ {a}]
  /\ toldIn' = [toldIn EXCEPT ![a] = @ \cup {current}]
  /\ UNCHANGED <<array_buffer, current, table, glArray, glElement, source, bound,
                 told, forgotten, misled>>

-----------------------------------------------------------------------------
(* Draws                                                                   *)

(* glimpl_has_client_managed_draw_state                                    *)
Managed == {a \in Arrays : vaps[a].enabled /\ vaps[a].managed}

(* glimpl_push_client_managed_draw_state: with such arrays no array buffer *)
(* is bound while pointers are given, and the one remembered afterwards.   *)
(* Enabled arrays in memory get an upload, unless GL refuses it; of those  *)
(* in a buffer only the fixed-function one is given again.                 *)
GivenBinding == IF Managed # {} THEN Zero ELSE glArray
Given ==
  [a \in Arrays |->
     IF a \in Managed THEN IF current = Zero THEN "memory" ELSE source[current][a]
     ELSE IF a = Legacy /\ vaps[a].enabled THEN PointedAt(GivenBinding)
     ELSE source[current][a]]
(* The draw reads the enabled arrays; an upload is gone after it           *)
Reads(places, pointers) ==
  /\ drawn' = [read |-> places, pointers |-> pointers]
  /\ source' = [source EXCEPT ![current] =
                  [a \in Arrays |-> IF places[a] = "memory" THEN "stale" ELSE places[a]]]

(* Faulty variant: the array buffer is not bound again.                    *)
DrawWithoutRestore ==
  /\ Reads(Given, TRUE)
  /\ glArray' = GivenBinding
DrawWithPointers ==
  /\ Reads(Given, TRUE)
  /\ glArray' = IF Managed # {} /\ array_buffer # Zero THEN array_buffer ELSE glArray

DrawArrays ==
  /\ Step
  /\ DrawWithPointers
  /\ UNCHANGED <<shadowVars, glElement, glEnabled, bound, told, forgotten, toldIn, misled>>

(* The indices are in memory: they are uploaded, too.  (NULL is no place   *)
(* for them, and left out.)                                                *)
DrawElementsFromMemory ==
  /\ Step
  /\ ElementBinding(current) = Zero
  /\ DrawWithPointers
  /\ UNCHANGED <<shadowVars, glElement, glEnabled, bound, told, forgotten, toldIn, misled>>

(* The indices are in a buffer: with arrays in memory the draw needs a     *)
(* range (hint) and is left out without one; with none of them no pointer  *)
(* is given                                                                *)
DrawElementsFromBuffer(hint) ==
  /\ Step
  /\ ElementBinding(current) # Zero
  /\ IF Managed # {}
     THEN hint /\ DrawWithPointers
     ELSE Reads(source[current], FALSE) /\ UNCHANGED glArray
  /\ UNCHANGED <<shadowVars, glElement, glEnabled, bound, told, forgotten, toldIn, misled>>

DrawElementsLeftOut ==
  /\ NotADraw
  /\ ElementBinding(current) # Zero /\ Managed # {}
  /\ UNCHANGED <<shadowVars, glArrayVars, bound, told, forgotten, toldIn, misled>>

-----------------------------------------------------------------------------
DrawNext ==
  \/ \E b \in Bindings : BindArrayBuffer(b) \/ BindElementBuffer(b)
  \/ \E b \in Names : DeleteBuffer(b)
  \/ \E v \in VAOs : BindVertexArray(v) \/ DeleteVertexArray(v)
  \/ \E a \in Arrays : Specify(a) \/ \E on \in BOOLEAN : Switch(a, on)
  \/ DrawArrays \/ DrawElementsFromMemory
  \/ \E hint \in BOOLEAN : DrawElementsFromBuffer(hint)
  \/ DrawElementsLeftOut

DrawSpec == DrawInit /\ [][DrawNext]_arrayVars

-----------------------------------------------------------------------------
ArraysTypeOK ==
  /\ array_buffer \in Bindings /\ current \in VAOs
  /\ DOMAIN table \subseteq VAOs /\ Zero \in DOMAIN table
  /\ Cardinality(DOMAIN table) <= Capacity
  /\ \A v \in DOMAIN table : table[v] \in Bindings
  /\ vaps \in [Arrays -> [enabled : BOOLEAN, managed : BOOLEAN]]
  /\ glArray \in Bindings /\ glElement \in [VAOs -> Bindings]
  /\ glEnabled \in [VAOs -> SUBSET Arrays]
  /\ source \in [VAOs -> [Arrays -> Places]]
  /\ bound \in Bindings /\ told \in [VAOs -> [Arrays -> Places]]
  /\ steps \in 0 .. MaxSteps /\ forgotten \subseteq VAOs
  /\ toldIn \in [Arrays -> SUBSET VAOs] /\ misled \subseteq Arrays

(* Whether a draw's indices are an address or an offset is decided by the  *)
(* table, so its entry is GL's element buffer for every object - unless    *)
(* that buffer was deleted, or was bound while the table was full, or the  *)
(* name 0 was deleted; then an address is taken for an offset or the other *)
(* way round until the program binds an element buffer again.              *)
IndicesAsBound ==
  \A v \in VAOs \ forgotten : ElementBinding(v) = glElement[v]

(* The copies are right about an array if it was told to one object only,  *)
(* and with no deleted buffer taken for bound.  A fixed-function array in  *)
(* a buffer is given at the draw, with the binding the draw finds: that is *)
(* right if its buffer is bound then, no other array is in memory, and     *)
(* the draw gives pointers.                                                *)
Reliable(a) ==
  /\ Cardinality(toldIn[a]) <= 1 /\ a \notin misled
  /\ a = Legacy /\ told[current][a] \in Names =>
       array_buffer = told[current][a] /\ Managed = {} /\ drawn.pointers

(* A draw reads every enabled array where the program said it is: from its *)
(* buffer, or from an upload made for this very draw and never from an     *)
(* earlier one, which is gone; through any order of binding, specifying,   *)
(* switching, deleting and drawing.                                        *)
DrawsReadWhatWasTold ==
  drawn # NoDraw =>
    \A a \in glEnabled[current] :
      Reliable(a) /\ told[current][a] # "none" => drawn.read[a] = told[current][a]
=============================================================================
