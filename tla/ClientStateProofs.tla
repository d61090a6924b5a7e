-------------------------- MODULE ClientStateProofs --------------------------
(***************************************************************************)
(* What the client and the front ends know of GL, X and Windows, for any   *)
(* number of programs, names, arrays and windows and any size of the       *)
(* tables: a draw reads the arrays where the program said they are, what   *)
(* is downloaded from and written to mapped buffers is theirs, and the     *)
(* tables of contexts, windows and handles agree with what the program was *)
(* given, within the exceptions that the modules state.                    *)
(***************************************************************************)
EXTENDS VertexArrays, MappedBuffers, GlxTables, WindrvTables,
        TLAPS, FiniteSetTheorems, WellFoundedInduction

(* Arrays and the table                                                    *)
TablesInv ==
  /\ ArraysTypeOK
  /\ IsFiniteSet(DOMAIN table) /\ \A a \in Arrays : IsFiniteSet(toldIn[a])

(* The array was told to one object at most                                *)
Once(a) == \A v, w \in toldIn[a] : v = w

(* The array buffer of the client is GL's and the program's, or belongs to *)
(* a deleted buffer, where no array is said to be                          *)
BufferInv ==
  \/ array_buffer = bound /\ glArray = bound
  \/ /\ bound = Zero /\ array_buffer # Zero
     /\ \A v \in VAOs, a \in Arrays : told[v][a] # array_buffer

(* Where the program said its arrays are, and in which objects             *)
ToldInv ==
  \A v \in VAOs, a \in Arrays :
    /\ told[v][a] \in Names \cup {"memory", "none"}
    /\ told[v][a] = "memory" => v = Zero
    /\ told[v][a] # "none" \/ a \in glEnabled[v] => v \in toldIn[a]

(* What the client knows of an array that was told to one object           *)
KnownInv ==
  \A v \in VAOs, a \in Arrays :
    Once(a) =>
      /\ a \in glEnabled[v] => vaps[a].enabled
      /\ a \notin misled /\ told[v][a] # "none" =>
           /\ vaps[a].managed <=> told[v][a] = "memory"
           /\ a # Legacy /\ told[v][a] \in Names => source[v][a] = told[v][a]

DrawIInv ==
  TablesInv /\ IndicesAsBound /\ BufferInv /\ ToldInv /\ KnownInv /\ DrawsReadWhatWasTold
-----------------------------------------------------------------------------
LEMMA ReliableOnce ==
  ASSUME NEW S, IsFiniteSet(S), Cardinality(S) <= 1
  PROVE  \A v, w \in S : v = w
<1> SUFFICES ASSUME NEW v \in S, NEW w \in S, v # w PROVE FALSE
  OBVIOUS
<1>1. IsFiniteSet({v}) /\ Cardinality({v}) = 1
  BY FS_Singleton
<1>2. Cardinality({v} \cup {w}) = Cardinality({v}) + 1
  <2>1. w \notin {v}
    OBVIOUS
  <2> QED
    BY <1>1, <2>1, FS_AddElement
<1>3. Cardinality({v} \cup {w}) = 2
  BY <1>1, <1>2
<1>4. {v} \cup {w} \subseteq S
  OBVIOUS
<1>5. Cardinality({v} \cup {w}) <= Cardinality(S)
  BY <1>4, FS_Subset
<1>6. Cardinality(S) \in Nat
  BY FS_CardinalityType
<1> QED
  BY <1>3, <1>5, <1>6

(* The table after an entry is looked for                                  *)
LEMMA EnteredFacts ==
  ASSUME TablesInv, NEW v \in VAOs
  PROVE  /\ DOMAIN Entered(v) \subseteq VAOs /\ DOMAIN table \subseteq DOMAIN Entered(v)
         /\ IsFiniteSet(DOMAIN Entered(v)) /\ Cardinality(DOMAIN Entered(v)) <= Capacity
         /\ DOMAIN Entered(v) \subseteq DOMAIN table \cup {v}
         /\ \A w \in DOMAIN Entered(v) :
              /\ Entered(v)[w] \in Bindings
              /\ Entered(v)[w] = IF w \in DOMAIN table THEN table[w] ELSE Zero
<1> USE DEF TablesInv, ArraysTypeOK
<1>1. CASE v \in DOMAIN table \/ Cardinality(DOMAIN table) >= Capacity
  BY <1>1 DEF Entered
<1>2. CASE v \notin DOMAIN table /\ ~(Cardinality(DOMAIN table) >= Capacity)
  <2>1. Cardinality(DOMAIN table) \in Nat
    BY FS_CardinalityType
  <2>2. /\ IsFiniteSet(DOMAIN table \cup {v})
        /\ Cardinality(DOMAIN table \cup {v}) = Cardinality(DOMAIN table) + 1
    BY <1>2, FS_AddElement
  <2>3. Entered(v) = [w \in DOMAIN table \cup {v} |-> IF w = v THEN Zero ELSE table[w]]
    BY <1>2 DEF Entered
  <2>4. DOMAIN Entered(v) = DOMAIN table \cup {v}
    BY <2>3
  <2>5. Cardinality(DOMAIN Entered(v)) <= Capacity /\ IsFiniteSet(DOMAIN Entered(v))
    BY <1>2, <2>1, <2>2, <2>4, CapacityAssumption
  <2> QED
    BY <1>2, <2>3, <2>4, <2>5 DEF Bindings
<1> QED
  BY <1>1, <1>2

LEMMA RemovedFacts ==
  ASSUME TablesInv, NEW v \in VAOs
  PROVE  /\ DOMAIN Removed(v) = IF v = Zero THEN DOMAIN table ELSE DOMAIN table \ {v}
         /\ IsFiniteSet(DOMAIN Removed(v)) /\ Cardinality(DOMAIN Removed(v)) <= Capacity
         /\ \A w \in DOMAIN Removed(v) :
              Removed(v)[w] = IF w = v THEN Zero ELSE table[w]
<1> USE DEF TablesInv, ArraysTypeOK
<1>1. /\ DOMAIN Removed(v) = IF v = Zero THEN DOMAIN table ELSE DOMAIN table \ {v}
      /\ \A w \in DOMAIN Removed(v) : Removed(v)[w] = IF w = v THEN Zero ELSE table[w]
  BY DEF Removed
<1>2. Cardinality(DOMAIN table) \in Nat
  BY FS_CardinalityType
<1>3. /\ IsFiniteSet(DOMAIN table \ {v})
      /\ Cardinality(DOMAIN table \ {v}) <= Cardinality(DOMAIN table)
  BY <1>2, FS_Subset
<1>4. Cardinality(DOMAIN table \ {v}) \in Nat
  BY <1>3, FS_CardinalityType
<1> QED
  BY <1>1, <1>2, <1>3, <1>4, CapacityAssumption

LEMMA DrawInitHolds == DrawInit => DrawIInv
<1> SUFFICES ASSUME DrawInit PROVE DrawIInv
  OBVIOUS
<1> USE DEF DrawInit
<1>1. DOMAIN table = {Zero} /\ table[Zero] = Zero
  OBVIOUS
<1>2. IsFiniteSet(DOMAIN table) /\ Cardinality(DOMAIN table) = 1
  BY <1>1, FS_Singleton
<1>3. TablesInv
  BY <1>1, <1>2, CapacityAssumption, FS_EmptySet DEF TablesInv, ArraysTypeOK, Bindings, VAOs, Places
<1>4. IndicesAsBound /\ BufferInv /\ ToldInv /\ KnownInv /\ DrawsReadWhatWasTold
  BY <1>1, NamesAssumption DEF IndicesAsBound, ElementBinding, BufferInv, ToldInv, KnownInv, DrawsReadWhatWasTold
<1> QED
  BY <1>3, <1>4 DEF DrawIInv

-----------------------------------------------------------------------------
(* The table and the types                                                 *)

Draws == DrawArrays \/ DrawElementsFromMemory \/ \E hint \in BOOLEAN : DrawElementsFromBuffer(hint)

(* A draw gives the arrays of the current object new places, and binds no  *)
(* other array buffer than the one remembered                              *)
Placed(places, pointers) ==
  /\ drawn' = [read |-> places, pointers |-> pointers]
  /\ source' = [source EXCEPT ![current] =
                  [a \in Arrays |-> IF places[a] = "memory" THEN "stale" ELSE places[a]]]
LEMMA DrawsFacts ==
  ASSUME Draws
  PROVE  /\ UNCHANGED <<shadowVars, glElement, glEnabled, bound, told, forgotten, toldIn, misled>>
         /\ steps' = steps + 1 /\ steps < MaxSteps
         /\ \/ Placed(Given, TRUE)
               /\ glArray' = IF Managed # {} /\ array_buffer # Zero THEN array_buffer ELSE glArray
            \/ Placed(source[current], FALSE) /\ Managed = {} /\ UNCHANGED glArray
  BY DEF Draws, DrawArrays, DrawElementsFromMemory, DrawElementsFromBuffer, DrawWithPointers, Reads,
     Placed, Step

LEMMA StepsCounted ==
  ASSUME TablesInv, Step PROVE steps' \in 0 .. MaxSteps
  BY CapacityAssumption DEF TablesInv, ArraysTypeOK, Step

LEMMA TablesStep ==
  ASSUME TablesInv, DrawNext PROVE TablesInv'
<1> USE DEF TablesInv, ArraysTypeOK
<1>0. Zero \in Bindings /\ Zero \in VAOs /\ Names \subseteq Bindings /\ Names \subseteq Places
  BY DEF Bindings, VAOs, Places
<1> USE StepsCounted
<1>1. ASSUME NEW b \in Bindings, BindArrayBuffer(b) PROVE TablesInv'
  BY <1>1 DEF BindArrayBuffer, NotADraw
<1>2. ASSUME NEW b \in Bindings, BindElementBuffer(b) PROVE TablesInv'
  <2>1. /\ table' = [v \in DOMAIN Entered(current) |->
                      IF v = current THEN b ELSE Entered(current)[v]]
        /\ glElement' = [glElement EXCEPT ![current] = b]
        /\ forgotten' \subseteq forgotten \cup {current}
    BY <1>2 DEF BindElementBuffer
  <2>2. DOMAIN table' = DOMAIN Entered(current)
    BY <2>1
  <2> QED
    BY <1>2, <2>1, <2>2, EnteredFacts DEF BindElementBuffer, NotADraw
<1>3. ASSUME NEW v \in VAOs, BindVertexArray(v) PROVE TablesInv'
  BY <1>3, EnteredFacts DEF BindVertexArray, NotADraw, glArrayVars
<1>4. ASSUME NEW b \in Names, DeleteBuffer(b) PROVE TablesInv'
  BY <1>0, <1>4 DEF DeleteBuffer, NotADraw, shadowVars, Places
<1>5. ASSUME NEW v \in VAOs, DeleteVertexArray(v) PROVE TablesInv'
  <2>1. table' = Removed(v) /\ current' \in VAOs /\ forgotten' \subseteq VAOs
    BY <1>0, <1>5 DEF DeleteVertexArray
  <2>2. /\ glElement' \in [VAOs -> Bindings] /\ glEnabled' \in [VAOs -> SUBSET Arrays]
        /\ source' \in [VAOs -> [Arrays -> Places]] /\ told' \in [VAOs -> [Arrays -> Places]]
    <3>1. CASE v = Zero
      BY <1>5, <3>1 DEF DeleteVertexArray
    <3>2. CASE v # Zero
      <4> DEFINE nowhere == [a \in Arrays |-> "none"]
      <4>1. nowhere \in [Arrays -> Places]
        BY DEF Places
      <4>2. /\ glElement' = [glElement EXCEPT ![v] = Zero]
            /\ glEnabled' = [glEnabled EXCEPT ![v] = {}]
            /\ source' = [source EXCEPT ![v] = nowhere]
            /\ told' = [told EXCEPT ![v] = nowhere]
        BY <1>5, <3>2 DEF DeleteVertexArray
      <4> HIDE DEF nowhere
      <4> QED
        BY <1>0, <4>1, <4>2
    <3> QED
      BY <3>1, <3>2
  <2>3. /\ DOMAIN table' \subseteq VAOs /\ Zero \in DOMAIN table'
        /\ IsFiniteSet(DOMAIN table') /\ Cardinality(DOMAIN table') <= Capacity
        /\ \A w \in DOMAIN table' : table'[w] \in Bindings
    <3>1. /\ DOMAIN table' = IF v = Zero THEN DOMAIN table ELSE DOMAIN table \ {v}
          /\ IsFiniteSet(DOMAIN table') /\ Cardinality(DOMAIN table') <= Capacity
          /\ \A w \in DOMAIN table' : table'[w] = IF w = v THEN Zero ELSE table[w]
      BY <2>1, RemovedFacts
    <3>2. DOMAIN table' \subseteq DOMAIN table /\ Zero \in DOMAIN table'
      BY <3>1
    <3>3. \A w \in DOMAIN table : table[w] \in Bindings
      OBVIOUS
    <3> QED
      BY <1>0, <3>1, <3>2, <3>3
  <2> QED
    BY <1>5, <2>1, <2>2, <2>3 DEF DeleteVertexArray, NotADraw
<1>6. ASSUME NEW a \in Arrays, Specify(a) PROVE TablesInv'
  <2>1. source' \in [VAOs -> [Arrays -> Places]] /\ told' \in [VAOs -> [Arrays -> Places]]
    BY <1>6, <1>0 DEF Specify, PointedAt, Places, Bindings
  <2>2. \A c \in Arrays : IsFiniteSet(toldIn'[c])
    BY <1>6, FS_AddElement DEF Specify
  <2>3. vaps' \in [Arrays -> [enabled : BOOLEAN, managed : BOOLEAN]]
    <3> DEFINE Known == [enabled : BOOLEAN, managed : BOOLEAN]
               new == [vaps[a] EXCEPT !.managed = (array_buffer = Zero)]
    <3>1. vaps \in [Arrays -> Known]
      OBVIOUS
    <3>2. vaps' = [vaps EXCEPT ![a] = new]
      BY <1>6 DEF Specify
    <3>3. (array_buffer = Zero) \in BOOLEAN /\ vaps[a] \in Known
      BY <3>1
    <3>4. new \in Known
      BY <3>3
    <3> HIDE DEF Known, new
    <3>5. [vaps EXCEPT ![a] = new] \in [Arrays -> Known]
      BY <3>1, <3>4
    <3>6. vaps' \in [Arrays -> Known]
      BY <3>2, <3>5
    <3>. QED
      BY <3>6 DEF Known
  <2>4. misled' \subseteq Arrays
    BY <1>6 DEF Specify, NotADraw
  <2>5. toldIn' \in [Arrays -> SUBSET VAOs]
    <3>1. toldIn' = [toldIn EXCEPT ![a] = toldIn[a] \cup {current}]
      BY <1>6 DEF Specify
    <3>2. toldIn[a] \cup {current} \in SUBSET VAOs /\ toldIn \in [Arrays -> SUBSET VAOs]
      OBVIOUS
    <3> QED
      BY <3>1, <3>2
  <2>6. steps' \in 0 .. MaxSteps
    BY <1>6 DEF Specify, NotADraw
  <2> QED
    BY <1>6, <2>1, <2>2, <2>3, <2>4, <2>5, <2>6 DEF Specify
<1>7. ASSUME NEW a \in Arrays, NEW on \in BOOLEAN, Switch(a, on) PROVE TablesInv'
  <2>1. \A c \in Arrays : IsFiniteSet(toldIn'[c])
    BY <1>7, FS_AddElement DEF Switch
  <2>2. toldIn' \in [Arrays -> SUBSET VAOs]
    <3>1. toldIn' = [toldIn EXCEPT ![a] = toldIn[a] \cup {current}]
      BY <1>7 DEF Switch
    <3>2. toldIn[a] \cup {current} \in SUBSET VAOs /\ toldIn \in [Arrays -> SUBSET VAOs]
      OBVIOUS
    <3> QED
      BY <3>1, <3>2
  <2>3. glEnabled' \in [VAOs -> SUBSET Arrays]
    BY <1>7 DEF Switch
  <2>4. vaps' \in [Arrays -> [enabled : BOOLEAN, managed : BOOLEAN]]
    BY <1>7 DEF Switch
  <2>5. steps' \in 0 .. MaxSteps
    BY <1>7 DEF Switch, NotADraw
  <2>6. UNCHANGED <<array_buffer, current, table, glArray, glElement, source, bound,
                    told, forgotten, misled>>
    BY <1>7 DEF Switch
  <2> QED
    BY <2>1, <2>2, <2>3, <2>4, <2>5, <2>6
<1>8. ASSUME Draws PROVE TablesInv'
  <2>1. Given \in [Arrays -> Places]
    BY <1>0 DEF Given, PointedAt, GivenBinding, Places, Bindings
  <2>2. ASSUME NEW places \in [Arrays -> Places], NEW pointers, Placed(places, pointers)
        PROVE  source' \in [VAOs -> [Arrays -> Places]]
    <3> DEFINE after == [a \in Arrays |-> IF places[a] = "memory" THEN "stale" ELSE places[a]]
    <3>1. after \in [Arrays -> Places]
      BY DEF Places
    <3>2. source' = [source EXCEPT ![current] = after]
      BY <2>2 DEF Placed
    <3> HIDE DEF after
    <3> QED
      BY <3>1, <3>2
  <2>3. source' \in [VAOs -> [Arrays -> Places]] /\ glArray' \in Bindings
    BY <1>8, <2>1, <2>2, DrawsFacts
  <2> QED
    BY <1>8, <2>3, DrawsFacts DEF shadowVars, Step
<1>9. ASSUME DrawElementsLeftOut PROVE TablesInv'
  BY <1>9 DEF DrawElementsLeftOut, NotADraw, shadowVars, glArrayVars
<1> QED
  BY <1>1, <1>2, <1>3, <1>4, <1>5, <1>6, <1>7, <1>8, <1>9 DEF DrawNext, Draws

LEMMA IndicesStep ==
  ASSUME TablesInv, IndicesAsBound, DrawNext PROVE IndicesAsBound'
<1> USE DEF IndicesAsBound, ElementBinding
<1>0. current \in VAOs /\ Zero \in VAOs /\ glElement \in [VAOs -> Bindings] /\ Zero \in DOMAIN table
  BY DEF TablesInv, ArraysTypeOK, VAOs
<1>1. ASSUME UNCHANGED <<table, glElement>>, forgotten \subseteq forgotten' PROVE IndicesAsBound'
  BY <1>1
<1>2. ASSUME NEW b \in Bindings, BindElementBuffer(b) PROVE IndicesAsBound'
  <2>1. /\ table' = [v \in DOMAIN Entered(current) |->
                      IF v = current THEN b ELSE Entered(current)[v]]
        /\ glElement' = [glElement EXCEPT ![current] = b]
        /\ forgotten' = IF current \in DOMAIN table' THEN forgotten \ {current}
                        ELSE forgotten \cup {current}
    BY <1>2 DEF BindElementBuffer
  <2>2. DOMAIN table' = DOMAIN Entered(current)
    BY <2>1
  <2> QED
    BY <1>0, <2>1, <2>2, EnteredFacts
<1>3. ASSUME NEW v \in VAOs, BindVertexArray(v) PROVE IndicesAsBound'
  <2>1. table' = Entered(v) /\ UNCHANGED <<glElement, forgotten>>
    BY <1>3 DEF BindVertexArray, glArrayVars
  <2> QED
    BY <1>0, <2>1, EnteredFacts
<1>4. ASSUME NEW b \in Names, DeleteBuffer(b) PROVE IndicesAsBound'
  BY <1>0, <1>4 DEF DeleteBuffer, shadowVars
<1>5. ASSUME NEW v \in VAOs, DeleteVertexArray(v) PROVE IndicesAsBound'
  <2>1. table' = Removed(v)
    BY <1>5 DEF DeleteVertexArray
  <2>2. CASE v = Zero
    <3>1. /\ glElement' = glElement
          /\ forgotten' = IF glElement[Zero] # Zero THEN forgotten \cup {Zero} ELSE forgotten
      BY <1>5, <2>2 DEF DeleteVertexArray
    <3> QED
      BY <1>0, <2>1, <2>2, <3>1, RemovedFacts
  <2>3. CASE v # Zero
    <3>1. /\ glElement' = [glElement EXCEPT ![v] = Zero]
          /\ forgotten' = forgotten \ {v}
      BY <1>5, <2>3 DEF DeleteVertexArray
    <3>2. DOMAIN table' = DOMAIN table \ {v}
      BY <2>1, <2>3, RemovedFacts
    <3>3. \A w \in DOMAIN table' : w # v /\ table'[w] = table[w]
      BY <2>1, <3>2, RemovedFacts
    <3> QED
      BY <1>0, <3>1, <3>2, <3>3
  <2> QED
    BY <2>2, <2>3
<1>6. ASSUME Draws PROVE IndicesAsBound'
  BY <1>1, <1>6, DrawsFacts DEF shadowVars
<1>7. ASSUME \/ \E b \in Bindings : BindArrayBuffer(b)
             \/ \E a \in Arrays : Specify(a) \/ \E on \in BOOLEAN : Switch(a, on)
             \/ DrawElementsLeftOut
      PROVE  IndicesAsBound'
  BY <1>1, <1>7 DEF BindArrayBuffer, Specify, Switch, DrawElementsLeftOut, shadowVars, glArrayVars
<1> QED
  BY <1>2, <1>3, <1>4, <1>5, <1>6, <1>7 DEF DrawNext, Draws

-----------------------------------------------------------------------------
(* What the program and the client know                                    *)

(* What the calls that give arrays places change                           *)
LEMMA SpecifyFacts ==
  ASSUME TablesInv, NEW a \in Arrays, Specify(a)
  PROVE  LET place == IF bound = Zero THEN "memory" ELSE bound
         IN /\ told' = [told EXCEPT ![current][a] = place]
            /\ bound = Zero => current = Zero
            /\ toldIn' = [toldIn EXCEPT ![a] = @ \cup {current}]
            /\ place \in Names \cup {"memory"} /\ place # "none"
            /\ place = "memory" <=> bound = Zero
  BY NamesAssumption DEF Specify, TablesInv, ArraysTypeOK, Bindings

LEMMA DeleteBufferFacts ==
  ASSUME TablesInv, NEW b \in Names, DeleteBuffer(b), NEW v \in VAOs, NEW a \in Arrays
  PROVE  /\ told'[v][a] = IF told[v][a] = b THEN "none" ELSE told[v][a]
         /\ source'[v][a] = IF source[v][a] = b THEN "none" ELSE source[v][a]
  BY DEF DeleteBuffer

LEMMA DeleteVertexArrayFacts ==
  ASSUME TablesInv, NEW w \in VAOs, DeleteVertexArray(w), NEW v \in VAOs, NEW a \in Arrays
  PROVE  /\ told'[v][a] = IF v = w /\ w # Zero THEN "none" ELSE told[v][a]
         /\ source'[v][a] = IF v = w /\ w # Zero THEN "none" ELSE source[v][a]
         /\ a \in glEnabled'[v] <=> a \in glEnabled[v] /\ ~(v = w /\ w # Zero)
<1> USE DEF TablesInv, ArraysTypeOK
<1>1. CASE w = Zero
  BY <1>1 DEF DeleteVertexArray
<1>2. CASE w # Zero
  <2> DEFINE nowhere == [c \in Arrays |-> "none"]
  <2>1. /\ glEnabled' = [glEnabled EXCEPT ![w] = {}]
        /\ source' = [source EXCEPT ![w] = nowhere]
        /\ told' = [told EXCEPT ![w] = nowhere]
    BY <1>2 DEF DeleteVertexArray
  <2>2. nowhere[a] = "none"
    OBVIOUS
  <2> HIDE DEF nowhere
  <2> QED
    BY <1>2, <2>1, <2>2
<1> QED
  BY <1>1, <1>2

LEMMA BufferStep ==
  ASSUME TablesInv, BufferInv, ToldInv, DrawNext PROVE BufferInv'
<1> USE DEF BufferInv
<1>0. \A v \in VAOs, a \in Arrays : told[v][a] \in Names \cup {"memory", "none"}
  BY DEF ToldInv
<1>1. ASSUME NEW b \in Bindings, BindArrayBuffer(b) PROVE BufferInv'
  BY <1>1 DEF BindArrayBuffer
<1>2. ASSUME NEW b \in Names, DeleteBuffer(b) PROVE BufferInv'
  <2>1. /\ glArray' = IF glArray = b THEN Zero ELSE glArray
        /\ bound' = IF bound = b THEN Zero ELSE bound
        /\ array_buffer' = array_buffer
    BY <1>2 DEF DeleteBuffer, shadowVars
  <2>2. b # Zero /\ b # "none" /\ \A c \in Names : c # "none"
    BY ZeroAssumption, NamesAssumption
  <2>3. array_buffer \in Names \cup {Zero}
    BY DEF TablesInv, ArraysTypeOK, Bindings
  <2>4. CASE array_buffer = bound /\ glArray = bound /\ bound # b
    BY <2>1, <2>4
  <2>5. CASE array_buffer = b
    <3>1. \A v \in VAOs, a \in Arrays : told'[v][a] # b
      BY <1>2, <2>2, DeleteBufferFacts
    <3> QED
      BY <2>1, <2>2, <2>5, <3>1
  <2>6. CASE bound = Zero /\ array_buffer # Zero
    <3>1. \A v \in VAOs, a \in Arrays : told'[v][a] # array_buffer
      BY <1>2, <2>2, <2>3, <2>5, <2>6, DeleteBufferFacts
    <3> QED
      BY <2>1, <2>2, <2>6, <3>1
  <2> QED
    BY <2>4, <2>5, <2>6
<1>3. ASSUME NEW w \in VAOs, DeleteVertexArray(w) PROVE BufferInv'
  <2>1. UNCHANGED <<array_buffer, glArray, bound>>
    BY <1>3 DEF DeleteVertexArray
  <2>2. array_buffer # Zero => "none" # array_buffer
    BY NamesAssumption DEF TablesInv, ArraysTypeOK, Bindings
  <2>3. \A v \in VAOs, a \in Arrays : told'[v][a] \in {"none", told[v][a]}
    BY <1>3, DeleteVertexArrayFacts
  <2> QED
    BY <2>1, <2>2, <2>3
<1>4. ASSUME NEW a \in Arrays, Specify(a) PROVE BufferInv'
  <2>1. UNCHANGED <<array_buffer, glArray, bound>>
    BY <1>4 DEF Specify
  <2>2. CASE array_buffer = bound /\ glArray = bound
    BY <2>1, <2>2
  <2>3. CASE bound = Zero /\ array_buffer # Zero
    <3>1. told' = [told EXCEPT ![current][a] = "memory"]
      BY <1>4, <2>3, SpecifyFacts
    <3>2. "memory" # array_buffer
      BY <2>3, NamesAssumption DEF TablesInv, ArraysTypeOK, Bindings
    <3>3. \A v \in VAOs, c \in Arrays : told'[v][c] \in {"memory", told[v][c]}
      BY <3>1 DEF TablesInv, ArraysTypeOK
    <3> QED
      BY <2>1, <2>3, <3>2, <3>3
  <2> QED
    BY <2>2, <2>3
<1>5. ASSUME Draws PROVE BufferInv'
  <2>1. UNCHANGED <<array_buffer, bound, told>>
    BY <1>5, DrawsFacts DEF shadowVars
  <2>2. glArray' = glArray \/ (array_buffer # Zero /\ glArray' = array_buffer)
    BY <1>5, DrawsFacts
  <2> QED
    BY <2>1, <2>2
<1>6. ASSUME UNCHANGED <<array_buffer, glArray, bound, told>> PROVE BufferInv'
  BY <1>6
<1>7. ASSUME \/ \E b \in Bindings : BindElementBuffer(b)
             \/ \E v \in VAOs : BindVertexArray(v)
             \/ \E a \in Arrays, on \in BOOLEAN : Switch(a, on)
             \/ DrawElementsLeftOut
      PROVE  BufferInv'
  BY <1>6, <1>7 DEF BindElementBuffer, BindVertexArray, Switch, DrawElementsLeftOut, shadowVars, glArrayVars
<1> QED
  BY <1>1, <1>2, <1>3, <1>4, <1>5, <1>7 DEF DrawNext, Draws

(* The calls that change neither what was told nor what is known of it     *)
Silent == UNCHANGED <<vaps, told, source, glEnabled, toldIn, misled>>

LEMMA SilentSteps ==
  ASSUME \/ \E b \in Bindings : BindArrayBuffer(b) \/ BindElementBuffer(b)
         \/ \E v \in VAOs : BindVertexArray(v)
         \/ DrawElementsLeftOut
  PROVE  Silent
  BY DEF Silent, BindArrayBuffer, BindElementBuffer, BindVertexArray, DrawElementsLeftOut,
     shadowVars, glArrayVars

LEMMA ToldStep ==
  ASSUME TablesInv, ToldInv, DrawNext PROVE ToldInv'
<1> USE DEF ToldInv
<1>0. /\ current \in VAOs /\ glEnabled \in [VAOs -> SUBSET Arrays]
      /\ told \in [VAOs -> [Arrays -> Places]] /\ toldIn \in [Arrays -> SUBSET VAOs]
  BY DEF TablesInv, ArraysTypeOK
<1>1. ASSUME UNCHANGED <<told, glEnabled, toldIn>> PROVE ToldInv'
  BY <1>1
<1>2. ASSUME Silent \/ Draws PROVE ToldInv'
  BY <1>1, <1>2, DrawsFacts DEF Silent
<1>3. ASSUME NEW b \in Names, DeleteBuffer(b) PROVE ToldInv'
  <2>1. UNCHANGED <<glEnabled, toldIn>>
    BY <1>3 DEF DeleteBuffer
  <2> QED
    BY <1>3, <2>1, DeleteBufferFacts
<1>4. ASSUME NEW w \in VAOs, DeleteVertexArray(w) PROVE ToldInv'
  <2>1. UNCHANGED toldIn
    BY <1>4 DEF DeleteVertexArray
  <2> QED
    BY <1>4, <2>1, DeleteVertexArrayFacts
<1>5. ASSUME NEW a \in Arrays, Specify(a) PROVE ToldInv'
  <2>1. UNCHANGED glEnabled
    BY <1>5 DEF Specify
  <2> QED
    BY <1>0, <1>5, <2>1, SpecifyFacts
<1>6. ASSUME NEW a \in Arrays, NEW on \in BOOLEAN, Switch(a, on) PROVE ToldInv'
  BY <1>0, <1>6 DEF Switch
<1> QED
  BY <1>2, <1>3, <1>4, <1>5, <1>6, SilentSteps DEF DrawNext, Draws

-----------------------------------------------------------------------------
LEMMA KnownStep ==
  ASSUME TablesInv, BufferInv, ToldInv, KnownInv, DrawNext PROVE KnownInv'
<1>0. /\ current \in VAOs /\ glEnabled \in [VAOs -> SUBSET Arrays]
      /\ told \in [VAOs -> [Arrays -> Places]] /\ toldIn \in [Arrays -> SUBSET VAOs]
      /\ source \in [VAOs -> [Arrays -> Places]]
      /\ vaps \in [Arrays -> [enabled : BOOLEAN, managed : BOOLEAN]]
  BY DEF TablesInv, ArraysTypeOK
<1>1. ASSUME Silent PROVE KnownInv'
  BY <1>1 DEF Silent, KnownInv, Once
<1>2. ASSUME NEW b \in Names, DeleteBuffer(b) PROVE KnownInv'
  <2>1. UNCHANGED <<vaps, glEnabled, toldIn, misled>>
    BY <1>2 DEF DeleteBuffer, shadowVars
  <2>2. b \notin {"memory", "none"} /\ "none" \notin Names
    BY NamesAssumption
  <2> QED
    BY <1>2, <2>1, <2>2, DeleteBufferFacts DEF KnownInv, Once
<1>3. ASSUME NEW w \in VAOs, DeleteVertexArray(w) PROVE KnownInv'
  <2>1. UNCHANGED <<vaps, toldIn, misled>>
    BY <1>3 DEF DeleteVertexArray
  <2> QED
    BY <1>3, <2>1, DeleteVertexArrayFacts DEF KnownInv, Once
<1>4. ASSUME NEW a \in Arrays, Specify(a) PROVE KnownInv'
  <2>1. /\ vaps' = [vaps EXCEPT ![a].managed = (array_buffer = Zero)]
        /\ toldIn' = [toldIn EXCEPT ![a] = @ \cup {current}]
        /\ misled' = IF array_buffer = bound THEN misled \ {a} ELSE misled \cup {a}
        /\ UNCHANGED glEnabled
    BY <1>4 DEF Specify
  <2>2. /\ vaps'[a].managed = (array_buffer = Zero) /\ vaps'[a].enabled = vaps[a].enabled
        /\ \A c \in Arrays \ {a} : vaps'[c] = vaps[c] /\ toldIn'[c] = toldIn[c]
        /\ toldIn'[a] = toldIn[a] \cup {current}
    BY <1>0, <2>1
  <2>3. \A v \in VAOs, c \in Arrays : v # current \/ c # a =>
          told'[v][c] = told[v][c] /\ source'[v][c] = source[v][c]
    BY <1>0, <1>4, SpecifyFacts DEF Specify
  <2>4. SUFFICES ASSUME NEW v \in VAOs, NEW c \in Arrays, Once(c)'
        PROVE  /\ c \in glEnabled'[v] => vaps'[c].enabled
               /\ c \notin misled' /\ told'[v][c] # "none" =>
                    /\ vaps'[c].managed <=> told'[v][c] = "memory"
                    /\ c # Legacy /\ told'[v][c] \in Names => source'[v][c] = told'[v][c]
    BY DEF KnownInv
  <2>5. Once(c)
    BY <2>2, <2>4 DEF Once
  <2>6. c \in glEnabled'[v] => vaps'[c].enabled
    BY <2>1, <2>2, <2>5 DEF KnownInv
  <2>7. CASE c # a
    BY <2>1, <2>2, <2>3, <2>5, <2>6, <2>7 DEF KnownInv
  <2>8. CASE c = a /\ v # current
    <3>1. v \notin toldIn[a]
      BY <2>2, <2>4, <2>8 DEF Once
    <3> QED
      BY <2>3, <2>6, <2>8, <3>1 DEF ToldInv
  <2>9. CASE c = a /\ v = current
    <3> SUFFICES ASSUME a \notin misled', told'[current][a] # "none"
                 PROVE  /\ vaps'[a].managed <=> told'[current][a] = "memory"
                        /\ a # Legacy /\ told'[current][a] \in Names =>
                             source'[current][a] = told'[current][a]
      BY <2>6, <2>9
    <3>1. array_buffer = bound
      BY <2>1
    <3>2. told'[current][a] = IF bound = Zero THEN "memory" ELSE bound
      BY <1>0, <1>4, SpecifyFacts
    <3>3. vaps'[a].managed <=> told'[current][a] = "memory"
      BY <1>4, <2>2, <3>1, <3>2, SpecifyFacts
    <3>4. ASSUME a # Legacy, told'[current][a] \in Names
          PROVE  source'[current][a] = told'[current][a]
      <4>1. bound # Zero
        BY <3>2, <3>4, NamesAssumption
      <4>2. glArray = bound
        BY <3>1, <4>1 DEF BufferInv
      <4> QED
        BY <1>0, <1>4, <3>1, <3>2, <3>4, <4>1, <4>2 DEF Specify, PointedAt
    <3> QED
      BY <3>3, <3>4
  <2> QED
    BY <2>7, <2>8, <2>9
<1>5. ASSUME NEW a \in Arrays, NEW on \in BOOLEAN, Switch(a, on) PROVE KnownInv'
  <2>1. /\ vaps' = [vaps EXCEPT ![a].enabled = on]
        /\ glEnabled' = [glEnabled EXCEPT ![current] = IF on THEN @ \cup {a} ELSE @ \ {a}]
        /\ toldIn' = [toldIn EXCEPT ![a] = @ \cup {current}]
        /\ UNCHANGED <<told, source, misled>>
    BY <1>5 DEF Switch
  <2>2. /\ vaps'[a].managed = vaps[a].managed /\ vaps'[a].enabled = on
        /\ \A c \in Arrays \ {a} : vaps'[c] = vaps[c] /\ toldIn'[c] = toldIn[c]
        /\ toldIn'[a] = toldIn[a] \cup {current}
    BY <1>0, <2>1
  <2>3. SUFFICES ASSUME NEW v \in VAOs, NEW c \in Arrays, Once(c)'
        PROVE  /\ c \in glEnabled'[v] => vaps'[c].enabled
               /\ c \notin misled /\ told[v][c] # "none" =>
                    /\ vaps'[c].managed <=> told[v][c] = "memory"
                    /\ c # Legacy /\ told[v][c] \in Names => source[v][c] = told[v][c]
    BY <2>1 DEF KnownInv
  <2>4. Once(c)
    BY <2>2, <2>3 DEF Once
  <2>5. c \in glEnabled'[v] => vaps'[c].enabled
    <3>1. CASE c # a
      BY <1>0, <2>1, <2>2, <2>4, <3>1 DEF KnownInv
    <3>2. CASE c = a /\ v = current
      BY <1>0, <2>1, <2>2, <3>2
    <3>3. CASE c = a /\ v # current
      <4>1. v \notin toldIn[a]
        BY <2>2, <2>3, <3>3 DEF Once
      <4> QED
        BY <1>0, <2>1, <3>3, <4>1 DEF ToldInv
    <3> QED
      BY <3>1, <3>2, <3>3
  <2>6. vaps'[c].managed = vaps[c].managed
    BY <2>2
  <2> QED
    BY <2>4, <2>5, <2>6 DEF KnownInv
<1>6. ASSUME Draws PROVE KnownInv'
  <2>1. UNCHANGED <<vaps, told, glEnabled, toldIn, misled, current>>
    BY <1>6, DrawsFacts DEF shadowVars
  <2>2. SUFFICES ASSUME NEW v \in VAOs, NEW a \in Arrays, Once(a), a \notin misled,
                        a # Legacy, told[v][a] \in Names
        PROVE  source'[v][a] = told[v][a]
    BY <2>1 DEF KnownInv, Once
  <2>3. told[v][a] \notin {"memory", "none"}
    BY <2>2, NamesAssumption
  <2>4. source[v][a] = told[v][a] /\ ~vaps[a].managed
    BY <2>2, <2>3 DEF KnownInv
  <2>5. Given[a] = source[current][a]
    BY <2>2, <2>4 DEF Given, Managed
  <2>6. v # current => source'[v][a] = source[v][a]
    BY <1>0, <1>6, DrawsFacts DEF Placed
  <2>7. v = current => source'[v][a] = source[v][a]
    <3>1. ASSUME NEW places, NEW pointers, Placed(places, pointers),
                 places[a] = source[current][a], v = current
          PROVE  source'[v][a] = source[v][a]
      BY <1>0, <2>3, <2>4, <3>1 DEF Placed
    <3> QED
      BY <1>6, <2>5, <3>1, DrawsFacts
  <2> QED
    BY <2>4, <2>6, <2>7
<1> QED
  BY <1>1, <1>2, <1>3, <1>4, <1>5, <1>6, SilentSteps DEF DrawNext, Draws

-----------------------------------------------------------------------------
(* A draw reads the arrays it may rely on where the program said they are  *)
LEMMA ReadsStep ==
  ASSUME TablesInv, BufferInv, ToldInv, KnownInv, Draws PROVE DrawsReadWhatWasTold'
<1>1. UNCHANGED <<array_buffer, current, vaps, told, glEnabled, toldIn, misled>>
  BY DrawsFacts DEF shadowVars
<1>2. SUFFICES ASSUME NEW a \in glEnabled[current], Reliable(a)', told[current][a] # "none"
      PROVE  drawn'.read[a] = told[current][a]
  BY <1>1 DEF DrawsReadWhatWasTold
<1>3. a \in Arrays /\ current \in VAOs /\ IsFiniteSet(toldIn[a])
  BY DEF TablesInv, ArraysTypeOK
<1>4. Once(a) /\ a \notin misled
  BY <1>1, <1>2, <1>3, ReliableOnce DEF Reliable, Once
<1>5. vaps[a].enabled /\ (vaps[a].managed <=> told[current][a] = "memory")
  BY <1>2, <1>3, <1>4 DEF KnownInv
<1>6. told[current][a] \in Names \cup {"memory"} /\ (told[current][a] = "memory" => current = Zero)
  BY <1>2, <1>3 DEF ToldInv
<1>7. CASE told[current][a] = "memory"
  <2>1. a \in Managed /\ current = Zero
    BY <1>3, <1>5, <1>6, <1>7 DEF Managed
  <2>2. Given[a] = "memory" /\ Managed # {}
    BY <1>3, <2>1 DEF Given
  <2> QED
    BY <1>7, <2>2, DrawsFacts DEF Placed
<1>8. CASE told[current][a] \in Names /\ a # Legacy
  <2>1. a \notin Managed
    BY <1>5, <1>8, NamesAssumption DEF Managed
  <2>2. source[current][a] = told[current][a]
    BY <1>2, <1>3, <1>4, <1>8 DEF KnownInv
  <2>3. Given[a] = source[current][a]
    BY <1>3, <1>8, <2>1 DEF Given
  <2> QED
    BY <2>2, <2>3, DrawsFacts DEF Placed
<1>9. CASE told[current][a] \in Names /\ a = Legacy
  <2>1. array_buffer = told[current][a] /\ Managed = {} /\ drawn'.pointers
    <3>1. Managed' = Managed
      BY <1>1 DEF Managed
    <3>2. a = Legacy /\ told'[current'][a] \in Names =>
            array_buffer' = told'[current'][a] /\ Managed' = {} /\ drawn'.pointers
      BY <1>2 DEF Reliable
    <3>3. told'[current'][a] = told[current][a] /\ array_buffer' = array_buffer
      BY <1>1
    <3> QED
      BY <1>9, <3>1, <3>2, <3>3
  <2>2. glArray = array_buffer /\ glArray # Zero
    BY <1>3, <1>9, <2>1, ZeroAssumption DEF BufferInv
  <2>3. Given[a] = glArray
    BY <1>3, <1>5, <1>9, <2>1, <2>2 DEF Given, GivenBinding, PointedAt
  <2> QED
    BY <2>1, <2>2, <2>3, DrawsFacts DEF Placed
<1> QED
  BY <1>6, <1>7, <1>8, <1>9

LEMMA NoDrawStep ==
  ASSUME DrawNext, ~Draws PROVE DrawsReadWhatWasTold'
<1>1. drawn' = NoDraw
  BY DEF DrawNext, Draws, BindArrayBuffer, BindElementBuffer, BindVertexArray, DeleteBuffer,
     DeleteVertexArray, Specify, Switch, DrawElementsLeftOut, NotADraw
<1> QED
  BY <1>1 DEF DrawsReadWhatWasTold

LEMMA DrawStep == DrawIInv /\ [DrawNext]_arrayVars => DrawIInv'
<1> SUFFICES ASSUME DrawIInv, [DrawNext]_arrayVars PROVE DrawIInv'
  OBVIOUS
<1>1. CASE DrawNext
  BY <1>1, TablesStep, IndicesStep, BufferStep, ToldStep, KnownStep, ReadsStep, NoDrawStep DEF DrawIInv
<1>2. CASE UNCHANGED arrayVars
  BY <1>2 DEF arrayVars, shadowVars, glArrayVars, programVars, arrayHistory, DrawIInv, TablesInv,
     ArraysTypeOK, IndicesAsBound, ElementBinding, BufferInv, ToldInv, KnownInv, Once,
     DrawsReadWhatWasTold, Reliable, Managed
<1> QED
  BY <1>1, <1>2

LEMMA DrawInvariant == DrawSpec => []DrawIInv
  BY DrawInitHolds, DrawStep, PTL DEF DrawSpec

(* The table of vertex arrays never has more entries than there is room    *)
(* for (glimpl_get_vertex_array_binding), and every copy keeps its type    *)
THEOREM ArraysTyped == DrawSpec => []ArraysTypeOK
<1>1. DrawIInv => ArraysTypeOK
  BY DEF DrawIInv, TablesInv
<1> QED
  BY <1>1, DrawInvariant, PTL

(* glimpl_get_element_array_buffer_binding is GL's element buffer of the   *)
(* current object unless it changed behind the table                       *)
THEOREM IndicesRight == DrawSpec => []IndicesAsBound
<1>1. DrawIInv => IndicesAsBound
  BY DEF DrawIInv
<1> QED
  BY <1>1, DrawInvariant, PTL

(* A draw reads the arrays where the program said they are: what           *)
(* glimpl_push_client_managed_draw_state gives GL is right                 *)
THEOREM DrawsRight == DrawSpec => []DrawsReadWhatWasTold
<1>1. DrawIInv => DrawsReadWhatWasTold
  BY DEF DrawIInv
<1> QED
  BY <1>1, DrawInvariant, PTL

-----------------------------------------------------------------------------
(* Mapped buffers: the types                                               *)

Contents == [1 .. Size -> Units]
Holds == [target : Buffers \cup {Nowhere}, offset : 0 .. Size, length : 0 .. Size]
MapTyped ==
  /\ phase \in [Apps -> {"idle", "map", "image"}]
  /\ held \in [Apps -> Holds] /\ \A c \in Apps : held[c].offset + held[c].length <= Size
  /\ mem \in [Apps -> Contents] /\ pixels \in [Apps -> Seq(Units)]
  /\ got \in [Apps -> 0 .. Size]
  /\ open \in [Apps -> SUBSET Buffers] /\ mapped \in [Apps -> SUBSET Buffers]
  /\ flushed \in [Apps -> [off : Nat, bytes : Seq(Units)]]
  /\ data \in [Apps -> [Buffers -> Contents]] /\ want \in [Apps -> [Buffers -> Contents]]
  /\ map_buffer \in Mappings \cup {Nowhere}
  /\ download_target \in Mappings \cup {Nowhere, Scratch} /\ download_offset \in Nat
  /\ scratch \in Apps \cup {Junk} /\ alive \in BOOLEAN
  /\ calls \in 0 .. MaxCalls /\ mixed \subseteq Apps /\ crossed \in BOOLEAN

(* A program that downloads has flushed nothing, and has received no more  *)
(* than it asked for                                                       *)
RoundOf(c) ==
  /\ phase[c] # "idle" => flushed[c] = NoFlush
  /\ phase[c] # "idle" => got[c] <= Length(c)
  /\ phase[c] = "image" => Len(pixels[c]) = got[c]
  /\ phase[c] # "image" => Len(pixels[c]) = 0
  /\ flushed[c] # NoFlush => held[c].target \in open[c]
  /\ open[c] # {} => held[c].target \in Buffers
RoundInv == \A c \in Apps : RoundOf(c)

(* As long as nothing crossed, one mapping is open at most: the server's   *)
(* map_buffer, and what was written is there                               *)
WriteInv ==
  ~crossed =>
    /\ data = want /\ mapped = open
    /\ \A c, d \in Apps : \A b \in open[c], e \in open[d] : c = d /\ b = e
    /\ \A c \in Apps : \A b \in open[c] :
         /\ map_buffer = [app |-> c, buf |-> b, off |-> held[c].offset]
         /\ held[c].target = b

(* The server's target and offset are those of an undisturbed download     *)
SourceOf(c) ==
  /\ phase[c] = "map" =>
       /\ map_buffer = download_target /\ download_offset = got[c]
       /\ held[c].target \in open[c]
       /\ download_target # Nowhere =>
            /\ download_target = [app |-> c, buf |-> held[c].target, off |-> held[c].offset]
            /\ held[c].target \in mapped[c]
  /\ phase[c] = "image" =>
       scratch = c /\ download_target = Scratch /\ download_offset = got[c]
SourceInv == \A c \in Apps \ mixed : SourceOf(c)

(* DownloadsReadSource, of one program                                     *)
ReadsOf(c) ==
  /\ phase[c] = "map" =>
       \A i \in 1 .. got[c] : mem[c][i] = data[c][held[c].target][held[c].offset + i]
  /\ phase[c] = "image" =>
       pixels[c] = [i \in 1 .. got[c] |-> Unit("image", c, Scratch, i, 0)]

MapIInv == MapTyped /\ RoundInv /\ WriteInv /\ SourceInv /\ DownloadsReadSource

LEMMA UnitsFacts ==
  /\ \A c \in Apps, b \in Buffers, i \in 1 .. Size : \A bit \in {0, 1} :
       Unit("buffer", c, b, i, bit) \in Units
  /\ \A c \in Apps, i \in 1 .. Size : Unit("image", c, Scratch, i, 0) \in Units
  /\ Junk \in Units
  BY DEF Units

LEMMA MapInitHolds == MapInit => MapIInv
<1> SUFFICES ASSUME MapInit PROVE MapIInv
  OBVIOUS
<1> USE DEF MapInit
<1>1. /\ Fresh \in [Apps -> [Buffers -> Contents]]
      /\ [c \in Apps |-> [i \in 1 .. Size |-> Junk]] \in [Apps -> Contents]
  BY UnitsFacts DEF Fresh, Contents
<1>2. MapTyped
  <2>1. held \in [Apps -> Holds] /\ \A c \in Apps : held[c].offset + held[c].length <= Size
    BY SizesAssumption DEF Holds
  <2>2. pixels \in [Apps -> Seq(Units)] /\ got \in [Apps -> 0 .. Size]
    BY SizesAssumption
  <2>3. flushed \in [Apps -> [off : Nat, bytes : Seq(Units)]]
    BY DEF NoFlush
  <2>4. /\ phase \in [Apps -> {"idle", "map", "image"}]
        /\ open \in [Apps -> SUBSET Buffers] /\ mapped \in [Apps -> SUBSET Buffers]
        /\ calls \in 0 .. MaxCalls
    BY SizesAssumption
  <2> QED
    BY <1>1, <2>1, <2>2, <2>3, <2>4 DEF MapTyped
<1>3. RoundInv /\ WriteInv /\ SourceInv /\ DownloadsReadSource
  BY DEF RoundInv, RoundOf, WriteInv, SourceInv, SourceOf, DownloadsReadSource
<1> QED
  BY <1>2, <1>3 DEF MapIInv

(* What the copies of the server make of contents                          *)
LEMMA OverTyped ==
  ASSUME NEW old \in Contents, NEW off \in Int, NEW bytes \in Seq(Units)
  PROVE  Over(old, off, bytes) \in Contents
<1>1. \A i \in 1 .. Size : i - off \in DOMAIN bytes => bytes[i - off] \in Units
  OBVIOUS
<1> QED
  BY <1>1 DEF Over, Contents

LEMMA ReadTyped ==
  ASSUME MapTyped, NEW n \in Nat, NEW count \in Nat, download_target # Nowhere
  PROVE  /\ Read(download_target, n, count) \in Seq(Units)
         /\ Len(Read(download_target, n, count)) = count
         /\ DOMAIN Read(download_target, n, count) = 1 .. count
<1> DEFINE at == download_target
           R(i) == IF at = Scratch
                   THEN IF scratch # Junk /\ n + i <= Size
                        THEN Unit("image", scratch, Scratch, n + i, 0) ELSE Junk
                   ELSE IF at.buf \in mapped[at.app] /\ at.off + n + i <= Size
                        THEN data[at.app][at.buf][at.off + n + i] ELSE Junk
<1>1. ASSUME NEW i \in 1 .. count PROVE R(i) \in Units
  <2>1. CASE at = Scratch
    <3>1. scratch # Junk /\ n + i <= Size => scratch \in Apps /\ n + i \in 1 .. Size
      BY DEF MapTyped
    <3> QED
      BY <2>1, <3>1, UnitsFacts
  <2>2. CASE at # Scratch
    <3>1. at.app \in Apps /\ at.buf \in Buffers /\ at.off \in Nat
      BY <2>2, SizesAssumption DEF MapTyped, Mappings
    <3>2. at.off + n + i <= Size => at.off + n + i \in 1 .. Size
      BY <3>1, SizesAssumption
    <3>3. data[at.app][at.buf] \in Contents
      BY <3>1 DEF MapTyped
    <3>4. at.off + n + i <= Size => data[at.app][at.buf][at.off + n + i] \in Units
      BY <3>2, <3>3 DEF Contents
    <3> QED
      BY <2>2, <3>4, UnitsFacts
  <2> QED
    BY <2>1, <2>2
<1>2. Read(at, n, count) = [i \in 1 .. count |-> R(i)]
  BY DEF Read
<1> HIDE DEF R, at
<1>3. Read(at, n, count) \in [1 .. count -> Units] /\ DOMAIN Read(at, n, count) = 1 .. count
  BY <1>1, <1>2
<1>4. Read(at, n, count) \in Seq(Units) /\ Len(Read(at, n, count)) = count
  BY <1>3
<1> QED
  BY <1>3, <1>4 DEF at

LEMMA CopyFacts ==
  ASSUME MapTyped, map_buffer # Nowhere, NEW off \in Nat, NEW bytes \in Seq(Units)
  PROVE  /\ Copy(map_buffer, off, bytes) \in [Apps -> [Buffers -> Contents]]
         /\ \A c \in Apps \ {map_buffer.app} : Copy(map_buffer, off, bytes)[c] = data[c]
<1> DEFINE at == map_buffer
           junk == [i \in DOMAIN bytes |-> Junk]
           sent == IF at.buf \in mapped[at.app] THEN bytes ELSE junk
<1>1. at.app \in Apps /\ at.buf \in Buffers /\ at.off \in Nat
  <2>1. map_buffer \in Mappings
    BY DEF MapTyped
  <2> QED
    BY <2>1, SizesAssumption DEF Mappings
<1>2. sent \in Seq(Units)
  <2>1. DOMAIN bytes = 1 .. Len(bytes) /\ Len(bytes) \in Nat
    OBVIOUS
  <2>2. junk \in [1 .. Len(bytes) -> Units]
    BY <2>1, UnitsFacts
  <2>3. junk \in Seq(Units)
    BY <2>1, <2>2
  <2> QED
    BY <2>3
<1>3. Over(data[at.app][at.buf], at.off + off, sent) \in Contents
  <2>1. data[at.app][at.buf] \in Contents
    BY <1>1 DEF MapTyped
  <2>2. at.off + off \in Int
    BY <1>1
  <2> HIDE DEF sent, at
  <2> QED
    BY <1>2, <2>1, <2>2, OverTyped
<1>4. Copy(at, off, bytes) =
        [data EXCEPT ![at.app][at.buf] = Over(data[at.app][at.buf], at.off + off, sent)]
  BY DEF Copy
<1> HIDE DEF sent, at
<1> QED
  BY <1>1, <1>3, <1>4 DEF MapTyped, at

(* A mapping that is noted and that the server makes keeps the types       *)
LEMMA HoldTyped ==
  ASSUME MapTyped, NEW c \in Apps, NEW b \in Buffers, NEW offset \in 0 .. Size,
         NEW length \in 0 .. Size, offset + length <= Size, Hold(c, b, offset, length)
  PROVE  /\ phase' \in [Apps -> {"idle", "map", "image"}]
         /\ held' \in [Apps -> Holds] /\ \A d \in Apps : held'[d].offset + held'[d].length <= Size
         /\ mem' \in [Apps -> Contents] /\ pixels' \in [Apps -> Seq(Units)]
         /\ got' \in [Apps -> 0 .. Size] /\ open' \in [Apps -> SUBSET Buffers]
         /\ flushed' \in [Apps -> [off : Nat, bytes : Seq(Units)]]
         /\ want' \in [Apps -> [Buffers -> Contents]]
<1> DEFINE new == [target |-> b, offset |-> offset, length |-> length]
<1>1. new \in Holds /\ new.offset + new.length <= Size
  BY DEF Holds
<1>2. held' = [held EXCEPT ![c] = new]
  BY DEF Hold
<1>3. held' \in [Apps -> Holds] /\ \A d \in Apps : held'[d].offset + held'[d].length <= Size
  <2> HIDE DEF new
  <2> QED
    BY <1>1, <1>2 DEF MapTyped
<1>4. 0 \in 0 .. Size
  BY SizesAssumption
<1> QED
  BY <1>3, <1>4 DEF MapTyped, Hold

LEMMA ServeTyped ==
  ASSUME MapTyped, NEW c \in Apps, NEW b \in Buffers, NEW offset \in 0 .. Size - 1,
         ServeMap(c, b, offset)
  PROVE  /\ map_buffer' \in Mappings \cup {Nowhere}
         /\ download_target' \in Mappings \cup {Nowhere, Scratch} /\ download_offset' \in Nat
         /\ mapped' \in [Apps -> SUBSET Buffers] /\ data' \in [Apps -> [Buffers -> Contents]]
         /\ scratch' \in Apps \cup {Junk} /\ alive' \in BOOLEAN
<1> DEFINE at == IF b \in mapped[c] THEN Nowhere ELSE [app |-> c, buf |-> b, off |-> offset]
<1>1. at \in Mappings \cup {Nowhere}
  BY DEF Mappings
<1>2. map_buffer' = at /\ download_target' = at /\ download_offset' = 0
  BY DEF ServeMap
<1> HIDE DEF at
<1> QED
  BY <1>1, <1>2 DEF MapTyped, ServeMap

LEMMA RangesFacts ==
  ASSUME NEW r \in Ranges
  PROVE  r[1] \in 0 .. Size - 1 /\ r[1] \in 0 .. Size /\ r[2] \in 0 .. Size /\ r[1] + r[2] <= Size
  BY RangesAssumption, SizesAssumption

LEMMA SentTyped ==
  ASSUME MapTyped, NEW c \in Apps
  PROVE  Sent(c) \in Seq(Units) /\ DOMAIN Sent(c) = 1 .. held[c].length
         /\ held[c].length \in 0 .. Size
<1>1. held[c].length \in 0 .. Size /\ mem[c] \in Contents
  BY DEF MapTyped, Holds
<1>2. mem[c] \in Seq(Units) /\ Len(mem[c]) = Size
  BY <1>1, SizesAssumption DEF Contents
<1> QED
  BY <1>1, <1>2, SizesAssumption DEF Sent

LEMMA ArrivesTyped ==
  ASSUME MapTyped, NEW c \in Apps, held[c].target \in Buffers,
         NEW offset \in Nat, NEW bytes \in Seq(Units), Arrives(c, offset, bytes)
  PROVE  want' \in [Apps -> [Buffers -> Contents]]
<1>1. want[c][held[c].target] \in Contents /\ held[c].offset + offset \in Int
  <2>1. held[c] \in Holds /\ want[c] \in [Buffers -> Contents]
    BY DEF MapTyped
  <2> QED
    BY <2>1 DEF Holds
<1>2. Over(want[c][held[c].target], held[c].offset + offset, bytes) \in Contents
  BY <1>1, OverTyped
<1> QED
  BY <1>2 DEF MapTyped, Arrives

LEMMA MapsTyped ==
  ASSUME MapTyped, NEW c \in Apps, NEW b \in Buffers,
         \/ \E r \in Ranges : MapRange(c, b, r[1], r[2]) \/ MapDropped(c, b, r[1], r[2])
         \/ MapWhole(c, b) \/ MapNamed(c, b)
  PROVE  MapTyped'
<1>1. ASSUME NEW r \in Ranges, MapRange(c, b, r[1], r[2]) PROVE MapTyped'
  <2>1. Hold(c, b, r[1], r[2]) /\ ServeMap(c, b, r[1])
    BY <1>1 DEF MapRange
  <2>2. calls' \in 0 .. MaxCalls /\ mixed' \subseteq Apps /\ crossed' \in BOOLEAN
    BY <1>1, SizesAssumption DEF MapRange, Call, Moved, MapTyped
  <2> QED
    BY <2>1, <2>2, RangesFacts, HoldTyped, ServeTyped DEF MapTyped
<1>2. ASSUME NEW r \in Ranges, MapDropped(c, b, r[1], r[2]) PROVE MapTyped'
  <2>1. Hold(c, b, r[1], r[2])
    BY <1>2 DEF MapDropped
  <2>2. calls' \in 0 .. MaxCalls /\ mixed' \subseteq Apps /\ crossed' \in BOOLEAN
    BY <1>2, SizesAssumption DEF MapDropped, Call, MapTyped
  <2>3. UNCHANGED <<glVars, map_buffer, targetVars, scratch, alive>>
    BY <1>2 DEF MapDropped
  <2> QED
    BY <2>1, <2>2, <2>3, RangesFacts, HoldTyped DEF MapTyped, glVars, targetVars
<1>3. ASSUME MapWhole(c, b) PROVE MapTyped'
  <2>1. PICK dropped \in BOOLEAN : /\ Hold(c, b, 0, IF dropped THEN 0 ELSE Size)
                                  /\ crossed' = (crossed \/ dropped \/ Beside)
    BY <1>3 DEF MapWhole
  <2>2. calls' \in 0 .. MaxCalls /\ mixed' \subseteq Apps /\ crossed' \in BOOLEAN
    BY <1>3, <2>1, SizesAssumption DEF MapWhole, Call, Moved, MapTyped
  <2>3. ServeMap(c, b, 0) /\ 0 \in 0 .. Size - 1
    BY <1>3, SizesAssumption DEF MapWhole
  <2>4. /\ 0 \in 0 .. Size /\ (IF dropped THEN 0 ELSE Size) \in 0 .. Size
        /\ 0 + (IF dropped THEN 0 ELSE Size) <= Size
    BY SizesAssumption
  <2> QED
    BY <2>1, <2>2, <2>3, <2>4, HoldTyped, ServeTyped DEF MapTyped
<1>4. ASSUME MapNamed(c, b) PROVE MapTyped'
  <2>1. Hold(c, b, 0, 0) /\ ServeMap(c, b, 0)
    BY <1>4 DEF MapNamed
  <2>2. calls' \in 0 .. MaxCalls /\ mixed' \subseteq Apps /\ crossed' \in BOOLEAN
    BY <1>4, SizesAssumption DEF MapNamed, Call, Moved, MapTyped
  <2>3. 0 \in 0 .. Size - 1 /\ 0 \in 0 .. Size /\ 0 + 0 <= Size
    BY SizesAssumption
  <2> QED
    BY <2>1, <2>2, <2>3, HoldTyped, ServeTyped DEF MapTyped
<1> QED
  BY <1>1, <1>2, <1>3, <1>4

(* What a download receives: as many units as are left, a block at most    *)
LEMMA DownloadFacts ==
  ASSUME MapTyped, RoundInv, NEW c \in Apps, Download(c), download_target # Nowhere
  PROVE  \E count \in Nat :
           /\ count <= Block /\ got[c] + count <= Length(c)
           /\ Read(download_target, download_offset, count) \in Seq(Units)
           /\ DOMAIN Read(download_target, download_offset, count) = 1 .. count
           /\ Len(Read(download_target, download_offset, count)) = count
           /\ download_offset' = download_offset + count
           /\ got' = [got EXCEPT ![c] = got[c] + count]
           /\ phase[c] = "map" =>
                /\ mem' = [mem EXCEPT ![c] =
                             Over(mem[c], got[c], Read(download_target, download_offset, count))]
                /\ pixels' = pixels
           /\ phase[c] # "map" =>
                /\ pixels' = [pixels EXCEPT ![c] =
                                pixels[c] \o Read(download_target, download_offset, count)]
                /\ mem' = mem
           /\ mixed' = Moved(c)
           /\ UNCHANGED <<calls, phase, held, open, flushed, glVars, map_buffer,
                          download_target, scratch, alive, crossed, want>>
<1> DEFINE count == IF Length(c) - got[c] < Block THEN Length(c) - got[c] ELSE Block
<1>1. Length(c) \in Nat /\ got[c] \in Nat /\ got[c] < Length(c)
  BY SizesAssumption DEF MapTyped, Holds, Length, Download
<1>2. count \in Nat /\ count <= Block /\ got[c] + count <= Length(c)
  BY <1>1, SizesAssumption
<1>3. /\ download_offset' = download_offset + count
      /\ got' = [got EXCEPT ![c] = got[c] + count]
      /\ phase[c] = "map" =>
           /\ mem' = [mem EXCEPT ![c] =
                        Over(mem[c], got[c], Read(download_target, download_offset, count))]
           /\ pixels' = pixels
      /\ phase[c] # "map" =>
           /\ pixels' = [pixels EXCEPT ![c] =
                           pixels[c] \o Read(download_target, download_offset, count)]
           /\ mem' = mem
      /\ mixed' = Moved(c)
      /\ UNCHANGED <<calls, phase, held, open, flushed, glVars, map_buffer,
                     download_target, scratch, alive, crossed, want>>
  BY DEF Download
<1> HIDE DEF count
<1>4. download_offset \in Nat
  BY DEF MapTyped
<1>5. /\ Read(download_target, download_offset, count) \in Seq(Units)
      /\ DOMAIN Read(download_target, download_offset, count) = 1 .. count
      /\ Len(Read(download_target, download_offset, count)) = count
  BY <1>2, <1>4, ReadTyped
<1> QED
  BY <1>2, <1>3, <1>5

LEMMA DownloadTyped ==
  ASSUME MapTyped, RoundInv, NEW c \in Apps, Download(c), download_target # Nowhere
  PROVE  MapTyped'
<1>1. PICK count \in Nat :
        /\ count <= Block /\ got[c] + count <= Length(c)
        /\ Read(download_target, download_offset, count) \in Seq(Units)
        /\ download_offset' = download_offset + count
        /\ got' = [got EXCEPT ![c] = got[c] + count]
        /\ phase[c] = "map" =>
             /\ mem' = [mem EXCEPT ![c] =
                          Over(mem[c], got[c], Read(download_target, download_offset, count))]
             /\ pixels' = pixels
        /\ phase[c] # "map" =>
             /\ pixels' = [pixels EXCEPT ![c] =
                             pixels[c] \o Read(download_target, download_offset, count)]
             /\ mem' = mem
        /\ mixed' = Moved(c)
        /\ UNCHANGED <<calls, phase, held, open, flushed, glVars, map_buffer,
                       download_target, scratch, alive, crossed, want>>
  BY DownloadFacts
<1> DEFINE bytes == Read(download_target, download_offset, count)
<1> HIDE DEF bytes
<1>2. Length(c) \in 0 .. Size /\ got[c] \in 0 .. Size
  BY SizesAssumption DEF MapTyped, Holds, Length
<1>3. got' \in [Apps -> 0 .. Size] /\ download_offset' \in Nat
  <2>1. got[c] + count \in 0 .. Size
    BY <1>1, <1>2, SizesAssumption
  <2>2. got' = [got EXCEPT ![c] = got[c] + count]
    BY <1>1
  <2>3. got' \in [Apps -> 0 .. Size]
    BY <2>1, <2>2 DEF MapTyped
  <2>4. download_offset \in Nat
    BY DEF MapTyped
  <2> QED
    BY <1>1, <2>3, <2>4
<1>4. mem' \in [Apps -> Contents] /\ pixels' \in [Apps -> Seq(Units)]
  <2>1. bytes \in Seq(Units) /\ mem[c] \in Contents /\ got[c] \in Int /\ pixels[c] \in Seq(Units)
    BY <1>1, <1>2 DEF bytes, MapTyped
  <2>2. Over(mem[c], got[c], bytes) \in Contents /\ pixels[c] \o bytes \in Seq(Units)
    BY <2>1, OverTyped
  <2>5. mem \in [Apps -> Contents] /\ pixels \in [Apps -> Seq(Units)]
    BY DEF MapTyped
  <2>3. CASE phase[c] = "map"
    <3>1. mem' = [mem EXCEPT ![c] = Over(mem[c], got[c], bytes)] /\ pixels' = pixels
      BY <1>1, <2>3 DEF bytes
    <3> QED
      BY <2>2, <2>5, <3>1
  <2>4. CASE phase[c] # "map"
    <3>1. pixels' = [pixels EXCEPT ![c] = pixels[c] \o bytes] /\ mem' = mem
      BY <1>1, <2>4 DEF bytes
    <3> QED
      BY <2>2, <2>5, <3>1
  <2> QED
    BY <2>3, <2>4
<1>5. mixed' \subseteq Apps
  BY <1>1 DEF Moved, MapTyped
<1> QED
  BY <1>1, <1>3, <1>4, <1>5 DEF MapTyped, glVars

LEMMA CopiesTyped ==
  ASSUME MapTyped, RoundInv, NEW c \in Apps,
         SendFlush(c) \/ \E b \in Buffers : Unmap(c, b)
  PROVE  MapTyped'
<1>1. CASE map_buffer = Nowhere
  BY <1>1 DEF SendFlush, Unmap, ServerEnds, clientVars, glVars, targetVars, MapTyped
<1>2. ASSUME map_buffer # Nowhere, SendFlush(c) PROVE MapTyped'
  <2>1. held[c].target \in Buffers
    BY <1>2 DEF SendFlush, RoundInv, RoundOf, MapTyped
  <2>2. flushed[c].off \in Nat /\ flushed[c].bytes \in Seq(Units)
    BY DEF MapTyped
  <2>3. /\ flushed' = [flushed EXCEPT ![c] = NoFlush]
        /\ UNCHANGED <<calls, phase, held, mem, pixels, got, open, mapped, map_buffer,
                       targetVars, scratch, alive, crossed>>
        /\ \/ /\ data' = Copy(map_buffer, flushed[c].off, flushed[c].bytes)
              /\ Arrives(c, flushed[c].off, flushed[c].bytes)
              /\ mixed' = Overwritten(c)
           \/ UNCHANGED <<data, want, mixed>>
    BY <1>2 DEF SendFlush
  <2>4. flushed' \in [Apps -> [off : Nat, bytes : Seq(Units)]]
    BY <2>3 DEF MapTyped, NoFlush
  <2>5. /\ data' \in [Apps -> [Buffers -> Contents]] /\ want' \in [Apps -> [Buffers -> Contents]]
        /\ mixed' \subseteq Apps
    <3>1. CASE UNCHANGED <<data, want, mixed>>
      BY <3>1 DEF MapTyped
    <3>2. CASE /\ data' = Copy(map_buffer, flushed[c].off, flushed[c].bytes)
               /\ Arrives(c, flushed[c].off, flushed[c].bytes)
               /\ mixed' = Overwritten(c)
      <4>1. data' \in [Apps -> [Buffers -> Contents]]
        BY <1>2, <3>2, <2>2, CopyFacts
      <4>2. want' \in [Apps -> [Buffers -> Contents]]
        BY <3>2, <2>1, <2>2, ArrivesTyped
      <4> QED
        BY <4>1, <4>2, <3>2 DEF Overwritten, MapTyped
    <3> QED
      BY <2>3, <3>1, <3>2
  <2> QED
    BY <2>3, <2>4, <2>5 DEF MapTyped, targetVars
<1>3. ASSUME map_buffer # Nowhere, NEW b \in Buffers, Unmap(c, b) PROVE MapTyped'
  <2>1. held[c].target \in Buffers
    BY <1>3 DEF Unmap
  <2>2. Sent(c) \in Seq(Units) /\ 0 \in Nat
    BY SentTyped
  <2>3. /\ open' = [open EXCEPT ![c] = open[c] \ {b}]
        /\ UNCHANGED <<calls, phase, held, mem, pixels, got, flushed, map_buffer,
                       targetVars, scratch, alive>>
        /\ \/ /\ data' = Copy(map_buffer, 0, Sent(c))
              /\ mapped' = [mapped EXCEPT ![c] = mapped[c] \ {b}]
              /\ Arrives(c, 0, Sent(c))
              /\ mixed' = Overwritten(c)
              /\ UNCHANGED crossed
           \/ /\ crossed' = TRUE
              /\ UNCHANGED <<data, mapped, want, mixed>>
    BY <1>3 DEF Unmap
  <2>4. /\ data' \in [Apps -> [Buffers -> Contents]] /\ want' \in [Apps -> [Buffers -> Contents]]
        /\ mapped' \in [Apps -> SUBSET Buffers] /\ mixed' \subseteq Apps /\ crossed' \in BOOLEAN
    <3>1. CASE crossed' = TRUE /\ UNCHANGED <<data, mapped, want, mixed>>
      BY <3>1 DEF MapTyped
    <3>2. CASE /\ data' = Copy(map_buffer, 0, Sent(c))
               /\ mapped' = [mapped EXCEPT ![c] = mapped[c] \ {b}]
               /\ Arrives(c, 0, Sent(c))
               /\ mixed' = Overwritten(c)
               /\ UNCHANGED crossed
      <4>1. data' \in [Apps -> [Buffers -> Contents]]
        BY <1>3, <3>2, <2>2, CopyFacts
      <4>2. want' \in [Apps -> [Buffers -> Contents]]
        BY <3>2, <2>1, <2>2, ArrivesTyped
      <4>3. mapped' \in [Apps -> SUBSET Buffers]
        BY <3>2 DEF MapTyped
      <4> QED
        BY <4>1, <4>2, <4>3, <3>2 DEF Overwritten, MapTyped
    <3> QED
      BY <2>3, <3>1, <3>2
  <2>5. open' \in [Apps -> SUBSET Buffers]
    BY <2>3 DEF MapTyped
  <2> QED
    BY <2>3, <2>4, <2>5 DEF MapTyped, targetVars
<1> QED
  BY <1>1, <1>2, <1>3

(* One step of program c, as MapNext has it                                *)
StepOf(c) ==
  \/ \E b \in Buffers, r \in Ranges : \/ MapRange(c, b, r[1], r[2])
                                      \/ MapDropped(c, b, r[1], r[2])
  \/ \E b \in Buffers : \/ MapWhole(c, b) \/ MapNamed(c, b)
                         \/ Unmap(c, b) \/ UnmapRefused(c, b)
  \/ \E r \in Ranges : Flush(c, r[1], r[2])
  \/ ReadImage(c) \/ Compile(c) \/ Download(c) \/ Downloaded(c)
  \/ Write(c) \/ SendFlush(c)

LEMMA TypedStep == ASSUME MapTyped, RoundInv, NEW c \in Apps, StepOf(c) PROVE MapTyped'
<1>1. ASSUME NEW b \in Buffers, UnmapRefused(c, b) PROVE MapTyped'
  BY <1>1 DEF UnmapRefused, MapTyped, glVars, targetVars, historyVars
<1>2. ASSUME NEW r \in Ranges, Flush(c, r[1], r[2]) PROVE MapTyped'
  <2> DEFINE bytes == [i \in 1 .. r[2] |-> mem[c][r[1] + i]]
  <2>1. r[1] \in Nat /\ r[2] \in Nat /\ r[1] + r[2] <= Size
    BY RangesFacts
  <2>2. mem[c] \in [1 .. Size -> Units]
    BY DEF MapTyped, Contents
  <2>3. \A i \in 1 .. r[2] : r[1] + i \in 1 .. Size
    BY <2>1, SizesAssumption
  <2>4. bytes \in [1 .. r[2] -> Units]
    BY <2>2, <2>3
  <2>5. bytes \in Seq(Units)
    <3>1. \A f \in [1 .. r[2] -> Units] : f \in Seq(Units)
      BY <2>1
    <3> HIDE DEF bytes
    <3> QED
      BY <2>4, <3>1
  <2>6. flushed' = [flushed EXCEPT ![c] = [off |-> r[1], bytes |-> bytes]]
    BY <1>2 DEF Flush
  <2> HIDE DEF bytes
  <2>7. flushed' \in [Apps -> [off : Nat, bytes : Seq(Units)]]
    BY <2>1, <2>5, <2>6 DEF MapTyped
  <2> QED
    BY <1>2, <2>7 DEF Flush, MapTyped, glVars, targetVars, historyVars
<1>3. ASSUME ReadImage(c) PROVE MapTyped'
  <2>1. /\ phase' \in [Apps -> {"idle", "map", "image"}] /\ got' \in [Apps -> 0 .. Size]
        /\ pixels' \in [Apps -> Seq(Units)] /\ calls' \in 0 .. MaxCalls
    BY <1>3, SizesAssumption DEF ReadImage, Call, MapTyped
  <2>2. /\ scratch' \in Apps \cup {Junk} /\ mixed' \subseteq Apps
        /\ download_target' \in Mappings \cup {Nowhere, Scratch} /\ download_offset' \in Nat
    BY <1>3 DEF ReadImage, Moved, targetVars, MapTyped
  <2> QED
    BY <1>3, <2>1, <2>2 DEF ReadImage, MapTyped, glVars
<1>4. ASSUME Compile(c) PROVE MapTyped'
  BY <1>4, SizesAssumption DEF Compile, Call, Reused, clientVars, glVars, targetVars, MapTyped
<1>5. ASSUME Downloaded(c) PROVE MapTyped'
  <2>1. /\ phase' \in [Apps -> {"idle", "map", "image"}] /\ got' \in [Apps -> 0 .. Size]
        /\ pixels' \in [Apps -> Seq(Units)]
    BY <1>5, SizesAssumption DEF Downloaded, MapTyped
  <2> QED
    BY <1>5, <2>1 DEF Downloaded, glVars, targetVars, historyVars, MapTyped
<1>6. ASSUME Write(c) PROVE MapTyped'
  <2> DEFINE U(i) == IF i <= held[c].length
                     THEN Unit("buffer", c, held[c].target, held[c].offset + i, 1) ELSE mem[c][i]
  <2>1. held[c].target \in Buffers
    BY <1>6 DEF Write, RoundInv, RoundOf
  <2>2. /\ held[c].offset \in Nat /\ held[c].length \in Nat
        /\ held[c].offset + held[c].length <= Size
    BY DEF MapTyped, Holds
  <2>3. \A i \in 1 .. Size : U(i) \in Units
    <3>1. \A i \in 1 .. Size : i <= held[c].length => held[c].offset + i \in 1 .. Size
      BY <2>2, SizesAssumption
    <3>2. \A i \in 1 .. Size : mem[c][i] \in Units
      <4>1. mem[c] \in [1 .. Size -> Units]
        BY DEF MapTyped, Contents
      <4> QED
        BY <4>1
    <3>3. \A i \in 1 .. Size : i <= held[c].length =>
            Unit("buffer", c, held[c].target, held[c].offset + i, 1) \in Units
      BY <2>1, <3>1, UnitsFacts
    <3> QED
      BY <3>2, <3>3
  <2>4. mem' = [mem EXCEPT ![c] = [i \in 1 .. Size |-> U(i)]]
    BY <1>6 DEF Write
  <2> HIDE DEF U
  <2>5. [i \in 1 .. Size |-> U(i)] \in Contents
    BY <2>3 DEF Contents
  <2>6. mem' \in [Apps -> Contents]
    BY <2>4, <2>5 DEF MapTyped
  <2> QED
    BY <1>6, <2>6 DEF Write, MapTyped, glVars, targetVars, historyVars
<1>7. ASSUME Download(c), download_target = Nowhere PROVE MapTyped'
  BY <1>7 DEF Download, ServerEnds, clientVars, glVars, targetVars, MapTyped
<1> QED
  BY <1>1, <1>2, <1>3, <1>4, <1>5, <1>6, <1>7, MapsTyped, DownloadTyped, CopiesTyped DEF StepOf

(* A hand-over that leaves a program's own state alone                     *)
Untouched(c) ==
  /\ phase'[c] = phase[c] /\ held'[c] = held[c] /\ got'[c] = got[c]
  /\ pixels'[c] = pixels[c] /\ flushed'[c] = flushed[c] /\ open'[c] = open[c]
  /\ mem'[c] = mem[c]

(* The programs share nothing but the server                               *)
LEMMA OthersUntouched ==
  ASSUME MapTyped, RoundInv, NEW c \in Apps, StepOf(c), NEW d \in Apps \ {c}
  PROVE  Untouched(d)
<1>1. CASE \E b \in Buffers : \/ \E r \in Ranges : \/ MapRange(c, b, r[1], r[2])
                                                   \/ MapDropped(c, b, r[1], r[2])
                              \/ MapWhole(c, b) \/ MapNamed(c, b)
  <2>1. PICK b, offset, length : Hold(c, b, offset, length)
    BY <1>1 DEF MapRange, MapDropped, MapWhole, MapNamed
  <2> QED
    BY <2>1 DEF Hold, Untouched, MapTyped
<1>2. CASE \E b \in Buffers : Unmap(c, b) \/ UnmapRefused(c, b)
  BY <1>2 DEF Unmap, UnmapRefused, ServerEnds, Untouched, MapTyped, clientVars
<1>3. CASE \E r \in Ranges : Flush(c, r[1], r[2])
  BY <1>3 DEF Flush, Untouched, MapTyped
<1>4. CASE ReadImage(c) \/ Compile(c) \/ Downloaded(c)
  BY <1>4 DEF ReadImage, Compile, Downloaded, Untouched, MapTyped, clientVars
<1>5. CASE Write(c) \/ SendFlush(c)
  BY <1>5 DEF Write, SendFlush, ServerEnds, Untouched, MapTyped, clientVars
<1>6. CASE Download(c)
  BY <1>6 DEF Download, ServerEnds, Untouched, MapTyped, clientVars
<1> QED
  BY <1>1, <1>2, <1>3, <1>4, <1>5, <1>6 DEF StepOf

LEMMA RoundStep ==
  ASSUME MapTyped, RoundInv, MapTyped', NEW c \in Apps, StepOf(c)
  PROVE  RoundInv'
<1>1. ASSUME NEW d \in Apps \ {c} PROVE RoundOf(d)'
  <2>1. Untouched(d)
    BY OthersUntouched
  <2>2. RoundOf(d)
    BY DEF RoundInv
  <2> QED
    BY <2>1, <2>2 DEF Untouched, RoundOf, Length
<1>2. RoundOf(c)
  BY DEF RoundInv
<1>3. ASSUME NEW b \in Buffers,
             \/ \E r \in Ranges : \/ MapRange(c, b, r[1], r[2])
                                  \/ MapDropped(c, b, r[1], r[2])
             \/ MapWhole(c, b) \/ MapNamed(c, b)
      PROVE  RoundOf(c)'
  <2>1. /\ phase[c] = "idle" /\ flushed[c] = NoFlush
        /\ \E offset, length \in 0 .. Size : Hold(c, b, offset, length)
    <3>1. CASE \E r \in Ranges : \/ MapRange(c, b, r[1], r[2])
                                 \/ MapDropped(c, b, r[1], r[2])
      BY <3>1, RangesFacts DEF MapRange, MapDropped, Call, Free
    <3>2. CASE MapWhole(c, b)
      BY <3>2, SizesAssumption DEF MapWhole, Call, Free
    <3>3. CASE MapNamed(c, b)
      BY <3>3, SizesAssumption DEF MapNamed, Call, Free
    <3> QED
      BY <1>3, <3>1, <3>2, <3>3
  <2>2. PICK offset \in 0 .. Size, length \in 0 .. Size : Hold(c, b, offset, length)
    BY <2>1
  <2>3. /\ phase'[c] = "map" /\ got'[c] = 0 /\ pixels' = pixels /\ flushed' = flushed
        /\ held'[c].target = b /\ held'[c].length = length
    BY <2>2 DEF Hold, MapTyped
  <2> QED
    BY <2>1, <2>3, <1>2 DEF RoundOf, Length
<1>4. ASSUME NEW b \in Buffers, Unmap(c, b) \/ UnmapRefused(c, b) PROVE RoundOf(c)'
  <2>1. /\ phase' = phase /\ flushed' = flushed /\ got' = got /\ held' = held
        /\ pixels' = pixels /\ open'[c] \subseteq open[c] /\ flushed[c] = NoFlush
    BY <1>4 DEF Unmap, UnmapRefused, ServerEnds, clientVars, MapTyped
  <2> QED
    BY <2>1, <1>2 DEF RoundOf, Length
<1>5. ASSUME NEW r \in Ranges, Flush(c, r[1], r[2]) PROVE RoundOf(c)'
  BY <1>5, <1>2 DEF Flush, Free, RoundOf, Length
<1>6. ASSUME ReadImage(c) PROVE RoundOf(c)'
  <2>1. /\ phase'[c] = "image" /\ got'[c] = 0 /\ pixels'[c] = <<>> /\ flushed' = flushed
        /\ held' = held /\ open' = open /\ flushed[c] = NoFlush
    BY <1>6 DEF ReadImage, MapTyped
  <2>2. Len(pixels'[c]) = 0 /\ Length(c)' = Size /\ Size >= 0
    BY <2>1, SizesAssumption DEF Length
  <2>3. (flushed[c] # NoFlush => held[c].target \in open[c])' /\ (open[c] # {} => held[c].target \in Buffers)'
    BY <2>1, <1>2 DEF RoundOf
  <2> QED
    BY <2>1, <2>2, <2>3 DEF RoundOf
<1>7. ASSUME Compile(c) \/ Write(c) PROVE RoundOf(c)'
  <2>1. UNCHANGED <<phase, held, got, pixels, flushed, open>>
    BY <1>7 DEF Compile, Write, clientVars
  <2> QED
    BY <2>1, <1>2 DEF RoundOf, Length
<1>8. ASSUME Downloaded(c) PROVE RoundOf(c)'
  <2>1. /\ phase'[c] = "idle" /\ pixels'[c] = <<>> /\ UNCHANGED <<flushed, held, open>>
    BY <1>8 DEF Downloaded, MapTyped
  <2>2. Len(pixels'[c]) = 0
    BY <2>1
  <2> QED
    BY <2>1, <2>2, <1>2 DEF RoundOf
<1>9. ASSUME SendFlush(c) PROVE RoundOf(c)'
  <2>1. /\ UNCHANGED <<phase, got, pixels, held, open>>
        /\ flushed'[c] = flushed[c] \/ flushed'[c] = NoFlush
    BY <1>9 DEF SendFlush, ServerEnds, clientVars, MapTyped
  <2>2. Length(c)' = Length(c)
    BY <2>1 DEF Length
  <2> QED
    BY <2>1, <2>2, <1>2 DEF RoundOf
<1>10. ASSUME Download(c) PROVE RoundOf(c)'
  <2>1. CASE download_target = Nowhere
    <3>1. UNCHANGED <<phase, held, got, pixels, flushed, open>>
      BY <1>10, <2>1 DEF Download, ServerEnds, clientVars
    <3> QED
      BY <3>1, <1>2 DEF RoundOf, Length
  <2>2. CASE download_target # Nowhere
    <3>1. PICK count \in Nat :
            /\ got[c] + count <= Length(c)
            /\ Read(download_target, download_offset, count) \in Seq(Units)
            /\ Len(Read(download_target, download_offset, count)) = count
            /\ got' = [got EXCEPT ![c] = got[c] + count]
            /\ phase[c] = "map" => pixels' = pixels
            /\ phase[c] # "map" =>
                 pixels' = [pixels EXCEPT ![c] =
                              pixels[c] \o Read(download_target, download_offset, count)]
            /\ UNCHANGED <<phase, held, open, flushed>>
      BY <1>10, <2>2, DownloadFacts
    <3> DEFINE bytes == Read(download_target, download_offset, count)
    <3> HIDE DEF bytes
    <3>2. got'[c] = got[c] + count /\ got[c] + count <= Length(c)
      BY <3>1 DEF MapTyped
    <3>3. phase[c] \in {"map", "image"}
      BY <1>10 DEF Download, MapTyped
    <3>4. phase[c] = "image" => Len(pixels'[c]) = got'[c]
      <4>1. pixels[c] \in Seq(Units) /\ bytes \in Seq(Units) /\ Len(bytes) = count
        BY <3>1 DEF MapTyped, bytes
      <4>2. Len(pixels[c] \o bytes) = Len(pixels[c]) + count
        BY <4>1
      <4>3. phase[c] = "image" => pixels'[c] = pixels[c] \o bytes /\ Len(pixels[c]) = got[c]
        BY <3>1, <1>2 DEF MapTyped, bytes, RoundOf
      <4> QED
        BY <4>2, <4>3, <3>2
    <3>5. phase[c] = "map" => Len(pixels'[c]) = 0
      BY <3>1, <1>2 DEF RoundOf
    <3>6. Length(c)' = Length(c)
      BY <3>1 DEF Length
    <3> QED
      <4>1. /\ phase[c] # "idle" => flushed[c] = NoFlush
            /\ flushed[c] # NoFlush => held[c].target \in open[c]
            /\ open[c] # {} => held[c].target \in Buffers
        BY <1>2 DEF RoundOf
      <4>2. phase'[c] = phase[c] /\ UNCHANGED <<held, open, flushed>>
        BY <3>1
      <4>3. got'[c] <= Length(c)'
        BY <3>2, <3>6
      <4>4. /\ phase'[c] = "image" => Len(pixels'[c]) = got'[c]
            /\ phase'[c] # "image" => Len(pixels'[c]) = 0
        BY <3>3, <3>4, <3>5, <4>2
      <4> QED
        BY <4>1, <4>2, <4>3, <4>4 DEF RoundOf
  <2> QED
    BY <2>1, <2>2
<1>11. RoundOf(c)'
  <2>1. CASE \E b \in Buffers : \/ \E r \in Ranges : \/ MapRange(c, b, r[1], r[2])
                                                     \/ MapDropped(c, b, r[1], r[2])
                                \/ MapWhole(c, b) \/ MapNamed(c, b)
    BY <2>1, <1>3
  <2>2. CASE \E b \in Buffers : Unmap(c, b) \/ UnmapRefused(c, b)
    BY <2>2, <1>4
  <2> QED
    BY <2>1, <2>2, <1>5, <1>6, <1>7, <1>8, <1>9, <1>10 DEF StepOf
<1> QED
  BY <1>1, <1>11 DEF RoundInv

(* The only mapping is the one the server knows                            *)
LEMMA WriteFacts ==
  ASSUME WriteInv, ~crossed, NEW c \in Apps, NEW b \in open[c]
  PROVE  /\ map_buffer = [app |-> c, buf |-> b, off |-> held[c].offset]
         /\ held[c].target = b /\ data = want /\ mapped = open
         /\ \A d \in Apps : \A e \in open[d] : d = c /\ e = b
  BY DEF WriteInv

(* What the program has in mind and what the server copies are the same    *)
LEMMA CopyArrives ==
  ASSUME MapTyped, WriteInv, ~crossed, NEW c \in Apps, NEW b \in open[c],
         NEW offset, NEW bytes, Arrives(c, offset, bytes), data' = Copy(map_buffer, offset, bytes)
  PROVE  data' = want'
<1>1. /\ map_buffer = [app |-> c, buf |-> b, off |-> held[c].offset]
      /\ held[c].target = b /\ data = want /\ mapped = open
  BY WriteFacts
<1>2. map_buffer.buf \in mapped[map_buffer.app]
  BY <1>1
<1>3. data' = [data EXCEPT ![map_buffer.app][map_buffer.buf] =
                 Over(@, map_buffer.off + offset, bytes)]
  BY <1>2 DEF Copy
<1>4. map_buffer.app = c /\ map_buffer.buf = held[c].target /\ map_buffer.off = held[c].offset
  BY <1>1
<1>5. data' = [data EXCEPT ![c][held[c].target] = Over(@, held[c].offset + offset, bytes)]
  BY <1>3, <1>4
<1> QED
  BY <1>1, <1>5 DEF Arrives

LEMMA WriteStep ==
  ASSUME MapTyped, RoundInv, WriteInv, NEW c \in Apps, StepOf(c), ~crossed'
  PROVE  WriteInv'
<1>1. ASSUME NEW b \in Buffers, NEW offset, NEW length, Hold(c, b, offset, length),
             ServeMap(c, b, offset), ~crossed, ~Beside
      PROVE  WriteInv'
  <2>1. \A d \in Apps : open[d] = {}
    BY <1>1 DEF Beside
  <2>2. mapped = open /\ data = want
    BY <1>1 DEF WriteInv
  <2>3. map_buffer' = [app |-> c, buf |-> b, off |-> offset]
    BY <1>1, <2>1, <2>2 DEF ServeMap
  <2>4. mapped' = open' /\ data' = want'
    BY <1>1, <2>2 DEF ServeMap, Hold
  <2>5. \A d \in Apps : open'[d] = IF d = c THEN {b} ELSE {}
    BY <1>1, <2>1 DEF Hold, MapTyped
  <2>6. held'[c].offset = offset /\ held'[c].target = b
    BY <1>1 DEF Hold, MapTyped
  <2>7. \A d, e \in Apps : \A x \in open'[d], y \in open'[e] : d = e /\ x = y
    BY <2>5
  <2>8. \A d \in Apps : \A x \in open'[d] :
          /\ map_buffer' = [app |-> d, buf |-> x, off |-> held'[d].offset]
          /\ held'[d].target = x
    BY <2>3, <2>5, <2>6
  <2> QED
    BY <2>4, <2>7, <2>8 DEF WriteInv
<1>2. ASSUME NEW b \in Buffers, NEW r \in Ranges, MapRange(c, b, r[1], r[2]) PROVE WriteInv'
  <2>1. Hold(c, b, r[1], r[2]) /\ ServeMap(c, b, r[1]) /\ ~crossed /\ ~Beside
    BY <1>2 DEF MapRange
  <2> QED
    BY <2>1, <1>1
<1>3. ASSUME NEW b \in Buffers,
             MapNamed(c, b) \/ \E r \in Ranges : MapDropped(c, b, r[1], r[2])
      PROVE  FALSE
  BY <1>3 DEF MapDropped, MapNamed
<1>4. ASSUME NEW b \in Buffers, MapWhole(c, b) PROVE WriteInv'
  <2>1. \E length : Hold(c, b, 0, length)
    BY <1>4 DEF MapWhole
  <2>2. ServeMap(c, b, 0) /\ ~crossed /\ ~Beside
    BY <1>4 DEF MapWhole
  <2> QED
    BY <2>1, <2>2, <1>1
<1>5. ASSUME UNCHANGED <<data, want, mapped, open, held, map_buffer, crossed>> PROVE WriteInv'
  BY <1>5 DEF WriteInv
<1>6. ASSUME NEW b \in Buffers, Unmap(c, b) PROVE WriteInv'
  <2>1. CASE map_buffer = Nowhere
    BY <1>5, <1>6, <2>1 DEF Unmap, ServerEnds, clientVars, glVars
  <2>2. CASE map_buffer # Nowhere
    <3>1. /\ ~crossed /\ data' = Copy(map_buffer, 0, Sent(c)) /\ Arrives(c, 0, Sent(c))
          /\ mapped' = [mapped EXCEPT ![c] = mapped[c] \ {b}]
          /\ open' = [open EXCEPT ![c] = open[c] \ {b}]
          /\ UNCHANGED <<held, map_buffer>> /\ b \in open[c]
      BY <1>6, <2>2 DEF Unmap
    <3>2. data' = want'
      BY <3>1, CopyArrives
    <3>3. mapped = open
      BY <3>1, WriteFacts
    <3>4. \A d \in Apps : open'[d] = {}
      BY <3>1, WriteFacts DEF MapTyped
    <3>5. mapped' = open'
      BY <3>1, <3>3
    <3> QED
      BY <3>2, <3>4, <3>5 DEF WriteInv
  <2> QED
    BY <2>1, <2>2
<1>7. ASSUME NEW b \in Buffers, UnmapRefused(c, b) PROVE WriteInv'
  <2>1. ~crossed /\ b \in open[c] /\ held[c].target # b
    BY <1>7 DEF UnmapRefused, historyVars
  <2> QED
    BY <2>1, WriteFacts
<1>8. ASSUME SendFlush(c) PROVE WriteInv'
  <2>1. CASE map_buffer = Nowhere
    BY <1>5, <1>8, <2>1 DEF SendFlush, ServerEnds, clientVars, glVars
  <2>2. CASE map_buffer # Nowhere
    <3>1. /\ UNCHANGED <<held, open, mapped, map_buffer, crossed>>
          /\ held[c].target \in open[c]
          /\ \/ /\ data' = Copy(map_buffer, flushed[c].off, flushed[c].bytes)
                /\ Arrives(c, flushed[c].off, flushed[c].bytes)
             \/ UNCHANGED <<data, want>>
      BY <1>8, <2>2 DEF SendFlush, RoundInv, RoundOf
    <3>2. data' = want'
      <4>1. CASE UNCHANGED <<data, want>>
        BY <3>1, <4>1 DEF WriteInv
      <4>2. CASE /\ data' = Copy(map_buffer, flushed[c].off, flushed[c].bytes)
                 /\ Arrives(c, flushed[c].off, flushed[c].bytes)
        BY <3>1, <4>2, CopyArrives
      <4> QED
        BY <3>1, <4>1, <4>2
    <3> QED
      BY <3>1, <3>2 DEF WriteInv
  <2> QED
    BY <2>1, <2>2
<1>9. ASSUME \/ \E r \in Ranges : Flush(c, r[1], r[2])
             \/ ReadImage(c) \/ Compile(c) \/ Downloaded(c) \/ Write(c)
      PROVE  WriteInv'
  <2>1. UNCHANGED <<data, want, mapped, open, held, map_buffer, crossed>>
    BY <1>9 DEF Flush, ReadImage, Compile, Downloaded, Write, clientVars, glVars, historyVars
  <2> QED
    BY <2>1, <1>5
<1>10. ASSUME Download(c) PROVE WriteInv'
  <2>1. UNCHANGED <<data, want, mapped, open, held, map_buffer, crossed>>
    BY <1>10 DEF Download, ServerEnds, clientVars, glVars
  <2> QED
    BY <2>1, <1>5
<1>11. CASE \E b \in Buffers, r \in Ranges : \/ MapRange(c, b, r[1], r[2])
                                            \/ MapDropped(c, b, r[1], r[2])
  BY <1>11, <1>2, <1>3
<1>12. CASE \E b \in Buffers : \/ MapWhole(c, b) \/ MapNamed(c, b)
                              \/ Unmap(c, b) \/ UnmapRefused(c, b)
  BY <1>12, <1>3, <1>4, <1>6, <1>7
<1> QED
  BY <1>8, <1>9, <1>10, <1>11, <1>12 DEF StepOf

(* What one program's step leaves another one that stays undisturbed       *)
LEMMA OthersKept ==
  ASSUME MapTyped, RoundInv, NEW c \in Apps, StepOf(c), NEW d \in Apps \ {c}, d \notin mixed'
  PROVE  /\ d \notin mixed
         /\ phase[d] # "idle" => UNCHANGED <<download_target, download_offset>>
         /\ phase[d] = "map" =>
              /\ map_buffer' = map_buffer
              /\ mapped'[d] = mapped[d] /\ data'[d] = data[d]
         /\ phase[d] = "image" => scratch' = scratch
<1> DEFINE Kept ==
             /\ d \notin mixed
             /\ phase[d] # "idle" => UNCHANGED <<download_target, download_offset>>
             /\ phase[d] = "map" =>
                  /\ map_buffer' = map_buffer
                  /\ mapped'[d] = mapped[d] /\ data'[d] = data[d]
             /\ phase[d] = "image" => scratch' = scratch
<1>1. ASSUME mixed' = Moved(c) \ {c} \/ mixed' = Moved(c) PROVE phase[d] = "idle" /\ d \notin mixed
  BY <1>1 DEF Moved
<1>2. ASSUME NEW b \in Buffers, NEW r \in Ranges, MapRange(c, b, r[1], r[2]) PROVE Kept
  BY <1>1, <1>2 DEF MapRange
<1>3. ASSUME NEW b \in Buffers, NEW r \in Ranges, MapDropped(c, b, r[1], r[2]) PROVE Kept
  BY <1>3 DEF MapDropped, glVars, targetVars
<1>4. ASSUME NEW b \in Buffers, MapWhole(c, b) \/ MapNamed(c, b) PROVE Kept
  BY <1>1, <1>4 DEF MapWhole, MapNamed
<1>5. ASSUME map_buffer # Nowhere, mixed' = Overwritten(c), NEW offset \in Nat,
             NEW bytes \in Seq(Units), data' = Copy(map_buffer, offset, bytes)
      PROVE  d \notin mixed /\ (phase[d] = "map" => data'[d] = data[d])
  <2>1. d \notin mixed /\ (phase[d] = "map" => d # map_buffer.app)
    BY <1>5 DEF Overwritten
  <2>2. \A e \in Apps \ {map_buffer.app} : Copy(map_buffer, offset, bytes)[e] = data[e]
    BY <1>5, CopyFacts
  <2> QED
    BY <1>5, <2>1, <2>2
<1>6. ASSUME NEW b \in Buffers, Unmap(c, b) PROVE Kept
  <2>1. CASE map_buffer = Nowhere
    BY <1>6, <2>1 DEF Unmap, ServerEnds, glVars, targetVars
  <2>2. CASE map_buffer # Nowhere
    <3>1. /\ UNCHANGED <<map_buffer, download_target, download_offset, scratch>>
          /\ \/ /\ data' = Copy(map_buffer, 0, Sent(c)) /\ mixed' = Overwritten(c)
                /\ mapped' = [mapped EXCEPT ![c] = mapped[c] \ {b}]
             \/ UNCHANGED <<data, mapped, mixed>>
      BY <1>6, <2>2 DEF Unmap, targetVars
    <3>2. Sent(c) \in Seq(Units) /\ 0 \in Nat
      BY SentTyped
    <3>3. CASE /\ data' = Copy(map_buffer, 0, Sent(c)) /\ mixed' = Overwritten(c)
               /\ mapped' = [mapped EXCEPT ![c] = mapped[c] \ {b}]
      <4>1. d \notin mixed /\ (phase[d] = "map" => data'[d] = data[d])
        BY <2>2, <3>2, <3>3, <1>5
      <4>2. mapped'[d] = mapped[d]
        BY <3>3 DEF MapTyped
      <4> QED
        BY <3>1, <4>1, <4>2
    <3>4. CASE UNCHANGED <<data, mapped, mixed>>
      BY <3>1, <3>4
    <3> QED
      BY <3>1, <3>3, <3>4
  <2> QED
    BY <2>1, <2>2
<1>7. ASSUME SendFlush(c) PROVE Kept
  <2>1. CASE map_buffer = Nowhere
    BY <1>7, <2>1 DEF SendFlush, ServerEnds, glVars, targetVars
  <2>2. CASE map_buffer # Nowhere
    <3>1. /\ UNCHANGED <<map_buffer, download_target, download_offset, scratch, mapped>>
          /\ \/ /\ data' = Copy(map_buffer, flushed[c].off, flushed[c].bytes)
                /\ mixed' = Overwritten(c)
             \/ UNCHANGED <<data, mixed>>
      BY <1>7, <2>2 DEF SendFlush, targetVars
    <3>2. flushed[c].off \in Nat /\ flushed[c].bytes \in Seq(Units)
      BY DEF MapTyped
    <3>3. CASE /\ data' = Copy(map_buffer, flushed[c].off, flushed[c].bytes)
               /\ mixed' = Overwritten(c)
      <4>1. d \notin mixed /\ (phase[d] = "map" => data'[d] = data[d])
        BY <2>2, <3>2, <3>3, <1>5
      <4> QED
        BY <3>1, <4>1
    <3>4. CASE UNCHANGED <<data, mixed>>
      BY <3>1, <3>4
    <3> QED
      BY <3>1, <3>3, <3>4
  <2> QED
    BY <2>1, <2>2
<1>8. ASSUME \/ \E b \in Buffers : UnmapRefused(c, b)
             \/ \E r \in Ranges : Flush(c, r[1], r[2])
             \/ Downloaded(c) \/ Write(c)
      PROVE  Kept
  BY <1>8 DEF UnmapRefused, Flush, Downloaded, Write, glVars, targetVars, historyVars
<1>9. ASSUME ReadImage(c) PROVE Kept
  <2>1. CASE mixed' = Moved(c) \ {c}
    BY <1>1, <1>9, <2>1 DEF ReadImage, glVars
  <2>2. CASE mixed' = mixed \cup {c} /\ UNCHANGED <<scratch, targetVars>>
    BY <1>9, <2>2 DEF ReadImage, glVars, targetVars
  <2> QED
    BY <1>9, <2>1, <2>2 DEF ReadImage
<1>10. ASSUME Compile(c) PROVE Kept
  BY <1>10 DEF Compile, Reused, glVars, targetVars
<1>11. ASSUME Download(c) PROVE Kept
  <2>1. CASE download_target = Nowhere
    BY <1>11, <2>1 DEF Download, ServerEnds, glVars, targetVars
  <2>2. CASE download_target # Nowhere
    BY <1>1, <1>11, <2>2 DEF Download, glVars
  <2> QED
    BY <2>1, <2>2
<1>12. ASSUME \E b \in Buffers, r \in Ranges : \/ MapRange(c, b, r[1], r[2])
                                               \/ MapDropped(c, b, r[1], r[2])
       PROVE  Kept
  BY <1>12, <1>2, <1>3
<1>13. ASSUME \E b \in Buffers : MapWhole(c, b) \/ MapNamed(c, b) \/ Unmap(c, b) PROVE Kept
  BY <1>13, <1>4, <1>6
<1>14. Kept
  <2> HIDE DEF Kept
  <2> QED
    BY <1>7, <1>8, <1>9, <1>10, <1>11, <1>12, <1>13 DEF StepOf
<1> QED
  BY <1>14

LEMMA OthersStep ==
  ASSUME MapTyped, RoundInv, SourceInv, DownloadsReadSource, NEW c \in Apps, StepOf(c),
         NEW d \in Apps \ {c}, d \notin mixed'
  PROVE  SourceOf(d)' /\ ReadsOf(d)'
<1>1. Untouched(d)
  BY OthersUntouched
<1>2. /\ d \notin mixed
      /\ phase[d] # "idle" => UNCHANGED <<download_target, download_offset>>
      /\ phase[d] = "map" => /\ map_buffer' = map_buffer
                             /\ mapped'[d] = mapped[d] /\ data'[d] = data[d]
      /\ phase[d] = "image" => scratch' = scratch
  BY OthersKept
<1>3. SourceOf(d) /\ ReadsOf(d)
  BY <1>2 DEF SourceInv, DownloadsReadSource, ReadsOf
<1>4. SourceOf(d)'
  BY <1>1, <1>2, <1>3 DEF Untouched, SourceOf
<1>5. ReadsOf(d)'
  BY <1>1, <1>2, <1>3 DEF Untouched, ReadsOf
<1> QED
  BY <1>4, <1>5

(* A mapping that was asked for is at the start of its download            *)
LEMMA AskedStep ==
  ASSUME MapTyped, NEW c \in Apps, NEW b \in Buffers, NEW offset, NEW length,
         Hold(c, b, offset, length), ServeMap(c, b, offset)
  PROVE  SourceOf(c)' /\ ReadsOf(c)'
<1>1. /\ phase'[c] = "map" /\ got'[c] = 0 /\ b \in open'[c]
      /\ held'[c] = [target |-> b, offset |-> offset, length |-> length]
  BY DEF Hold, MapTyped
<1>2. /\ map_buffer' = download_target' /\ download_offset' = 0 /\ b \in mapped'[c]
      /\ download_target' # Nowhere => download_target' = [app |-> c, buf |-> b, off |-> offset]
  BY DEF ServeMap, MapTyped
<1>3. SourceOf(c)'
  BY <1>1, <1>2 DEF SourceOf
<1>4. ReadsOf(c)'
  BY <1>1 DEF ReadsOf
<1> QED
  BY <1>3, <1>4

(* A block of a mapped range                                               *)
LEMMA MapBlock ==
  ASSUME MapTyped, RoundInv, NEW c \in Apps, SourceOf(c), ReadsOf(c), Download(c),
         download_target # Nowhere, phase[c] = "map"
  PROVE  SourceOf(c)' /\ ReadsOf(c)'
<1> DEFINE bytes(count) == Read(download_target, download_offset, count)
<1>1. PICK count \in Nat :
        /\ got[c] + count <= Length(c)
        /\ DOMAIN bytes(count) = 1 .. count
        /\ download_offset' = download_offset + count
        /\ got' = [got EXCEPT ![c] = got[c] + count]
        /\ mem' = [mem EXCEPT ![c] = Over(mem[c], got[c], bytes(count))]
        /\ UNCHANGED <<phase, held, open, glVars, map_buffer, download_target>>
  BY DownloadFacts
<1> DEFINE at == held[c].target
           off == held[c].offset
<1>2. /\ map_buffer = download_target /\ download_offset = got[c]
      /\ at \in open[c] /\ at \in mapped[c]
      /\ download_target = [app |-> c, buf |-> at, off |-> off]
  BY DEF SourceOf
<1>3. download_target # Scratch
  BY <1>2, AddressAssumption DEF MapTyped, Mappings
<1>4. got[c] \in Nat /\ off \in Nat /\ off + got[c] + count <= Size /\ got[c] + count <= Size
  <2>1. held[c] \in Holds /\ held[c].offset + held[c].length <= Size /\ got[c] \in 0 .. Size
    BY DEF MapTyped
  <2>2. held[c].offset \in Nat /\ held[c].length \in Nat
    BY <2>1 DEF Holds
  <2>3. got[c] + count <= held[c].length
    BY <1>1 DEF Length
  <2> HIDE DEF bytes
  <2> QED
    BY <2>1, <2>2, <2>3, SizesAssumption
<1>5. \A i \in 1 .. count : bytes(count)[i] = data[c][at][off + (got[c] + i)]
  <2>1. \A i \in 1 .. count : off + got[c] + i <= Size /\ off + got[c] + i = off + (got[c] + i)
    BY <1>4, SizesAssumption
  <2>2. \A i \in 1 .. count : bytes(count)[i] = data[c][at][off + got[c] + i]
    BY <1>2, <1>3, <2>1 DEF Read
  <2> QED
    BY <2>1, <2>2
<1>6. got'[c] = got[c] + count /\ mem'[c] = Over(mem[c], got[c], bytes(count))
  BY <1>1 DEF MapTyped
<1> HIDE DEF bytes
<1>7. \A i \in 1 .. got[c] + count : mem'[c][i] = data[c][at][off + i]
  <2> SUFFICES ASSUME NEW i \in 1 .. got[c] + count PROVE mem'[c][i] = data[c][at][off + i]
    OBVIOUS
  <2>1. i \in 1 .. Size
    BY <1>4, SizesAssumption
  <2>2. mem'[c][i] = IF i - got[c] \in 1 .. count THEN bytes(count)[i - got[c]] ELSE mem[c][i]
    BY <1>1, <1>6, <2>1 DEF Over
  <2>3. CASE i <= got[c]
    <3>1. i \in 1 .. got[c] /\ i - got[c] \notin 1 .. count
      BY <1>4, <2>3
    <3>2. mem[c][i] = data[c][at][off + i]
      BY <3>1 DEF ReadsOf
    <3> QED
      BY <2>2, <3>1, <3>2
  <2>4. CASE ~(i <= got[c])
    <3>1. i - got[c] \in 1 .. count /\ got[c] + (i - got[c]) = i
      BY <1>4, <2>4
    <3>2. bytes(count)[i - got[c]] = data[c][at][off + (got[c] + (i - got[c]))]
      BY <1>5, <3>1
    <3> QED
      BY <2>2, <3>1, <3>2
  <2> QED
    BY <2>3, <2>4
<1>8. SourceOf(c)'
  BY <1>1, <1>2, <1>6 DEF SourceOf, glVars
<1>9. ReadsOf(c)'
  BY <1>1, <1>6, <1>7 DEF ReadsOf, glVars
<1> QED
  BY <1>8, <1>9

(* A block of an image                                                     *)
LEMMA ImageBlock ==
  ASSUME MapTyped, RoundInv, NEW c \in Apps, SourceOf(c), ReadsOf(c), Download(c),
         download_target # Nowhere, phase[c] = "image"
  PROVE  SourceOf(c)' /\ ReadsOf(c)'
<1> DEFINE bytes(count) == Read(download_target, download_offset, count)
           U(i) == Unit("image", c, Scratch, i, 0)
<1>1. PICK count \in Nat :
        /\ got[c] + count <= Length(c)
        /\ bytes(count) \in Seq(Units) /\ Len(bytes(count)) = count
        /\ download_offset' = download_offset + count
        /\ got' = [got EXCEPT ![c] = got[c] + count]
        /\ pixels' = [pixels EXCEPT ![c] = pixels[c] \o bytes(count)]
        /\ UNCHANGED <<phase, held, open, glVars, map_buffer, download_target, scratch>>
  BY DownloadFacts
<1>2. scratch = c /\ download_target = Scratch /\ download_offset = got[c]
  BY DEF SourceOf
<1>3. scratch # Junk
  BY <1>2, AddressAssumption
<1>4. got[c] \in Nat /\ got[c] + count <= Size
  BY <1>1 DEF MapTyped, Length
<1>5. \A i \in 1 .. count : bytes(count)[i] = U(got[c] + i)
  <2>1. \A i \in 1 .. count : got[c] + i <= Size
    BY <1>4, SizesAssumption
  <2>2. bytes(count) = Read(Scratch, got[c], count)
    BY <1>2
  <2>3. Read(Scratch, got[c], count) =
          [i \in 1 .. count |-> IF got[c] + i <= Size THEN U(got[c] + i) ELSE Junk]
    BY <1>2, <1>3 DEF Read
  <2> HIDE DEF bytes, U
  <2>4. \A i \in 1 .. count : Read(Scratch, got[c], count)[i] = U(got[c] + i)
    BY <2>1, <2>3
  <2> QED
    BY <2>2, <2>4
<1>6. got'[c] = got[c] + count /\ pixels'[c] = pixels[c] \o bytes(count)
  BY <1>1 DEF MapTyped
<1>7. pixels[c] \in Seq(Units) /\ Len(pixels[c]) = got[c] /\ \A i \in 1 .. got[c] : pixels[c][i] = U(i)
  BY DEF MapTyped, RoundInv, RoundOf, ReadsOf
<1> HIDE DEF bytes, U
<1>8. /\ pixels'[c] \in Seq(Units) /\ Len(pixels'[c]) = got[c] + count
      /\ \A i \in 1 .. got[c] + count :
           pixels'[c][i] = IF i <= got[c] THEN pixels[c][i] ELSE bytes(count)[i - got[c]]
  <2> DEFINE p == pixels[c]
             q == bytes(count)
  <2>1. p \in Seq(Units) /\ q \in Seq(Units) /\ Len(p) = got[c] /\ Len(q) = count
    BY <1>1, <1>7
  <2>2. pixels'[c] = p \o q
    BY <1>6
  <2> HIDE DEF p, q
  <2>3. /\ p \o q \in Seq(Units) /\ Len(p \o q) = got[c] + count
        /\ \A i \in 1 .. got[c] + count :
             (p \o q)[i] = IF i <= got[c] THEN p[i] ELSE q[i - got[c]]
    BY <2>1
  <2> QED
    BY <2>2, <2>3 DEF p, q
<1>9. \A i \in 1 .. got[c] + count : pixels'[c][i] = U(i)
  <2> SUFFICES ASSUME NEW i \in 1 .. got[c] + count PROVE pixels'[c][i] = U(i)
    OBVIOUS
  <2>1. CASE i <= got[c]
    <3>1. i \in 1 .. got[c]
      BY <1>4, <2>1
    <3>2. pixels[c][i] = U(i)
      BY <1>7, <3>1
    <3>3. pixels'[c][i] = pixels[c][i]
      BY <1>8, <2>1
    <3> QED
      BY <3>2, <3>3
  <2>2. CASE ~(i <= got[c])
    <3>1. i - got[c] \in 1 .. count /\ got[c] + (i - got[c]) = i
      BY <1>4, <2>2
    <3>2. bytes(count)[i - got[c]] = U(got[c] + (i - got[c]))
      BY <1>5, <3>1
    <3> QED
      BY <1>8, <2>2, <3>1, <3>2
  <2> QED
    BY <2>1, <2>2
<1>10. pixels'[c] = [i \in 1 .. got[c] + count |-> U(i)]
  <2> DEFINE p == pixels'[c]
             n == got[c] + count
  <2>1. p \in Seq(Units) /\ Len(p) = n /\ n \in Nat /\ \A i \in 1 .. n : p[i] = U(i)
    BY <1>4, <1>8, <1>9
  <2> HIDE DEF p, n
  <2>2. p \in [1 .. n -> Units]
    BY <2>1
  <2>3. p = [i \in 1 .. n |-> p[i]]
    BY <2>2
  <2>4. p = [i \in 1 .. n |-> U(i)]
    BY <2>1, <2>3
  <2> QED
    BY <2>4 DEF p, n
<1>11. SourceOf(c)'
  BY <1>1, <1>2, <1>6 DEF SourceOf
<1>12. ReadsOf(c)'
  BY <1>1, <1>6, <1>10 DEF ReadsOf, U
<1> QED
  BY <1>11, <1>12

LEMMA OwnStep ==
  ASSUME MapTyped, RoundInv, SourceInv, DownloadsReadSource, NEW c \in Apps, StepOf(c),
         c \notin mixed'
  PROVE  SourceOf(c)' /\ ReadsOf(c)'
<1>1. ASSUME NEW b \in Buffers, NEW r \in Ranges, MapRange(c, b, r[1], r[2])
      PROVE  SourceOf(c)' /\ ReadsOf(c)'
  <2>1. Hold(c, b, r[1], r[2]) /\ ServeMap(c, b, r[1])
    BY <1>1 DEF MapRange
  <2> QED
    BY <2>1, AskedStep
<1>2. ASSUME NEW b \in Buffers, MapWhole(c, b) \/ MapNamed(c, b)
      PROVE  SourceOf(c)' /\ ReadsOf(c)'
  <2>1. (\E length : Hold(c, b, 0, length)) /\ ServeMap(c, b, 0)
    BY <1>2 DEF MapWhole, MapNamed
  <2> QED
    BY <2>1, AskedStep
<1>3. ASSUME NEW b \in Buffers, NEW r \in Ranges, MapDropped(c, b, r[1], r[2]) PROVE FALSE
  BY <1>3 DEF MapDropped
<1>4. ASSUME phase'[c] = "idle" PROVE SourceOf(c)' /\ ReadsOf(c)'
  BY <1>4 DEF SourceOf, ReadsOf
<1>5. ASSUME NEW b \in Buffers, Unmap(c, b) \/ UnmapRefused(c, b) PROVE phase'[c] = "idle"
  BY <1>5 DEF Unmap, UnmapRefused, Free, ServerEnds, clientVars
<1>6. ASSUME \/ \E r \in Ranges : Flush(c, r[1], r[2])
             \/ Compile(c) \/ Write(c) \/ Downloaded(c)
      PROVE  phase'[c] = "idle"
  BY <1>6 DEF Flush, Compile, Write, Downloaded, Call, Free, clientVars, MapTyped
<1>7. ASSUME SendFlush(c) PROVE phase'[c] = "idle"
  BY <1>7 DEF SendFlush, ServerEnds, RoundInv, RoundOf, clientVars
<1>8. ASSUME ReadImage(c) PROVE SourceOf(c)' /\ ReadsOf(c)'
  <2>1. /\ phase'[c] = "image" /\ got'[c] = 0 /\ pixels'[c] = <<>>
        /\ scratch' = c /\ download_target' = Scratch /\ download_offset' = 0
    BY <1>8 DEF ReadImage, MapTyped
  <2>2. pixels'[c] = [i \in 1 .. 0 |-> Unit("image", c, Scratch, i, 0)]
    BY <2>1
  <2> QED
    BY <2>1, <2>2 DEF SourceOf, ReadsOf
<1>9. ASSUME Download(c) PROVE SourceOf(c)' /\ ReadsOf(c)'
  <2>1. c \notin mixed /\ phase[c] \in {"map", "image"}
    BY <1>9 DEF Download, ServerEnds, Moved, MapTyped
  <2>2. SourceOf(c) /\ ReadsOf(c)
    BY <2>1 DEF SourceInv, DownloadsReadSource, ReadsOf
  <2>3. CASE download_target = Nowhere
    <3>1. UNCHANGED <<clientVars, glVars, map_buffer, targetVars, scratch>>
      BY <1>9, <2>3 DEF Download, ServerEnds
    <3> QED
      BY <2>2, <3>1 DEF SourceOf, ReadsOf, clientVars, glVars, targetVars
  <2>4. CASE download_target # Nowhere
    BY <1>9, <2>1, <2>2, <2>4, MapBlock, ImageBlock
  <2> QED
    BY <2>3, <2>4
<1>10. CASE \E b \in Buffers, r \in Ranges : \/ MapRange(c, b, r[1], r[2])
                                            \/ MapDropped(c, b, r[1], r[2])
  BY <1>10, <1>1, <1>3
<1>11. CASE \E b \in Buffers : \/ MapWhole(c, b) \/ MapNamed(c, b)
                              \/ Unmap(c, b) \/ UnmapRefused(c, b)
  BY <1>11, <1>2, <1>4, <1>5
<1> QED
  BY <1>4, <1>6, <1>7, <1>8, <1>9, <1>10, <1>11 DEF StepOf

LEMMA MapStep == MapIInv /\ [MapNext]_mapVars => MapIInv'
<1>1. ASSUME MapIInv, NEW c \in Apps, StepOf(c) PROVE MapIInv'
  <2>1. MapTyped /\ RoundInv /\ WriteInv /\ SourceInv /\ DownloadsReadSource
    BY <1>1 DEF MapIInv
  <2>2. MapTyped'
    BY <1>1, <2>1, TypedStep
  <2>3. RoundInv'
    BY <1>1, <2>1, <2>2, RoundStep
  <2>4. WriteInv'
    <3>1. CASE crossed'
      BY <3>1 DEF WriteInv
    <3>2. CASE ~crossed'
      BY <1>1, <2>1, <3>2, WriteStep
    <3> QED
      BY <3>1, <3>2
  <2>5. ASSUME NEW d \in Apps, d \notin mixed' PROVE SourceOf(d)' /\ ReadsOf(d)'
    <3>1. CASE d = c
      BY <1>1, <2>1, <2>5, <3>1, OwnStep
    <3>2. CASE d # c
      BY <1>1, <2>1, <2>5, <3>2, OthersStep
    <3> QED
      BY <3>1, <3>2
  <2>6. SourceInv' /\ DownloadsReadSource'
    BY <2>5 DEF SourceInv, DownloadsReadSource, ReadsOf
  <2> QED
    BY <2>2, <2>3, <2>4, <2>6 DEF MapIInv
<1>2. ASSUME MapIInv, UNCHANGED mapVars PROVE MapIInv'
  <2>1. MapTyped' /\ RoundInv'
    BY <1>2 DEF MapIInv, MapTyped, RoundInv, RoundOf, Length, mapVars, clientVars, glVars,
       targetVars, historyVars
  <2>2. WriteInv' /\ SourceInv' /\ DownloadsReadSource'
    BY <1>2 DEF MapIInv, WriteInv, SourceInv, SourceOf, DownloadsReadSource, mapVars,
       clientVars, glVars, targetVars, historyVars
  <2> QED
    BY <2>1, <2>2 DEF MapIInv
<1>3. MapNext => \E c \in Apps : StepOf(c)
  BY DEF MapNext, StepOf
<1> QED
  BY <1>1, <1>2, <1>3

LEMMA MapInvariant == MapSpec => []MapIInv
  BY MapInitHolds, MapStep, PTL DEF MapSpec

(* What glimpl_download_buffer and glGetTexImage put together is what the  *)
(* server was asked for, block by block, though it keeps one target and    *)
(* one offset for all programs: as long as no other program moved them     *)
THEOREM DownloadsRight == MapSpec => []DownloadsReadSource
<1>1. MapIInv => DownloadsReadSource
  BY DEF MapIInv
<1> QED
  BY <1>1, MapInvariant, PTL

(* What a program wrote to a mapping and unmapped or flushed by name is in *)
(* its buffer, as long as one mapping was open at a time and the server    *)
(* saw every call (glimpl_unmap_buffer, the server's map_buffer)           *)
THEOREM WritesRight == MapSpec => []WritesReachBuffer
<1>1. MapIInv => WritesReachBuffer
  BY DEF MapIInv, WriteInv, WritesReachBuffer
<1> QED
  BY <1>1, MapInvariant, PTL

-----------------------------------------------------------------------------
(* The front ends' tables: the first of some entries                       *)

LEMMA LeastExists ==
  ASSUME NEW n \in Nat, NEW found \in SUBSET (1 .. n), found # {}
  PROVE  \E i \in found : \A j \in found : i <= j
<1>1. found \subseteq Nat
  OBVIOUS
<1>2. \E i \in found : \A j \in found : ~(<<j, i>> \in OpToRel(<, Nat))
  BY <1>1, NatLessThanWellFounded, WFMin
<1>3. OpToRel(<, Nat) = {pair \in Nat \X Nat : pair[1] < pair[2]}
  BY DEF OpToRel
<1>4. PICK i \in found : \A j \in found : ~(<<j, i>> \in OpToRel(<, Nat))
  BY <1>2
<1>5. \A j \in found : ~(j < i)
  BY <1>1, <1>3, <1>4
<1> QED
  BY <1>1, <1>5

(* The first of some entries is one of them, and there Put puts            *)
LEMMA OneFirst ==
  ASSUME NEW n \in Nat, NEW found, found \in SUBSET (1 .. n), found # {}
  PROVE  \E k \in found : First(found) = {k}
<1>1. PICK k \in found : \A j \in found : k <= j
  BY LeastExists
<1>2. \A i \in found : (\A j \in found : i <= j) => i = k
  BY <1>1
<1>3. \A i : i \in First(found) <=> i = k
  BY <1>1, <1>2 DEF First
<1> QED
  BY <1>1, <1>3

LEMMA NoFirst == First({}) = {}
  BY DEF First

(* The entries of a table that holds each thing once                       *)
Held(tab) == {tab[i] : i \in DOMAIN tab} \ {None}
HeldOnce(tab) == \A i, j \in DOMAIN tab : tab[i] = tab[j] => i = j \/ tab[i] = None

LEMMA EntryAdded ==
  ASSUME NEW n \in Nat, NEW S, NEW tab \in [1 .. n -> S], HeldOnce(tab),
         NEW e, e # None, Entries(tab, e) = {}, Entries(tab, None) # {}
  PROVE  LET new == Put(tab, Entries(tab, None), e)
         IN HeldOnce(new) /\ Held(new) = Held(tab) \cup {e} /\ new \in [1 .. n -> S \cup {e}]
<1> DEFINE new == Put(tab, Entries(tab, None), e)
<1>1. Entries(tab, None) \in SUBSET (1 .. n)
  BY DEF Entries
<1>2. PICK k \in Entries(tab, None) : First(Entries(tab, None)) = {k}
  BY <1>1, OneFirst
<1>3. k \in 1 .. n /\ tab[k] = None
  BY DEF Entries
<1>4. \A i \in 1 .. n : tab[i] # e
  BY DEF Entries
<1>5. new \in [1 .. n -> S \cup {e}] /\ DOMAIN new = 1 .. n
  BY <1>2, <1>3 DEF Put
<1>6. \A i \in 1 .. n : new[i] = IF i = k THEN e ELSE tab[i]
  BY <1>2, <1>3 DEF Put
<1> HIDE DEF new
<1>7. HeldOnce(new)
  BY <1>3, <1>4, <1>5, <1>6 DEF HeldOnce
<1>8. Held(new) = Held(tab) \cup {e}
  <2>1. \A x : x \in Held(new) => x \in Held(tab) \cup {e}
    BY <1>3, <1>5, <1>6 DEF Held
  <2>2. \A x : x \in Held(tab) => x \in Held(new)
    BY <1>3, <1>5, <1>6 DEF Held
  <2>3. e \in Held(new)
    BY <1>3, <1>5, <1>6 DEF Held
  <2> QED
    BY <2>1, <2>2, <2>3
<1> QED
  BY <1>5, <1>7, <1>8 DEF new

LEMMA EntryRemoved ==
  ASSUME NEW n \in Nat, NEW S, NEW tab \in [1 .. n -> S], HeldOnce(tab), None \in S,
         NEW e, e # None, Entries(tab, e) # {}
  PROVE  LET new == Put(tab, Entries(tab, e), None)
         IN HeldOnce(new) /\ Held(new) = Held(tab) \ {e} /\ new \in [1 .. n -> S]
<1> DEFINE new == Put(tab, Entries(tab, e), None)
<1>1. Entries(tab, e) \in SUBSET (1 .. n)
  BY DEF Entries
<1>2. PICK k \in Entries(tab, e) : First(Entries(tab, e)) = {k}
  BY <1>1, OneFirst
<1>3. k \in 1 .. n /\ tab[k] = e
  BY DEF Entries
<1>4. \A i \in 1 .. n : tab[i] = e => i = k
  BY <1>3 DEF HeldOnce
<1>5. new \in [1 .. n -> S] /\ DOMAIN new = 1 .. n
  BY <1>2, <1>3 DEF Put
<1>6. \A i \in 1 .. n : new[i] = IF i = k THEN None ELSE tab[i]
  BY <1>2, <1>3 DEF Put
<1> HIDE DEF new
<1>7. HeldOnce(new)
  BY <1>3, <1>4, <1>5, <1>6 DEF HeldOnce
<1>8. Held(new) = Held(tab) \ {e}
  <2>1. \A x : x \in Held(new) => x \in Held(tab) \ {e}
    BY <1>3, <1>4, <1>5, <1>6 DEF Held
  <2>2. \A x : x \in Held(tab) \ {e} => x \in Held(new)
    BY <1>3, <1>5, <1>6 DEF Held
  <2> QED
    BY <2>1, <2>2
<1> QED
  BY <1>5, <1>7, <1>8 DEF new

-----------------------------------------------------------------------------
(* The tables of GlxTables                                                 *)

(* A window has one entry, which is what glXCreateWindow was last told     *)
EntriesInv ==
  /\ \A i, j \in DOMAIN glx_drawables :
       /\ glx_drawables[i] # None /\ glx_drawables[j] # None
       /\ glx_drawables[i].drawable = glx_drawables[j].drawable
       => i = j
  /\ \A w \in Windows \ leftover.drawable :
       IF chosen[w] = None THEN glx_find_drawable_state(w) = {}
       ELSE \E i \in DOMAIN glx_drawables :
              glx_drawables[i] = [drawable |-> w, config |-> chosen[w]]

(* The image is that of the window swapped last                            *)
ImageInv ==
  /\ shown # None => swap_data = shown /\ depth[shown.drawable] # None
  /\ swap_data # None /\ swap_data.drawable \notin leftover.image =>
       swap_data.depth = depth[swap_data.drawable]

GlxIInv == GlxTypeOK /\ ContextsAccountedFor /\ EntriesInv /\ ImageInv

LEMMA ContextAdded ==
  ASSUME GlxIInv, NEW a \in Addresses, NEW c \in Configs, CreateContext(a, c)
  PROVE  GlxIInv'
<1>1. a # None /\ Entries(glx_contexts, a) = {} /\ MaxContexts \in Nat
  BY NoneAssumption, TableAssumption DEF CreateContext, glx_lookup_context
<1>2. glx_contexts \in [1 .. MaxContexts -> Addresses \cup {None}] /\ HeldOnce(glx_contexts)
  BY DEF GlxIInv, GlxTypeOK, ContextsAccountedFor, HeldOnce
<1>3. /\ HeldOnce(glx_contexts') /\ Held(glx_contexts') = Held(glx_contexts) \cup {a}
      /\ glx_contexts' \in [1 .. MaxContexts -> (Addresses \cup {None}) \cup {a}]
  <2> DEFINE new == Put(glx_contexts, Entries(glx_contexts, None), a)
  <2>1. glx_contexts' = new /\ Entries(glx_contexts, None) # {}
    BY DEF CreateContext
  <2>2. /\ HeldOnce(new) /\ Held(new) = Held(glx_contexts) \cup {a}
        /\ new \in [1 .. MaxContexts -> (Addresses \cup {None}) \cup {a}]
    BY <1>1, <1>2, <2>1, EntryAdded
  <2> QED
    BY <2>1, <2>2
<1>4. GlxTypeOK'
  BY <1>3 DEF CreateContext, GlxIInv, GlxTypeOK, drawableVars
<1>5. ContextsAccountedFor'
  BY <1>3 DEF CreateContext, GlxIInv, ContextsAccountedFor, Held, HeldOnce
<1>6. EntriesInv' /\ ImageInv'
  BY DEF CreateContext, GlxIInv, EntriesInv, ImageInv, glx_find_drawable_state, drawableVars
<1> QED
  BY <1>4, <1>5, <1>6 DEF GlxIInv

LEMMA ContextRemoved ==
  ASSUME GlxIInv, NEW a \in Addresses, DestroyContext(a)
  PROVE  GlxIInv'
<1>1. a # None /\ Entries(glx_contexts, a) # {} /\ MaxContexts \in Nat
  BY NoneAssumption, TableAssumption DEF DestroyContext, glx_lookup_context
<1>2. glx_contexts \in [1 .. MaxContexts -> Addresses \cup {None}] /\ HeldOnce(glx_contexts)
  BY DEF GlxIInv, GlxTypeOK, ContextsAccountedFor, HeldOnce
<1>3. /\ HeldOnce(glx_contexts') /\ Held(glx_contexts') = Held(glx_contexts) \ {a}
      /\ glx_contexts' \in [1 .. MaxContexts -> Addresses \cup {None}]
  <2> DEFINE new == Put(glx_contexts, Entries(glx_contexts, a), None)
             S == Addresses \cup {None}
  <2>1. glx_contexts' = new /\ None \in S /\ glx_contexts \in [1 .. MaxContexts -> S]
    BY <1>2 DEF DestroyContext
  <2> HIDE DEF S
  <2>2. /\ HeldOnce(new) /\ Held(new) = Held(glx_contexts) \ {a}
        /\ new \in [1 .. MaxContexts -> S]
    BY <1>1, <1>2, <2>1, EntryRemoved
  <2> QED
    BY <2>1, <2>2 DEF S
<1>4. GlxTypeOK'
  BY <1>3 DEF DestroyContext, SetCurrent, GlxIInv, GlxTypeOK, drawableVars
<1>5. ContextsAccountedFor'
  BY <1>1, <1>3 DEF DestroyContext, SetCurrent, GlxIInv, ContextsAccountedFor, Held, HeldOnce
<1>6. EntriesInv' /\ ImageInv'
  BY DEF DestroyContext, GlxIInv, EntriesInv, ImageInv, glx_find_drawable_state, drawableVars
<1> QED
  BY <1>4, <1>5, <1>6 DEF GlxIInv

LEMMA ContextRejected ==
  ASSUME GlxIInv, NEW a \in Addresses, RejectContext(a)
  PROVE  GlxIInv'
<1> DEFINE registered == Put(glx_contexts, Entries(glx_contexts, None), a)
           S == (Addresses \cup {None}) \cup {a}
<1>1. a # None /\ Entries(glx_contexts, a) = {} /\ MaxContexts \in Nat
  BY NoneAssumption, TableAssumption DEF RejectContext, glx_lookup_context
<1>2. glx_contexts \in [1 .. MaxContexts -> Addresses \cup {None}] /\ HeldOnce(glx_contexts)
  BY DEF GlxIInv, GlxTypeOK, ContextsAccountedFor, HeldOnce
<1>3. /\ HeldOnce(registered) /\ Held(registered) = Held(glx_contexts) \cup {a}
      /\ registered \in [1 .. MaxContexts -> S]
  BY <1>1, <1>2, EntryAdded DEF RejectContext
<1>4. glx_contexts' = Put(registered, Entries(registered, a), None)
  BY DEF RejectContext
<1>5. Held(glx_contexts) = handed /\ a \notin handed
  BY <1>1 DEF GlxIInv, ContextsAccountedFor, Held, Entries
<1> HIDE DEF registered, S
<1>6. Entries(registered, a) # {}
  BY <1>3 DEF Held, Entries
<1>7. /\ HeldOnce(glx_contexts') /\ Held(glx_contexts') = Held(registered) \ {a}
      /\ glx_contexts' \in [1 .. MaxContexts -> S]
  <2>1. None \in S
    BY DEF S
  <2> QED
    BY <1>1, <1>3, <1>4, <1>6, <2>1, EntryRemoved
<1>8. Held(glx_contexts') = handed /\ a # current_context
  BY <1>1, <1>3, <1>5, <1>7 DEF GlxIInv, ContextsAccountedFor
<1>9. GlxTypeOK'
  BY <1>7 DEF S, RejectContext, SetCurrent, GlxIInv, GlxTypeOK, drawableVars
<1>10. ContextsAccountedFor'
  BY <1>7, <1>8 DEF RejectContext, GlxIInv, ContextsAccountedFor, Held, HeldOnce
<1>11. EntriesInv' /\ ImageInv'
  BY DEF RejectContext, GlxIInv, EntriesInv, ImageInv, glx_find_drawable_state, drawableVars
<1> QED
  BY <1>9, <1>10, <1>11 DEF GlxIInv

LEMMA CurrentMade ==
  ASSUME GlxIInv, NEW a \in Addresses \cup {None}, NEW w \in Windows, MakeCurrent(a, w)
  PROVE  GlxIInv'
<1>1. GlxTypeOK'
  BY DEF MakeCurrent, SetCurrent, GlxIInv, GlxTypeOK, drawableVars
<1>2. a # None => a \in handed
  BY DEF MakeCurrent, glx_lookup_context, Entries, GlxIInv, ContextsAccountedFor
<1>3. ContextsAccountedFor'
  BY <1>2 DEF MakeCurrent, SetCurrent, GlxIInv, ContextsAccountedFor
<1>4. EntriesInv' /\ ImageInv'
  BY DEF MakeCurrent, GlxIInv, EntriesInv, ImageInv, glx_find_drawable_state, drawableVars
<1> QED
  BY <1>1, <1>3, <1>4 DEF GlxIInv

-----------------------------------------------------------------------------
(* A window's entry is replaced, or there was none and it takes a free one *)
LEMMA PlaceOf ==
  ASSUME GlxIInv, NEW w \in Windows
  PROVE  LET found == glx_find_drawable_state(w)
             place == IF found # {} THEN found ELSE Entries(glx_drawables, None)
         IN /\ place \in SUBSET (1 .. MaxDrawables)
            /\ \A i \in place : \/ glx_drawables[i] = None /\ found = {}
                                \/ glx_drawables[i] # None /\ glx_drawables[i].drawable = w
  BY DEF glx_find_drawable_state, Entries, GlxIInv, GlxTypeOK

LEMMA WindowCreated ==
  ASSUME GlxIInv, NEW w \in Windows, NEW c \in Configs, CreateWindow(w, c)
  PROVE  GlxIInv'
<1> DEFINE found == glx_find_drawable_state(w)
           place == IF found # {} THEN found ELSE Entries(glx_drawables, None)
           entry == [drawable |-> w, config |-> c]
<1>1. /\ place \in SUBSET (1 .. MaxDrawables)
      /\ \A i \in place : \/ glx_drawables[i] = None /\ found = {}
                          \/ glx_drawables[i] # None /\ glx_drawables[i].drawable = w
  BY PlaceOf
<1>2. /\ glx_drawables \in [1 .. MaxDrawables -> Drawables \cup {None}]
      /\ entry \in Drawables /\ entry # None /\ entry.drawable = w /\ c # None
      /\ MaxDrawables \in Nat
  BY NoneAssumption, TableAssumption DEF GlxIInv, GlxTypeOK, Drawables
<1>3. /\ glx_drawables' = Put(glx_drawables, place, entry)
      /\ chosen' = [chosen EXCEPT ![w] = IF place = {} THEN None ELSE c]
      /\ leftover' = [leftover EXCEPT !.drawable = IF place = {} THEN @ ELSE @ \ {w}]
      /\ UNCHANGED <<contextVars, swap_data, depth, handed, shown>>
  BY DEF CreateWindow
<1>4. found # {} => place = found
  OBVIOUS
<1>5. found \in SUBSET (1 .. MaxDrawables)
  BY <1>2 DEF glx_find_drawable_state
<1> HIDE DEF place, entry
<1>6. glx_drawables' \in [1 .. MaxDrawables -> Drawables \cup {None}]
  BY <1>2, <1>3 DEF Put
<1>7. GlxTypeOK'
  BY <1>2, <1>3, <1>6 DEF GlxIInv, GlxTypeOK, contextVars
<1>8. ContextsAccountedFor' /\ ImageInv'
  BY <1>3 DEF GlxIInv, GlxTypeOK, ContextsAccountedFor, ImageInv, contextVars
<1>9. CASE place = {}
  <2>1. glx_drawables' = glx_drawables /\ found = {}
    BY <1>2, <1>3, <1>4, <1>9, NoFirst DEF Put
  <2>2. leftover'.drawable = leftover.drawable
    BY <1>3, <1>9 DEF GlxIInv, GlxTypeOK
  <2>3. \A v \in Windows : chosen'[v] = IF v = w THEN None ELSE chosen[v]
    BY <1>3, <1>9 DEF GlxIInv, GlxTypeOK
  <2>4. \A v \in Windows : glx_find_drawable_state(v)' = glx_find_drawable_state(v)
    BY <2>1 DEF glx_find_drawable_state
  <2>5. EntriesInv'
    BY <2>1, <2>2, <2>3, <2>4 DEF GlxIInv, EntriesInv
  <2> QED
    BY <1>7, <1>8, <2>5 DEF GlxIInv
<1>10. CASE place # {}
  <2>1. PICK k \in place : First(place) = {k}
    BY <1>1, <1>2, <1>10, OneFirst
  <2>2. \A i \in 1 .. MaxDrawables :
          glx_drawables'[i] = IF i = k THEN entry ELSE glx_drawables[i]
    BY <1>2, <1>3, <2>1 DEF Put
  <2>3. k \in 1 .. MaxDrawables
    BY <1>1
  <2>4. DOMAIN glx_drawables = 1 .. MaxDrawables /\ DOMAIN glx_drawables' = 1 .. MaxDrawables
    BY <1>2, <1>6
  <2>5. \A i \in 1 .. MaxDrawables :
          i # k /\ glx_drawables[i] # None => glx_drawables[i].drawable # w
    <3> SUFFICES ASSUME NEW i \in 1 .. MaxDrawables, i # k, glx_drawables[i] # None,
                        glx_drawables[i].drawable = w
                 PROVE  FALSE
      OBVIOUS
    <3>1. i \in found
      BY <2>4 DEF glx_find_drawable_state
    <3>2. glx_drawables[k] # None /\ glx_drawables[k].drawable = w
      BY <1>1, <2>1, <3>1
    <3> QED
      BY <2>3, <2>4, <3>2 DEF GlxIInv, EntriesInv
  <2>6. \A i, j \in 1 .. MaxDrawables :
          /\ glx_drawables'[i] # None /\ glx_drawables'[j] # None
          /\ glx_drawables'[i].drawable = glx_drawables'[j].drawable
          => i = j
    BY <1>2, <2>2, <2>3, <2>4, <2>5 DEF GlxIInv, EntriesInv
  <2>7. leftover'.drawable = leftover.drawable \ {w}
    BY <1>3, <1>10 DEF GlxIInv, GlxTypeOK
  <2>8. \A v \in Windows : chosen'[v] = IF v = w THEN c ELSE chosen[v]
    BY <1>3, <1>10 DEF GlxIInv, GlxTypeOK
  <2>9. \E i \in DOMAIN glx_drawables' : glx_drawables'[i] = [drawable |-> w, config |-> c]
    BY <2>2, <2>3, <2>4 DEF entry
  <2>10. ASSUME NEW v \in Windows \ leftover'.drawable, v # w
         PROVE  IF chosen'[v] = None THEN glx_find_drawable_state(v)' = {}
                ELSE \E i \in DOMAIN glx_drawables' :
                       glx_drawables'[i] = [drawable |-> v, config |-> chosen'[v]]
    <3>1. v \in Windows \ leftover.drawable /\ chosen'[v] = chosen[v]
      BY <2>7, <2>8, <2>10
    <3>2. CASE chosen[v] = None
      <4>1. glx_find_drawable_state(v) = {}
        BY <3>1, <3>2 DEF GlxIInv, EntriesInv
      <4>2. \A i \in 1 .. MaxDrawables :
              ~(glx_drawables[i] # None /\ glx_drawables[i].drawable = v)
        BY <2>4, <4>1 DEF glx_find_drawable_state
      <4>3. \A i \in 1 .. MaxDrawables :
              ~(glx_drawables'[i] # None /\ glx_drawables'[i].drawable = v)
        BY <1>2, <2>2, <2>10, <4>2
      <4> QED
        BY <2>4, <3>1, <3>2, <4>3 DEF glx_find_drawable_state
    <3>3. CASE chosen[v] # None
      <4>1. PICK i \in 1 .. MaxDrawables :
              glx_drawables[i] = [drawable |-> v, config |-> chosen[v]]
        BY <2>4, <3>1, <3>3 DEF GlxIInv, EntriesInv
      <4>2. glx_drawables[i].drawable = v /\ glx_drawables[i] # None
        <5>1. chosen[v] \in Configs
          BY <3>3 DEF GlxIInv, GlxTypeOK
        <5> QED
          BY <4>1, <5>1, NoneAssumption
      <4>3. i # k
        BY <1>1, <2>1, <2>10, <4>2
      <4> QED
        BY <2>2, <2>4, <3>1, <3>3, <4>1, <4>3
    <3> QED
      BY <3>2, <3>3
  <2>11. EntriesInv'
    BY <1>2, <2>4, <2>6, <2>8, <2>9, <2>10 DEF EntriesInv
  <2> QED
    BY <1>7, <1>8, <2>11 DEF GlxIInv
<1> QED
  BY <1>9, <1>10

LEMMA WindowDestroyed ==
  ASSUME GlxIInv, NEW w \in Windows, DestroyWindow(w)
  PROVE  GlxIInv'
<1> DEFINE found == glx_find_drawable_state(w)
<1>1. /\ found # {} /\ glx_drawables' = Put(glx_drawables, found, None)
      /\ chosen' = [chosen EXCEPT ![w] = None]
      /\ leftover' = [leftover EXCEPT !.drawable = @ \ {w}]
      /\ UNCHANGED <<contextVars, swap_data, depth, handed, shown>>
  BY DEF DestroyWindow
<1>2. glx_drawables \in [1 .. MaxDrawables -> Drawables \cup {None}] /\ MaxDrawables \in Nat
  BY TableAssumption DEF GlxIInv, GlxTypeOK
<1>3. /\ found \in SUBSET (1 .. MaxDrawables)
      /\ \A i \in 1 .. MaxDrawables :
           i \in found <=> glx_drawables[i] # None /\ glx_drawables[i].drawable = w
  BY <1>2 DEF glx_find_drawable_state
<1> HIDE DEF found
<1>4. PICK k \in found : First(found) = {k}
  BY <1>1, <1>2, <1>3, OneFirst
<1>5. glx_drawables' \in [1 .. MaxDrawables -> Drawables \cup {None}]
  BY <1>1, <1>2 DEF Put
<1>6. \A i \in 1 .. MaxDrawables : glx_drawables'[i] = IF i = k THEN None ELSE glx_drawables[i]
  BY <1>1, <1>2, <1>4 DEF Put
<1>7. DOMAIN glx_drawables = 1 .. MaxDrawables /\ DOMAIN glx_drawables' = 1 .. MaxDrawables
  BY <1>2, <1>5
<1>8. \A i \in found : i = k
  BY <1>3, <1>7 DEF GlxIInv, EntriesInv
<1>9. GlxTypeOK'
  BY <1>1, <1>5 DEF GlxIInv, GlxTypeOK, contextVars
<1>10. ContextsAccountedFor' /\ ImageInv'
  BY <1>1 DEF GlxIInv, GlxTypeOK, ContextsAccountedFor, ImageInv, contextVars
<1>11. \A i, j \in 1 .. MaxDrawables :
         /\ glx_drawables'[i] # None /\ glx_drawables'[j] # None
         /\ glx_drawables'[i].drawable = glx_drawables'[j].drawable
         => i = j
  BY <1>6, <1>7 DEF GlxIInv, EntriesInv
<1>12. /\ leftover'.drawable = leftover.drawable \ {w}
       /\ \A v \in Windows : chosen'[v] = IF v = w THEN None ELSE chosen[v]
  BY <1>1 DEF GlxIInv, GlxTypeOK
<1>13. glx_find_drawable_state(w)' = {}
  BY <1>3, <1>6, <1>7, <1>8 DEF glx_find_drawable_state
<1>14. ASSUME NEW v \in Windows \ leftover'.drawable, v # w
       PROVE  IF chosen'[v] = None THEN glx_find_drawable_state(v)' = {}
              ELSE \E i \in DOMAIN glx_drawables' :
                     glx_drawables'[i] = [drawable |-> v, config |-> chosen'[v]]
  <2>1. v \in Windows \ leftover.drawable /\ chosen'[v] = chosen[v]
    BY <1>12, <1>14
  <2>2. CASE chosen[v] = None
    <3>1. glx_find_drawable_state(v) = {}
      BY <2>1, <2>2 DEF GlxIInv, EntriesInv
    <3> QED
      BY <1>6, <1>7, <2>1, <2>2, <3>1 DEF glx_find_drawable_state
  <2>3. CASE chosen[v] # None
    <3>1. PICK i \in 1 .. MaxDrawables :
            glx_drawables[i] = [drawable |-> v, config |-> chosen[v]]
      BY <1>7, <2>1, <2>3 DEF GlxIInv, EntriesInv
    <3>2. i # k
      BY <1>3, <1>4, <1>14, <3>1
    <3> QED
      BY <1>6, <1>7, <2>1, <2>3, <3>1, <3>2
  <2> QED
    BY <2>2, <2>3
<1>15. EntriesInv'
  BY <1>7, <1>11, <1>12, <1>13, <1>14 DEF EntriesInv
<1> QED
  BY <1>9, <1>10, <1>15 DEF GlxIInv

LEMMA BuffersSwapped ==
  ASSUME GlxIInv, NEW w \in Windows, SwapBuffers(w)
  PROVE  GlxIInv'
<1>1. ContextsAccountedFor'
  BY DEF SwapBuffers, GlxIInv, ContextsAccountedFor, contextVars
<1>2. leftover'.drawable = leftover.drawable /\ leftover' \in [drawable : SUBSET Windows, image : SUBSET Windows]
  BY DEF SwapBuffers, GlxIInv, GlxTypeOK
<1>3. EntriesInv'
  BY <1>2 DEF SwapBuffers, GlxIInv, EntriesInv, glx_find_drawable_state
<1>4. depth[w] \in Depths \cup {None} /\ UNCHANGED depth
  BY DEF SwapBuffers, GlxIInv, GlxTypeOK
<1>5. swap_data' \in Images \cup {None} /\ (swap_data' # None => swap_data'.drawable = w)
  BY <1>4 DEF SwapBuffers, HasImage, NewImage, GlxIInv, GlxTypeOK, Images
<1>6. shown' = IF swap_data' = None \/ depth[w] = None THEN None
               ELSE [drawable |-> w, depth |-> swap_data'.depth]
  BY DEF SwapBuffers, Shows
<1>7. shown' \in Images \cup {None}
  BY <1>5, <1>6 DEF Images
<1>8. GlxTypeOK'
  BY <1>2, <1>5, <1>7 DEF SwapBuffers, GlxIInv, GlxTypeOK, contextVars
<1>9. shown' # None => swap_data' = shown' /\ depth'[shown'.drawable] # None
  BY <1>4, <1>5, <1>6 DEF Images
<1>10. swap_data' # None /\ swap_data'.drawable \notin leftover'.image =>
         swap_data'.depth = depth'[swap_data'.drawable]
  BY <1>4, <1>5 DEF SwapBuffers, HasImage, NewImage, GlxIInv, GlxTypeOK, ImageInv
<1> QED
  BY <1>1, <1>3, <1>8, <1>9, <1>10 DEF GlxIInv, ImageInv

LEMMA WindowOpened ==
  ASSUME GlxIInv, NEW w \in Windows, NEW d \in Depths, OpenWindow(w, d)
  PROVE  GlxIInv'
<1>1. GlxTypeOK' /\ ContextsAccountedFor'
  BY DEF OpenWindow, GlxIInv, GlxTypeOK, ContextsAccountedFor, contextVars, drawableVars
<1>2. EntriesInv'
  BY DEF OpenWindow, GlxIInv, EntriesInv, glx_find_drawable_state, drawableVars
<1>3. \A v \in Windows : depth'[v] = IF v = w THEN d ELSE depth[v]
  BY DEF OpenWindow, GlxIInv, GlxTypeOK
<1>4. swap_data # None => swap_data.drawable \in Windows /\ swap_data.depth # None
  BY NoneAssumption DEF GlxIInv, GlxTypeOK, Images
<1>5. ImageInv'
  BY <1>3, <1>4 DEF OpenWindow, GlxIInv, ImageInv, drawableVars
<1> QED
  BY <1>1, <1>2, <1>5 DEF GlxIInv

LEMMA WindowClosed ==
  ASSUME GlxIInv, NEW w \in Windows, CloseWindow(w)
  PROVE  GlxIInv'
<1>1. /\ leftover' \in [drawable : SUBSET Windows, image : SUBSET Windows]
      /\ leftover'.drawable = IF glx_find_drawable_state(w) # {} THEN leftover.drawable \cup {w}
                              ELSE leftover.drawable
      /\ leftover'.image = IF HasImage(w) THEN leftover.image \cup {w} ELSE leftover.image
  BY DEF CloseWindow, GlxIInv, GlxTypeOK
<1>2. GlxTypeOK' /\ ContextsAccountedFor'
  BY <1>1 DEF CloseWindow, GlxIInv, GlxTypeOK, ContextsAccountedFor, contextVars, drawableVars
<1>3. \A v \in Windows : /\ depth'[v] = IF v = w THEN None ELSE depth[v]
                         /\ chosen'[v] = IF v = w THEN None ELSE chosen[v]
  BY DEF CloseWindow, GlxIInv, GlxTypeOK
<1>4. UNCHANGED <<glx_drawables, swap_data>>
  BY DEF CloseWindow, drawableVars
<1>5. EntriesInv'
  BY <1>1, <1>3, <1>4 DEF GlxIInv, EntriesInv, glx_find_drawable_state
<1>6. ImageInv'
  BY <1>1, <1>3, <1>4 DEF CloseWindow, HasImage, GlxIInv, GlxTypeOK, Images, ImageInv
<1> QED
  BY <1>2, <1>5, <1>6 DEF GlxIInv

LEMMA GlxInvariant == GlxSpec => []GlxIInv
<1>1. GlxInit => GlxIInv
  <2> SUFFICES ASSUME GlxInit PROVE GlxIInv
    OBVIOUS
  <2>1. GlxTypeOK
    BY DEF GlxInit, GlxTypeOK
  <2>2. ContextsAccountedFor
    BY DEF GlxInit, ContextsAccountedFor
  <2>3. EntriesInv /\ ImageInv
    BY DEF GlxInit, EntriesInv, ImageInv, glx_find_drawable_state
  <2> QED
    BY <2>1, <2>2, <2>3 DEF GlxIInv
<1>2. GlxIInv /\ [GlxNext]_glxVars => GlxIInv'
  <2> SUFFICES ASSUME GlxIInv, [GlxNext]_glxVars PROVE GlxIInv'
    OBVIOUS
  <2>1. CASE WindowsNext
    BY <2>1, WindowClosed, WindowOpened DEF WindowsNext
  <2>2. CASE TablesNext
    BY <2>2, ContextAdded, ContextRejected, ContextRemoved, CurrentMade, WindowCreated,
       WindowDestroyed DEF TablesNext
  <2>3. CASE SwapsNext
    BY <2>3, BuffersSwapped DEF SwapsNext
  <2>4. CASE UNCHANGED glxVars
    <3>1. GlxTypeOK' /\ ContextsAccountedFor'
      BY <2>4 DEF glxVars, contextVars, drawableVars, GlxIInv, GlxTypeOK, ContextsAccountedFor
    <3>2. EntriesInv' /\ ImageInv'
      BY <2>4 DEF glxVars, contextVars, drawableVars, GlxIInv, EntriesInv, ImageInv,
                  glx_find_drawable_state
    <3> QED
      BY <3>1, <3>2 DEF GlxIInv
  <2> QED
    BY <2>1, <2>2, <2>3, <2>4 DEF GlxNext
<1> QED
  BY <1>1, <1>2, PTL DEF GlxSpec

(* The table of contexts holds what the program was given, once, and what  *)
(* is current is one of them (glx_register_context, glXDestroyContext)     *)
THEOREM GlxContexts == GlxSpec => []ContextsAccountedFor
<1>1. GlxIInv => ContextsAccountedFor
  BY DEF GlxIInv
<1> QED
  BY <1>1, GlxInvariant, PTL

(* A window has the configuration it was given and is drawn with its depth *)
(* unless an older one of its number was not taken back                    *)
(* (glXCreateWindow, glXQueryDrawable, glXSwapBuffers)                     *)
THEOREM GlxWindows == GlxSpec => []WindowsAsCreated
<1>1. GlxIInv => WindowsAsCreated
  <2> SUFFICES ASSUME GlxIInv PROVE WindowsAsCreated
    OBVIOUS
  <2>1. glx_drawables \in [1 .. MaxDrawables -> Drawables \cup {None}] /\ MaxDrawables \in Nat
    BY TableAssumption DEF GlxIInv, GlxTypeOK
  <2>2. shown # None /\ shown.drawable \notin leftover.image =>
          shown.depth = depth[shown.drawable]
    BY DEF GlxIInv, ImageInv
  <2>3. ASSUME NEW w \in Windows \ leftover.drawable
        PROVE  QueryDrawable(w) =
                 IF chosen[w] # None THEN chosen[w]
                 ELSE IF current_drawable = w THEN config[current_context] ELSE None
    <3> DEFINE found == glx_find_drawable_state(w)
    <3>1. CASE chosen[w] = None
      <4>1. First(found) = {}
        BY <2>3, <3>1, NoFirst DEF GlxIInv, EntriesInv
      <4>2. current_drawable = w =>
              current_context # None /\ glx_lookup_context(current_context)
        BY NoneAssumption DEF GlxIInv, GlxTypeOK, ContextsAccountedFor, glx_lookup_context, Entries
      <4> QED
        BY <3>1, <4>1, <4>2 DEF QueryDrawable
    <3>2. CASE chosen[w] # None
      <4>1. PICK i \in 1 .. MaxDrawables :
              glx_drawables[i] = [drawable |-> w, config |-> chosen[w]]
        BY <2>1, <2>3, <3>2 DEF GlxIInv, EntriesInv
      <4>2. chosen[w] \in Configs
        BY <3>2 DEF GlxIInv, GlxTypeOK
      <4>3. glx_drawables[i] # None
        BY <4>1, <4>2, NoneAssumption
      <4>4. i \in found /\ found \in SUBSET (1 .. MaxDrawables)
        BY <2>1, <4>1, <4>3 DEF glx_find_drawable_state
      <4>5. \A j \in found : j = i
        BY <2>1, <4>1, <4>3 DEF GlxIInv, EntriesInv, glx_find_drawable_state
      <4> HIDE DEF found
      <4>6. First(found) = {i}
        BY <2>1, <4>4, <4>5, OneFirst
      <4>7. (CHOOSE j \in First(found) : TRUE) = i
        BY <4>6
      <4> QED
        BY <3>2, <4>1, <4>6, <4>7 DEF QueryDrawable, found
    <3> QED
      BY <3>1, <3>2
  <2> QED
    BY <2>2, <2>3 DEF WindowsAsCreated
<1> QED
  BY <1>1, GlxInvariant, PTL

-----------------------------------------------------------------------------
(* The handles of WindrvTables                                             *)

(* Entries in use have handles the counter has passed, each its own, and   *)
(* are the contexts that were given                                        *)
HandlesInv ==
  /\ next_context_handle >= 0
  /\ \A i \in DOMAIN windrv_contexts \ FreeEntries :
       /\ windrv_contexts[i].handle \in 1 .. next_context_handle
       /\ windrv_contexts[i] \in given
  /\ \A i, j \in DOMAIN windrv_contexts \ FreeEntries :
       windrv_contexts[i].handle = windrv_contexts[j].handle => i = j
  /\ \A context \in given : \E i \in DOMAIN windrv_contexts : windrv_contexts[i] = context

WindrvIInv == WindrvTypeOK /\ (wrapped \/ HandlesInv)

LEMMA FirstOfFound ==
  ASSUME NEW n \in Nat, NEW found, found \in SUBSET (1 .. n), found # {}
  PROVE  FirstOf(found) \in found
<1>1. \E k \in found : \A j \in found : k <= j
  BY LeastExists
<1> QED
  BY <1>1 DEF FirstOf

LEMMA HandleCounts ==
  ASSUME WindrvTypeOK
  PROVE  /\ RawHandle \in LONG
         /\ next_context_handle >= 0 /\ RawHandle > 0 => RawHandle = next_context_handle + 1
  BY LongAssumption DEF WindrvTypeOK, LONG, RawHandle, InterlockedIncrement

LEMMA HandleCreated ==
  ASSUME WindrvIInv, NEW hdc \in Devices, DrvCreateContext(hdc)
  PROVE  WindrvIInv'
<1> DEFINE entry == [handle |-> RawHandle, hdc |-> hdc]
           k == FirstOf(FreeEntries)
<1>1. /\ windrv_contexts \in [1 .. MaxHandles -> Contexts \cup {Unused}] /\ MaxHandles \in Nat
      /\ DOMAIN windrv_contexts = 1 .. MaxHandles
  BY LongAssumption DEF WindrvIInv, WindrvTypeOK
<1>2. k \in FreeEntries /\ FreeEntries \subseteq 1 .. MaxHandles
  <2>1. FreeEntries \in SUBSET (1 .. MaxHandles) /\ FreeEntries # {}
    BY <1>1 DEF FreeEntries, DrvCreateContext
  <2> QED
    BY <1>1, <2>1, FirstOfFound
<1>3. /\ RawHandle \in LONG
      /\ next_context_handle >= 0 /\ RawHandle > 0 => RawHandle = next_context_handle + 1
  BY HandleCounts DEF WindrvIInv
<1>4. entry \in Contexts /\ entry # Unused /\ entry.handle = RawHandle
  BY <1>3, UnusedAssumption DEF Contexts, LONG
<1>5. /\ windrv_contexts' = [windrv_contexts EXCEPT ![k] = entry]
      /\ next_context_handle' = RawHandle
      /\ given' = IF RawHandle = 0 THEN given ELSE given \cup {entry}
      /\ wrapped' = (wrapped \/ RawHandle <= 0)
  BY DEF DrvCreateContext
<1> HIDE DEF entry, k
<1>6. /\ windrv_contexts' \in [1 .. MaxHandles -> Contexts \cup {Unused}]
      /\ DOMAIN windrv_contexts' = 1 .. MaxHandles
      /\ \A i \in 1 .. MaxHandles :
           windrv_contexts'[i] = IF i = k THEN entry ELSE windrv_contexts[i]
  BY <1>1, <1>2, <1>4, <1>5
<1>7. given' \subseteq Contexts /\ wrapped' \in BOOLEAN
  BY <1>4, <1>5 DEF WindrvIInv, WindrvTypeOK
<1>8. WindrvTypeOK'
  BY <1>3, <1>5, <1>6, <1>7 DEF WindrvTypeOK
<1>9. ASSUME ~wrapped' PROVE HandlesInv'
  <2>1. HandlesInv /\ RawHandle > 0
    <3>1. ~wrapped /\ ~(RawHandle <= 0)
      BY <1>5, <1>9
    <3> QED
      BY <1>3, <3>1, LongAssumption DEF WindrvIInv, LONG
  <2>2. RawHandle = next_context_handle + 1 /\ given' = given \cup {entry}
    BY <1>3, <1>5, <2>1 DEF HandlesInv
  <2>3. next_context_handle \in Nat /\ next_context_handle' = next_context_handle + 1
    BY <1>5, <2>1, <2>2, LongAssumption DEF HandlesInv, WindrvIInv, WindrvTypeOK, LONG
  <2>4. \A i \in 1 .. MaxHandles :
          i \in FreeEntries' <=> i \in FreeEntries /\ i # k
    BY <1>1, <1>4, <1>6 DEF FreeEntries
  <2>5. ASSUME NEW i \in 1 .. MaxHandles, i \notin FreeEntries'
        PROVE  /\ windrv_contexts'[i].handle \in 1 .. next_context_handle'
               /\ windrv_contexts'[i] \in given'
    <3>1. CASE i = k
      BY <1>4, <1>6, <2>2, <2>3, <3>1
    <3>2. CASE i # k
      <4>1. i \in DOMAIN windrv_contexts \ FreeEntries
        BY <1>1, <2>4, <2>5, <3>2
      <4>2. windrv_contexts[i].handle \in 1 .. next_context_handle /\ windrv_contexts[i] \in given
        BY <2>1, <4>1 DEF HandlesInv
      <4> QED
        BY <1>6, <2>2, <2>3, <3>2, <4>2
    <3> QED
      BY <3>1, <3>2
  <2>6. ASSUME NEW i \in 1 .. MaxHandles, NEW j \in 1 .. MaxHandles,
               i \notin FreeEntries', j \notin FreeEntries',
               windrv_contexts'[i].handle = windrv_contexts'[j].handle
        PROVE  i = j
    <3>1. \A l \in 1 .. MaxHandles : l \notin FreeEntries' /\ l # k =>
            windrv_contexts[l].handle \in 1 .. next_context_handle
      BY <1>1, <2>1, <2>4 DEF HandlesInv
    <3>2. \A l \in 1 .. MaxHandles : l \notin FreeEntries' /\ l # k =>
            windrv_contexts'[l].handle < RawHandle
      BY <1>6, <2>2, <2>3, <3>1
    <3>3. windrv_contexts'[k].handle = RawHandle
      BY <1>2, <1>4, <1>6
    <3>4. CASE i # k /\ j # k
      BY <1>1, <1>6, <2>1, <2>4, <2>6, <3>4 DEF HandlesInv
    <3>5. CASE i = k \/ j = k
      BY <2>2, <2>3, <2>6, <3>2, <3>3, <3>5
    <3> QED
      BY <3>4, <3>5
  <2>7. ASSUME NEW context \in given'
        PROVE  \E i \in 1 .. MaxHandles : windrv_contexts'[i] = context
    <3>1. CASE context = entry
      BY <1>2, <1>6, <3>1
    <3>2. CASE context # entry
      <4>1. context \in given /\ context # Unused
        BY <2>2, <2>7, <3>2, UnusedAssumption DEF WindrvIInv, WindrvTypeOK, Contexts, LONG
      <4>2. PICK i \in 1 .. MaxHandles : windrv_contexts[i] = context
        BY <1>1, <2>1, <4>1 DEF HandlesInv
      <4>3. i # k
        BY <1>2, <4>1, <4>2 DEF FreeEntries
      <4> QED
        BY <1>6, <4>2, <4>3
    <3> QED
      BY <3>1, <3>2
  <2> QED
    BY <1>6, <2>3, <2>5, <2>6, <2>7 DEF HandlesInv
<1> QED
  BY <1>8, <1>9 DEF WindrvIInv

LEMMA HandleDeleted ==
  ASSUME WindrvIInv, NEW context \in given, DrvDeleteContext(context)
  PROVE  WindrvIInv'
<1> DEFINE found == windrv_lookup_context(context.handle)
           k == FirstOf(found)
<1>1. /\ windrv_contexts \in [1 .. MaxHandles -> Contexts \cup {Unused}] /\ MaxHandles \in Nat
      /\ DOMAIN windrv_contexts = 1 .. MaxHandles
  BY LongAssumption DEF WindrvIInv, WindrvTypeOK
<1>2. found \in SUBSET (1 .. MaxHandles) /\ found # {}
  BY <1>1 DEF windrv_lookup_context, DrvDeleteContext
<1>3. /\ windrv_contexts' = [windrv_contexts EXCEPT ![k] = Unused]
      /\ given' = given \ {context}
      /\ UNCHANGED <<next_context_handle, wrapped>>
  BY DEF DrvDeleteContext
<1>4. \A i \in found : /\ i \in DOMAIN windrv_contexts \ FreeEntries
                       /\ windrv_contexts[i].handle = context.handle
  BY DEF windrv_lookup_context
<1> HIDE DEF found
<1>5. k \in found
  BY <1>1, <1>2, FirstOfFound
<1> HIDE DEF k
<1>6. /\ windrv_contexts' \in [1 .. MaxHandles -> Contexts \cup {Unused}]
      /\ DOMAIN windrv_contexts' = 1 .. MaxHandles
      /\ \A i \in 1 .. MaxHandles :
           windrv_contexts'[i] = IF i = k THEN Unused ELSE windrv_contexts[i]
  BY <1>1, <1>2, <1>3, <1>5
<1>7. WindrvTypeOK'
  BY <1>3, <1>6 DEF WindrvIInv, WindrvTypeOK
<1>8. ASSUME ~wrapped' PROVE HandlesInv'
  <2>1. HandlesInv
    BY <1>3, <1>8 DEF WindrvIInv
  <2>2. k \in 1 .. MaxHandles /\ k \notin FreeEntries /\ windrv_contexts[k].handle = context.handle
    BY <1>1, <1>4, <1>5
  <2>3. windrv_contexts[k] = context
    <3>1. PICK i \in 1 .. MaxHandles : windrv_contexts[i] = context
      BY <1>1, <2>1 DEF HandlesInv
    <3>2. context # Unused
      BY UnusedAssumption DEF WindrvIInv, WindrvTypeOK, Contexts, LONG
    <3>3. i \in DOMAIN windrv_contexts \ FreeEntries
      BY <1>1, <3>1, <3>2 DEF FreeEntries
    <3> QED
      BY <1>1, <2>1, <2>2, <3>1, <3>3 DEF HandlesInv
  <2>4. \A i \in 1 .. MaxHandles : i \in FreeEntries' <=> i \in FreeEntries \/ i = k
    BY <1>1, <1>6 DEF FreeEntries
  <2>5. ASSUME NEW i \in 1 .. MaxHandles, i \notin FreeEntries'
        PROVE  /\ windrv_contexts'[i].handle \in 1 .. next_context_handle'
               /\ windrv_contexts'[i] \in given'
    <3>1. i # k /\ i \in DOMAIN windrv_contexts \ FreeEntries
      BY <1>1, <2>4, <2>5
    <3>2. windrv_contexts[i].handle # windrv_contexts[k].handle
      BY <1>1, <2>1, <2>2, <3>1 DEF HandlesInv
    <3>3. windrv_contexts'[i] = windrv_contexts[i] /\ windrv_contexts[i] # context
      BY <1>6, <2>3, <3>1, <3>2
    <3>4. windrv_contexts[i].handle \in 1 .. next_context_handle /\ windrv_contexts[i] \in given
      BY <2>1, <3>1 DEF HandlesInv
    <3> QED
      BY <1>3, <3>3, <3>4
  <2>6. \A i, j \in DOMAIN windrv_contexts' \ FreeEntries' :
          windrv_contexts'[i].handle = windrv_contexts'[j].handle => i = j
    BY <1>1, <1>6, <2>1, <2>4 DEF HandlesInv
  <2>7. \A c \in given' : \E i \in DOMAIN windrv_contexts' : windrv_contexts'[i] = c
    <3> SUFFICES ASSUME NEW c \in given'
                 PROVE  \E i \in DOMAIN windrv_contexts' : windrv_contexts'[i] = c
      OBVIOUS
    <3>1. c \in given /\ c # context
      BY <1>3
    <3>2. PICK i \in 1 .. MaxHandles : windrv_contexts[i] = c
      BY <1>1, <2>1, <3>1 DEF HandlesInv
    <3> QED
      BY <1>6, <2>3, <3>1, <3>2
  <2> QED
    BY <1>3, <1>6, <2>1, <2>5, <2>6, <2>7 DEF HandlesInv
<1> QED
  BY <1>7, <1>8 DEF WindrvIInv

LEMMA WindrvInvariant == WindrvSpec => []WindrvIInv
<1>1. WindrvInit => WindrvIInv
  <2> SUFFICES ASSUME WindrvInit PROVE WindrvIInv
    OBVIOUS
  <2>1. WindrvTypeOK
    <3>1. 0 \in LONG
      BY LongAssumption DEF LONG
    <3> QED
      BY <3>1 DEF WindrvInit, WindrvTypeOK
  <2>2. DOMAIN windrv_contexts \ FreeEntries = {}
    BY DEF WindrvInit, FreeEntries
  <2>3. HandlesInv
    BY <2>2 DEF WindrvInit, HandlesInv
  <2> QED
    BY <2>1, <2>3 DEF WindrvIInv
<1>2. WindrvIInv /\ [WindrvNext]_windrvVars => WindrvIInv'
  <2> SUFFICES ASSUME WindrvIInv, [WindrvNext]_windrvVars PROVE WindrvIInv'
    OBVIOUS
  <2>1. CASE WindrvNext
    BY <2>1, HandleCreated, HandleDeleted DEF WindrvNext
  <2>2. CASE UNCHANGED windrvVars
    BY <2>2 DEF windrvVars, WindrvIInv, WindrvTypeOK, HandlesInv, FreeEntries
  <2> QED
    BY <2>1, <2>2
<1> QED
  BY <1>1, <1>2, PTL DEF WindrvSpec

(* Until the counter has gone round, a context is found by the handle it   *)
(* was given (windrv_alloc_context, windrv_lookup_context)                 *)
THEOREM HandlesRight == WindrvSpec => []ContextsFoundByHandle
<1>1. WindrvIInv => ContextsFoundByHandle
  <2> SUFFICES ASSUME WindrvTypeOK, HandlesInv PROVE ContextsFoundByHandle
    BY DEF WindrvIInv, ContextsFoundByHandle
  <2>1. ASSUME NEW context \in given
        PROVE  \E i \in DOMAIN windrv_contexts :
                 windrv_contexts[i] = context /\ windrv_lookup_context(context.handle) = {i}
    <3>1. PICK i \in DOMAIN windrv_contexts : windrv_contexts[i] = context
      BY DEF HandlesInv
    <3>2. context # Unused
      BY UnusedAssumption DEF WindrvTypeOK, Contexts, LONG
    <3>3. i \in DOMAIN windrv_contexts \ FreeEntries
      BY <3>1, <3>2 DEF FreeEntries
    <3>4. context.handle \in 1 .. next_context_handle
      BY <3>1, <3>3 DEF HandlesInv
    <3>5. context.handle # 0
      BY <3>4
    <3>6. \A j \in windrv_lookup_context(context.handle) : j = i
      BY <3>1, <3>3 DEF HandlesInv, windrv_lookup_context
    <3>7. i \in windrv_lookup_context(context.handle)
      BY <3>1, <3>3, <3>5 DEF windrv_lookup_context
    <3> QED
      BY <3>1, <3>6, <3>7
  <2> QED
    BY <2>1 DEF HandlesInv, ContextsFoundByHandle
<1> QED
  BY <1>1, WindrvInvariant, PTL
=============================================================================
