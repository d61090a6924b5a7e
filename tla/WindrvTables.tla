---------------------------- MODULE WindrvTables ----------------------------
(***************************************************************************)
(* The contexts of the Windows front end (src/client/platform/windrv.c): a *)
(* table whose entries carry a handle drawn from a counter that never goes *)
(* back.  One thread; frames are the matter of FramePresent, and a context *)
(* has no state of its own in GL.                                          *)
(***************************************************************************)
EXTENDS Integers, FiniteSets

CONSTANTS Devices,    \* the device contexts that programs draw on
          Largest,    \* the largest LONG
          MaxHandles, \* WINDRV_MAX_CONTEXTS
          Unused      \* an entry that is not in use

ASSUME LongAssumption == Largest \in Nat \ {0} /\ MaxHandles \in Nat
ASSUME UnusedAssumption == Unused \notin [handle : Int, hdc : Devices]

VARIABLES
  windrv_contexts,
  next_context_handle,
  (* History *)
  given,    \* the contexts the program was given and did not delete
  wrapped   \* the counter went past the largest LONG

windrvVars == <<windrv_contexts, next_context_handle, given, wrapped>>

LONG == -Largest - 1 .. Largest

WindrvInit ==
  /\ windrv_contexts = [i \in 1 .. MaxHandles |-> Unused] /\ next_context_handle = 0
  /\ given = {} /\ wrapped = FALSE

InterlockedIncrement(n) == IF n = Largest THEN -Largest - 1 ELSE n + 1

(* Skips a handle that is not positive - once                              *)
RawHandle ==
  LET raw_handle == InterlockedIncrement(next_context_handle)
  IN IF raw_handle <= 0 THEN InterlockedIncrement(raw_handle) ELSE raw_handle

FreeEntries == {i \in DOMAIN windrv_contexts : windrv_contexts[i] = Unused}
windrv_lookup_context(handle) ==
  {i \in DOMAIN windrv_contexts \ FreeEntries : handle # 0 /\ windrv_contexts[i].handle = handle}
FirstOf(found) == CHOOSE i \in found : \A j \in found : i <= j

(* Faulty variant: handles are counted by the entries in use.              *)
DrvCreateByCount(hdc) ==
  LET entry == [handle |-> MaxHandles + 1 - Cardinality(FreeEntries), hdc |-> hdc]
  IN /\ FreeEntries # {}
     /\ windrv_contexts' = [windrv_contexts EXCEPT ![FirstOf(FreeEntries)] = entry]
     /\ given' = given \cup {entry}
     /\ UNCHANGED <<next_context_handle, wrapped>>
(* DrvCreateContext, DrvCreateLayerContext: 0 when the table is full, or   *)
(* when the counter went round to it                                       *)
DrvCreateContext(hdc) ==
  LET entry == [handle |-> RawHandle, hdc |-> hdc]
  IN /\ FreeEntries # {}
     /\ windrv_contexts' = [windrv_contexts EXCEPT ![FirstOf(FreeEntries)] = entry]
     /\ next_context_handle' = RawHandle
     /\ given' = IF RawHandle = 0 THEN given ELSE given \cup {entry}
     /\ wrapped' = (wrapped \/ RawHandle <= 0)

(* A handle that is not found is refused                                   *)
DrvDeleteContext(context) ==
  /\ windrv_lookup_context(context.handle) # {}
  /\ windrv_contexts' = [windrv_contexts EXCEPT ![FirstOf(windrv_lookup_context(context.handle))] = Unused]
  /\ given' = given \ {context}
  /\ UNCHANGED <<next_context_handle, wrapped>>

-----------------------------------------------------------------------------
WindrvNext ==
  \/ \E hdc \in Devices : DrvCreateContext(hdc)
  \/ \E context \in given : DrvDeleteContext(context)

WindrvSpec == WindrvInit /\ [][WindrvNext]_windrvVars

-----------------------------------------------------------------------------
Contexts == [handle : LONG, hdc : Devices]

WindrvTypeOK ==
  /\ windrv_contexts \in [1 .. MaxHandles -> Contexts \cup {Unused}]
  /\ next_context_handle \in LONG
  /\ given \subseteq Contexts /\ wrapped \in BOOLEAN

(* Until the counter has gone round, every context the program has is      *)
(* found by its handle, and no entry of the table is held by another one.  *)
ContextsFoundByHandle ==
  wrapped \/
    /\ \A context \in given : \E i \in DOMAIN windrv_contexts :
         /\ windrv_contexts[i] = context
         /\ windrv_lookup_context(context.handle) = {i}
    /\ \A i \in DOMAIN windrv_contexts \ FreeEntries : windrv_contexts[i] \in given
=============================================================================
