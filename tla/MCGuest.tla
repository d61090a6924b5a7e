------------------------------ MODULE MCGuest ------------------------------
(***************************************************************************)
(* The parts of the guest's side in one instance for TLC: mapped buffers,  *)
(* vertex arrays, the front ends' tables and the two kernel drivers.  They *)
(* share no state, so a behaviour of all of them is one of each side by    *)
(* side; part says which one moves, and their states add up instead of     *)
(* multiplying.  The swaps of GlxTables touch no table, and have a part of *)
(* their own.                                                              *)
(***************************************************************************)
EXTENDS MappedBuffers, VertexArrays, GlxTables, WindrvTables, WindowsDriver, LinuxDriver, TLC

VARIABLE part

MapRanges == {<<1, 2>>, <<0, 1>>}

GuestInit ==
  /\ part \in {"buffers", "arrays", "tables", "swaps", "handles", "windows", "linux"}
  /\ MapInit /\ DrawInit /\ GlxInit /\ WindrvInit /\ DriverInit /\ ProbeInit
  (* a part that rests has one initial state *)
  /\ part # "linux" => mem_bars = {}

GuestNext ==
  /\ UNCHANGED part
  /\ part # "buffers" => UNCHANGED mapVars
  /\ part # "arrays" => UNCHANGED arrayVars
  /\ part \notin {"tables", "swaps"} => UNCHANGED glxVars
  /\ part # "handles" => UNCHANGED windrvVars
  /\ part # "windows" => UNCHANGED driverVars
  /\ part # "linux" => UNCHANGED probeVars
  /\ \/ part = "buffers" /\ MapNext
     \/ part = "arrays" /\ DrawNext
     \/ part \in {"tables", "swaps"} /\ WindowsNext
     \/ part = "tables" /\ TablesNext
     \/ part = "swaps" /\ SwapsNext
     \/ part = "handles" /\ WindrvNext
     \/ part = "windows" /\ DriverNext
     \/ part = "linux" /\ ProbeNext

GuestVars == <<part, mapVars, arrayVars, glxVars, windrvVars, driverVars, probeVars>>
GuestSpec == GuestInit /\ [][GuestNext]_GuestVars

(* The type invariant of the part that moves; the others rest where they   *)
(* began                                                                   *)
GuestTypeOK ==
  \/ part = "buffers" /\ MapTypeOK
  \/ part = "arrays" /\ ArraysTypeOK
  \/ part \in {"tables", "swaps"} /\ GlxTypeOK
  \/ part = "handles" /\ WindrvTypeOK
  \/ part = "windows" /\ DriverTypeOK
  \/ part = "linux" /\ ProbeTypeOK

(* Programs and sessions, the names of buffers, and those of objects and   *)
(* event slots are alike; parts that never move together share the values  *)
GuestSymmetry ==
  Permutations(Apps) \cup Permutations(Buffers) \cup Permutations(Objects)
=============================================================================
