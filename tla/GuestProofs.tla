------------------------------ MODULE GuestProofs ------------------------------
(***************************************************************************)
(* The guest's side as one instance (MCGuest): a behaviour of all the      *)
(* parts side by side is a behaviour of each of them, so that what         *)
(* ClientStateProofs and KernelDriversProofs say of a part is true of the  *)
(* whole; and the types of every part, for any constants.                  *)
(***************************************************************************)
EXTENDS MCGuest, ClientStateProofs, KernelDriversProofs

(* The client's and the server's state of mapped buffers and downloads     *)
(* keeps its types: what a program has asked for lies within its buffer    *)
(* and its memory (glimpl_map_buffer, glimpl_download_buffer)              *)
THEOREM BuffersTyped == MapSpec => []MapTypeOK
<1>1. MapIInv => MapTypeOK
  <2> SUFFICES ASSUME MapTyped, RoundInv PROVE MapTypeOK
    BY DEF MapIInv
  <2>1. ASSUME NEW c \in Apps
        PROVE  /\ held[c].target \in Buffers \cup {Nowhere}
               /\ held[c].offset + held[c].length \in 0 .. Size
               /\ open[c] # {} => held[c].target \in Buffers
    <3>1. held[c] \in Holds /\ held[c].offset + held[c].length <= Size
      BY DEF MapTyped
    <3>2. open[c] # {} => held[c].target \in Buffers
      BY DEF RoundInv, RoundOf
    <3> QED
      BY <3>1, <3>2, SizesAssumption DEF Holds
  <2>2. ASSUME NEW c \in Apps PROVE Len(pixels[c]) <= Size /\ got[c] \in 0 .. Size
    <3>1. got[c] \in 0 .. Size
      BY DEF MapTyped
    <3>2. Len(pixels[c]) = got[c] \/ Len(pixels[c]) = 0
      BY DEF RoundInv, RoundOf
    <3> QED
      BY <3>1, <3>2, SizesAssumption
  <2> QED
    BY <2>1, <2>2 DEF MapTyped, MapTypeOK, Contents
<1> QED
  BY <1>1, MapInvariant, PTL

(* The GLX front end's tables keep their types (glx_contexts,              *)
(* glx_drawables, swap_data)                                               *)
THEOREM GlxTyped == GlxSpec => []GlxTypeOK
<1>1. GlxIInv => GlxTypeOK
  BY DEF GlxIInv
<1> QED
  BY <1>1, GlxInvariant, PTL

(* The handles of the Windows front end stay within a LONG, also when the  *)
(* counter goes round (windrv_alloc_context)                               *)
THEOREM HandlesTyped == WindrvSpec => []WindrvTypeOK
<1>1. WindrvIInv => WindrvTypeOK
  BY DEF WindrvIInv
<1> QED
  BY <1>1, WindrvInvariant, PTL

(* The Windows driver's slots, mappings and interrupts keep their types    *)
THEOREM DriverTyped == DriverSpec => []DriverTypeOK
<1>1. DriverIInv => DriverTypeOK
  BY DEF DriverIInv
<1> QED
  BY <1>1, DriverInvariant, PTL

(* pci_probe is always at one of its steps or labels and touches only the  *)
(* regions the device has                                                  *)
THEOREM ProbeTyped == ProbeSpec => []ProbeTypeOK
<1>1. ProbeIInv => ProbeTypeOK
  BY DEF ProbeIInv
<1> QED
  BY <1>1, ProbeInitHolds, ProbeStep, PTL DEF ProbeSpec

-----------------------------------------------------------------------------
Parts == {"buffers", "arrays", "tables", "swaps", "handles", "windows", "linux"}

(* What one step of the whole is to each part                              *)
LEMMA OnePartMoves ==
  ASSUME [GuestNext]_GuestVars
  PROVE  /\ [MapNext]_mapVars /\ [DrawNext]_arrayVars /\ [GlxNext]_glxVars
         /\ [WindrvNext]_windrvVars /\ [DriverNext]_driverVars /\ [ProbeNext]_probeVars
         /\ part' = part
<1>1. CASE UNCHANGED GuestVars
  BY <1>1 DEF GuestVars
<1>2. CASE GuestNext
  <2>1. part = "buffers" \/ UNCHANGED mapVars
    BY <1>2 DEF GuestNext
  <2>2. part = "arrays" \/ UNCHANGED arrayVars
    BY <1>2 DEF GuestNext
  <2>3. part \in {"tables", "swaps"} \/ UNCHANGED glxVars
    BY <1>2 DEF GuestNext
  <2>4. part = "handles" \/ UNCHANGED windrvVars
    BY <1>2 DEF GuestNext
  <2>5. part = "windows" \/ UNCHANGED driverVars
    BY <1>2 DEF GuestNext
  <2>6. part = "linux" \/ UNCHANGED probeVars
    BY <1>2 DEF GuestNext
  <2>7. /\ part = "buffers" => MapNext
        /\ part = "arrays" => DrawNext
        /\ part \in {"tables", "swaps"} => GlxNext
        /\ part = "handles" => WindrvNext
        /\ part = "windows" => DriverNext
        /\ part = "linux" => ProbeNext
        /\ part' = part
    BY <1>2 DEF GuestNext, GlxNext
  <2> QED
    BY <2>1, <2>2, <2>3, <2>4, <2>5, <2>6, <2>7
<1> QED
  BY <1>1, <1>2

(* The parts do not disturb one another: a behaviour of the guest's side   *)
(* is one of each part, which rests while another moves                    *)
THEOREM PartsAreIndependent ==
  GuestSpec => MapSpec /\ DrawSpec /\ GlxSpec /\ WindrvSpec /\ DriverSpec /\ ProbeSpec
<1>1. GuestInit => MapInit /\ DrawInit /\ GlxInit /\ WindrvInit /\ DriverInit /\ ProbeInit
  BY DEF GuestInit
<1>2. [GuestNext]_GuestVars =>
        /\ [MapNext]_mapVars /\ [DrawNext]_arrayVars /\ [GlxNext]_glxVars
        /\ [WindrvNext]_windrvVars /\ [DriverNext]_driverVars /\ [ProbeNext]_probeVars
  BY OnePartMoves
<1> QED
  BY <1>1, <1>2, PTL DEF GuestSpec, MapSpec, DrawSpec, GlxSpec, WindrvSpec, DriverSpec, ProbeSpec

(* Each part of the guest's side keeps its types, for any constants        *)
THEOREM GuestTyped == GuestSpec => []GuestTypeOK
<1>1. GuestInit => part \in Parts
  BY DEF GuestInit, Parts
<1>2. part \in Parts /\ [GuestNext]_GuestVars => (part \in Parts)'
  BY OnePartMoves
<1>3. GuestSpec => [](part \in Parts)
  BY <1>1, <1>2, PTL DEF GuestSpec
<1>4. /\ part \in Parts
      /\ MapTypeOK /\ ArraysTypeOK /\ GlxTypeOK /\ WindrvTypeOK /\ DriverTypeOK /\ ProbeTypeOK
      => GuestTypeOK
  BY DEF Parts, GuestTypeOK
<1> QED
  BY <1>3, <1>4, PartsAreIndependent, BuffersTyped, ArraysTyped, GlxTyped, HandlesTyped,
     DriverTyped, ProbeTyped, PTL
=============================================================================
