--------------------------- MODULE MappedBuffers ---------------------------
(***************************************************************************)
(* Results that take several buffers, and mapped GL buffers.               *)
(*   client  glimpl_map_buffer_range, glimpl_unmap_buffer,                 *)
(*           glimpl_flush_mapped_buffer_range, glimpl_download_buffer and  *)
(*           glGetTexImage (src/client/glimpl.c); one memory for all of a  *)
(*           program's mappings (src/client/scratch.c)                     *)
(*   server  map_buffer, download_target and download_offset, one of each  *)
(*           for all programs (src/server/processor.c)                     *)
(*                                                                         *)
(* A step is one hand-over: programs wait for the server, which runs one   *)
(* buffer at a time.  A buffer of GL and an image hold Size units, a       *)
(* VP_DOWNLOAD carries Block of them (3072 bytes in the code).  A buffer   *)
(* is named alike when it is mapped and unmapped.                          *)
(*                                                                         *)
(* A buffer that overflows is dropped and the call goes on.  A copy from   *)
(* or to a null or unset address ends the server; memory that is not what  *)
(* the code takes it for holds Junk, that is, anything.                    *)
(***************************************************************************)
EXTENDS Integers, Sequences

CONSTANTS Apps,     \* the programs
          Buffers,  \* the GL buffers of each program's context
          Size,     \* units in a GL buffer, and in an image
          Block,    \* units in one download
          Ranges,   \* the ranges <<offset, length>> that programs map and flush
          MaxCalls, \* bound on the mappings, readbacks and compilations
          Junk,     \* a unit of unknown contents
          Scratch,  \* the address of the server's scratch memory
          Nowhere   \* NULL, or the unset value of map_buffer

ASSUME SizesAssumption == Size \in Nat \ {0} /\ Block \in Nat \ {0} /\ MaxCalls \in Nat
ASSUME RangesAssumption == \A r \in Ranges : /\ r \in Nat \X (Nat \ {0})
                                           /\ r[1] + r[2] <= Size
ASSUME AddressAssumption ==
         /\ Scratch # Nowhere /\ Junk \notin Apps
         /\ \A at \in [app : Apps, buf : Buffers, off : 0 .. Size - 1] : at \notin {Scratch, Nowhere}

(* The contents of a buffer at first (bit 0) or written by its program,    *)
(* and of a program's image                                                *)
Unit(kind, c, b, i, bit) == [kind |-> kind, app |-> c, buf |-> b, at |-> i, bit |-> bit]
NoFlush == [off |-> 0, bytes |-> <<>>]

VARIABLES
  (* The programs *)
  phase,    \* "idle", or what it downloads: "map" or "image"
  held,     \* glimpl_map_buffer: target, offset and length
  mem,      \* the memory of the mapping: address of scratch.c
  pixels,   \* what the current glGetTexImage received
  got,      \* units received of the current download
  open,     \* the buffers the program takes for mapped
  flushed,  \* a range that was flushed and not handed over yet
  (* GL *)
  data,     \* the contents of the buffers
  mapped,   \* the buffers that are mapped
  (* The server *)
  map_buffer, download_target, download_offset,
  scratch,  \* the program whose image is in the scratch memory, or Junk
  alive,    \* FALSE after a copy from or to NULL
  (* History *)
  calls,    \* the calls that are bounded
  mixed,    \* programs whose download was disturbed
  crossed,  \* a mapping was made beside another one, a call was dropped, or
            \* the size of a buffer was read as 0
  want      \* what each program takes for the contents of its buffers

clientVars == <<phase, held, mem, pixels, got, open, flushed>>
glVars == <<data, mapped>>
targetVars == <<download_target, download_offset>>
historyVars == <<calls, mixed, crossed, want>>
mapVars == <<clientVars, glVars, map_buffer, targetVars, scratch, alive, historyVars>>

Fresh == [c \in Apps |-> [b \in Buffers |->
            [i \in 1 .. Size |-> Unit("buffer", c, b, i, 0)]]]
MapInit ==
  /\ phase = [c \in Apps |-> "idle"]
  /\ held = [c \in Apps |-> [target |-> Nowhere, offset |-> 0, length |-> 0]]
  /\ mem = [c \in Apps |-> [i \in 1 .. Size |-> Junk]]
  /\ pixels = [c \in Apps |-> <<>>] /\ got = [c \in Apps |-> 0]
  /\ open = [c \in Apps |-> {}] /\ flushed = [c \in Apps |-> NoFlush]
  /\ data = Fresh /\ mapped = [c \in Apps |-> {}]
  /\ map_buffer = Nowhere
  /\ download_target = Nowhere /\ download_offset = 0
  /\ scratch = Junk /\ alive = TRUE
  /\ calls = 0 /\ mixed = {} /\ crossed = FALSE /\ want = Fresh

-----------------------------------------------------------------------------
(* What the server's copies do                                             *)

(* Units n + 1 .. n + count of the memory at an address                    *)
Read(at, n, count) ==
  [i \in 1 .. count |->
     IF at = Scratch
     THEN IF scratch # Junk /\ n + i <= Size
          THEN Unit("image", scratch, Scratch, n + i, 0) ELSE Junk
     ELSE IF at.buf \in mapped[at.app] /\ at.off + n + i <= Size
          THEN data[at.app][at.buf][at.off + n + i] ELSE Junk]

(* The contents of a buffer with bytes copied in after off units           *)
Over(old, off, bytes) ==
  [i \in 1 .. Size |-> IF i - off \in DOMAIN bytes THEN bytes[i - off] ELSE old[i]]
(* Faulty variant: a flushed range is copied to the start of the mapping.  *)
CopyAtStart(at, off, bytes) ==
  [data EXCEPT ![at.app][at.buf] = Over(@, at.off, bytes)]
(* memcpy to off units behind an address                                   *)
Copy(at, off, bytes) ==
  IF at.buf \in mapped[at.app]
  THEN [data EXCEPT ![at.app][at.buf] = Over(@, at.off + off, bytes)]
  ELSE [data EXCEPT ![at.app][at.buf] =
          Over(@, at.off + off, [i \in DOMAIN bytes |-> Junk])]

(* The server ends at a copy through a null pointer; what the programs do  *)
(* then is left out                                                        *)
ServerEnds ==
  /\ alive' = FALSE
  /\ UNCHANGED <<clientVars, glVars, map_buffer, targetVars, scratch,
                 mixed, crossed, want>>

(* A program that is not waiting makes a call; those that fill a memory    *)
(* are bounded                                                             *)
Free(c) == alive /\ phase[c] = "idle"
Call(c) == Free(c) /\ calls < MaxCalls /\ calls' = calls + 1

(* The downloads of other programs that a hand-over of this one disturbs:  *)
(* all of them when it moves the target or the offset, those of a mapping  *)
(* it writes to, or those of an image whose memory it takes                *)
Moved(c) == mixed \cup {p \in Apps \ {c} : phase[p] # "idle"}
Overwritten(c) == mixed \cup {p \in Apps \ {c} : phase[p] = "map" /\ p = map_buffer.app}
Reused(c) == mixed \cup {p \in Apps \ {c} : phase[p] = "image"}

-----------------------------------------------------------------------------
(* glMapBuffer, glMapBufferRange and their named forms                     *)

(* Faulty variant: a new mapping keeps the offset of the last download.    *)
ServeMapKeepsOffset(c, b, offset) ==
  LET at == IF b \in mapped[c] THEN Nowhere ELSE [app |-> c, buf |-> b, off |-> offset]
  IN /\ map_buffer' = at /\ download_target' = at
     /\ mapped' = [mapped EXCEPT ![c] = @ \cup {b}]
     /\ UNCHANGED <<download_offset, data, scratch, alive>>
(* The server maps; GL refuses a buffer that is mapped with NULL           *)
ServeMap(c, b, offset) ==
  LET at == IF b \in mapped[c] THEN Nowhere ELSE [app |-> c, buf |-> b, off |-> offset]
  IN /\ map_buffer' = at /\ download_target' = at /\ download_offset' = 0
     /\ mapped' = [mapped EXCEPT ![c] = @ \cup {b}]
     /\ UNCHANGED <<data, scratch, alive>>

Hold(c, b, offset, length) ==
  /\ held' = [held EXCEPT ![c] = [target |-> b, offset |-> offset, length |-> length]]
  /\ open' = [open EXCEPT ![c] = @ \cup {b}]
  /\ phase' = [phase EXCEPT ![c] = "map"] /\ got' = [got EXCEPT ![c] = 0]
  /\ UNCHANGED <<mem, pixels, flushed, want>>

(* Another mapping is open, of this program or of another one              *)
Beside == \E p \in Apps : open[p] # {}

MapRange(c, b, offset, length) ==
  /\ Call(c) /\ b \notin open[c] /\ flushed[c] = NoFlush
  /\ Hold(c, b, offset, length)
  /\ crossed' = (crossed \/ Beside)
  /\ ServeMap(c, b, offset)
  /\ mixed' = Moved(c) \ {c}

(* The buffer with the request overflowed: the server knows nothing of it  *)
MapDropped(c, b, offset, length) ==
  /\ Call(c) /\ b \notin open[c] /\ flushed[c] = NoFlush
  /\ Hold(c, b, offset, length)
  /\ crossed' = TRUE /\ mixed' = mixed \cup {c}
  /\ UNCHANGED <<glVars, map_buffer, targetVars, scratch, alive>>

(* glMapBuffer asks for the size first: 0 when that buffer is dropped      *)
MapWhole(c, b) ==
  /\ Call(c) /\ b \notin open[c] /\ flushed[c] = NoFlush
  /\ \E dropped \in BOOLEAN :
       /\ Hold(c, b, 0, IF dropped THEN 0 ELSE Size)
       /\ crossed' = (crossed \/ dropped \/ Beside)
  /\ ServeMap(c, b, 0)
  /\ mixed' = Moved(c) \ {c}

(* glMapNamedBuffer asks, too, and always reads 0: the server puts the     *)
(* size at RETVAL_V, the program takes RETVAL, which is zero in the memory *)
(* of a shared hand-over.  The program has the whole buffer for mapped,    *)
(* and none of it is downloaded or sent back.                              *)
MapNamed(c, b) ==
  /\ Call(c) /\ b \notin open[c] /\ flushed[c] = NoFlush
  /\ Hold(c, b, 0, 0)
  /\ crossed' = TRUE
  /\ ServeMap(c, b, 0)
  /\ mixed' = Moved(c) \ {c}

-----------------------------------------------------------------------------
(* glGetTexImage: the server's GL writes the image to the scratch memory   *)

ReadImage(c) ==
  /\ Call(c) /\ flushed[c] = NoFlush
  /\ phase' = [phase EXCEPT ![c] = "image"]
  /\ got' = [got EXCEPT ![c] = 0] /\ pixels' = [pixels EXCEPT ![c] = <<>>]
  /\ \/ /\ scratch' = c
        /\ download_target' = Scratch /\ download_offset' = 0
        /\ mixed' = Moved(c) \ {c}
     \/ /\ mixed' = mixed \cup {c}                              \* dropped
        /\ UNCHANGED <<scratch, targetVars>>
  /\ UNCHANGED <<held, mem, open, flushed, glVars, map_buffer, alive, crossed, want>>

(* The sources of a shader are put together in the same memory             *)
Compile(c) ==
  /\ Call(c) /\ flushed[c] = NoFlush
  /\ scratch' = Junk
  /\ mixed' = Reused(c)
  /\ UNCHANGED <<clientVars, glVars, map_buffer, targetVars, alive, crossed, want>>

-----------------------------------------------------------------------------
(* glimpl_download_buffer: a round for every block                         *)

Length(c) == IF phase[c] = "map" THEN held[c].length ELSE Size

Download(c) ==
  LET count == IF Length(c) - got[c] < Block THEN Length(c) - got[c] ELSE Block
      bytes == Read(download_target, download_offset, count)
  IN /\ alive /\ phase[c] # "idle" /\ got[c] < Length(c)
     /\ UNCHANGED calls
     /\ IF download_target = Nowhere THEN ServerEnds
        ELSE /\ download_offset' = download_offset + count
             /\ got' = [got EXCEPT ![c] = @ + count]
             /\ IF phase[c] = "map"
                THEN mem' = [mem EXCEPT ![c] = Over(@, got[c], bytes)] /\ UNCHANGED pixels
                ELSE pixels' = [pixels EXCEPT ![c] = @ \o bytes] /\ UNCHANGED mem
             (* the offset also moves under the others' downloads *)
             /\ mixed' = Moved(c)
             /\ UNCHANGED <<phase, held, open, flushed, glVars, map_buffer,
                            download_target, scratch, alive, crossed, want>>

(* The program takes what it received                                      *)
Downloaded(c) ==
  /\ alive /\ phase[c] # "idle" /\ got[c] = Length(c)
  /\ phase' = [phase EXCEPT ![c] = "idle"]
  /\ got' = [got EXCEPT ![c] = 0] /\ pixels' = [pixels EXCEPT ![c] = <<>>]
  /\ UNCHANGED <<held, mem, open, flushed, glVars, map_buffer, targetVars,
                 scratch, alive, historyVars>>

-----------------------------------------------------------------------------
(* The program writes to its mapping, flushes and unmaps                   *)

Write(c) ==
  /\ Free(c) /\ open[c] # {}
  /\ mem' = [mem EXCEPT ![c] = [i \in 1 .. Size |->
               IF i <= held[c].length
               THEN Unit("buffer", c, held[c].target, held[c].offset + i, 1) ELSE @[i]]]
  /\ UNCHANGED <<phase, held, pixels, got, open, flushed, glVars, map_buffer,
                 targetVars, scratch, alive, historyVars>>

(* glFlushMappedNamedBufferRange uploads the range and does not wait       *)
Flush(c, offset, length) ==
  /\ Free(c) /\ flushed[c] = NoFlush
  /\ held[c].target \in open[c] /\ offset + length <= held[c].length
  /\ flushed' = [flushed EXCEPT ![c] =
       [off |-> offset, bytes |-> [i \in 1 .. length |-> mem[c][offset + i]]]]
  /\ UNCHANGED <<phase, held, mem, pixels, got, open, glVars, map_buffer,
                 targetVars, scratch, alive, historyVars>>

(* What the program takes for the contents when bytes reached its buffer   *)
Arrives(c, offset, bytes) ==
  want' = [want EXCEPT ![c][held[c].target] = Over(@, held[c].offset + offset, bytes)]

(* The next hand-over takes the flush along.  The form without a name      *)
(* (glFlushMappedBufferRange) copies nothing: its range arrives with the   *)
(* unmapping.                                                              *)
SendFlush(c) ==
  /\ alive /\ flushed[c] # NoFlush
  /\ UNCHANGED calls
  /\ IF map_buffer = Nowhere THEN ServerEnds
     ELSE /\ flushed' = [flushed EXCEPT ![c] = NoFlush]
          /\ \/ /\ data' = Copy(map_buffer, flushed[c].off, flushed[c].bytes)
                /\ Arrives(c, flushed[c].off, flushed[c].bytes)
                /\ mixed' = Overwritten(c)
             \/ UNCHANGED <<data, want, mixed>>                 \* dropped
          /\ UNCHANGED <<phase, held, mem, pixels, got, open, mapped, map_buffer,
                         targetVars, scratch, alive, crossed>>

Sent(c) == SubSeq(mem[c], 1, held[c].length)
Unmap(c, b) ==
  /\ Free(c) /\ b \in open[c] /\ held[c].target = b /\ flushed[c] = NoFlush
  /\ UNCHANGED calls
  /\ IF map_buffer = Nowhere THEN ServerEnds
     ELSE /\ open' = [open EXCEPT ![c] = @ \ {b}]
          /\ \/ /\ data' = Copy(map_buffer, 0, Sent(c))
                /\ mapped' = [mapped EXCEPT ![c] = @ \ {b}]
                /\ Arrives(c, 0, Sent(c))
                /\ mixed' = Overwritten(c)
                /\ UNCHANGED crossed
             \/ /\ crossed' = TRUE                              \* dropped
                /\ UNCHANGED <<data, mapped, want, mixed>>
          /\ UNCHANGED <<phase, held, mem, pixels, got, flushed, map_buffer,
                         targetVars, scratch, alive>>

(* Another buffer was mapped since: FALSE, and nothing is sent             *)
UnmapRefused(c, b) ==
  /\ Free(c) /\ b \in open[c] /\ held[c].target # b /\ flushed[c] = NoFlush
  /\ open' = [open EXCEPT ![c] = @ \ {b}]
  /\ UNCHANGED <<phase, held, mem, pixels, got, flushed, glVars, map_buffer,
                 targetVars, scratch, alive, historyVars>>

-----------------------------------------------------------------------------
MapNext ==
  \E c \in Apps :
    \/ \E b \in Buffers, r \in Ranges : \/ MapRange(c, b, r[1], r[2])
                                        \/ MapDropped(c, b, r[1], r[2])
    \/ \E b \in Buffers : \/ MapWhole(c, b) \/ MapNamed(c, b)
                           \/ Unmap(c, b) \/ UnmapRefused(c, b)
    \/ \E r \in Ranges : Flush(c, r[1], r[2])
    \/ ReadImage(c) \/ Compile(c) \/ Download(c) \/ Downloaded(c)
    \/ Write(c) \/ SendFlush(c)

MapSpec == MapInit /\ [][MapNext]_mapVars

-----------------------------------------------------------------------------
Units == {Unit("buffer", c, b, i, bit) : c \in Apps, b \in Buffers, i \in 1 .. Size, bit \in {0, 1}}
         \cup {Unit("image", c, Scratch, i, 0) : c \in Apps, i \in 1 .. Size} \cup {Junk}
Mappings == [app : Apps, buf : Buffers, off : 0 .. Size - 1]

MapTypeOK ==
  /\ phase \in [Apps -> {"idle", "map", "image"}]
  /\ \A c \in Apps : /\ held[c].target \in Buffers \cup {Nowhere}
                     /\ held[c].offset + held[c].length \in 0 .. Size
                     /\ open[c] # {} => held[c].target \in Buffers
                     /\ Len(pixels[c]) <= Size /\ got[c] \in 0 .. Size
  /\ mem \in [Apps -> [1 .. Size -> Units]]
  /\ open \in [Apps -> SUBSET Buffers] /\ mapped \in [Apps -> SUBSET Buffers]
  /\ \A c \in Apps, b \in Buffers :
       data[c][b] \in [1 .. Size -> Units] /\ want[c][b] \in [1 .. Size -> Units]
  /\ map_buffer \in Mappings \cup {Nowhere}
  /\ download_target \in Mappings \cup {Nowhere, Scratch}
  /\ scratch \in Apps \cup {Junk} /\ alive \in BOOLEAN
  /\ mixed \subseteq Apps /\ crossed \in BOOLEAN /\ calls \in 0 .. MaxCalls

(* What a program receives block by block is the mapped range of its       *)
(* buffer, or its image, from the first unit to the last, though the       *)
(* server keeps one target and one offset for all programs - as long as    *)
(* the request was not dropped and no other program mapped, unmapped or    *)
(* read back meanwhile.                                                    *)
DownloadsReadSource ==
  \A c \in Apps \ mixed :
    /\ phase[c] = "map" =>
         \A i \in 1 .. got[c] :
           mem[c][i] = data[c][held[c].target][held[c].offset + i]
    /\ phase[c] = "image" =>
         pixels[c] = [i \in 1 .. got[c] |-> Unit("image", c, Scratch, i, 0)]

(* What a program wrote to a mapping, flushed by name or unmapped, is in   *)
(* its buffer and nowhere else, as long as no two mappings were ever open  *)
(* at a time, no call was dropped and glMapNamedBuffer was not used: the   *)
(* one map_buffer of the server and the one of the client belong to the    *)
(* latest mapping.                                                         *)
WritesReachBuffer == crossed \/ data = want
=============================================================================
