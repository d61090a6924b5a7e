------------------------------ MODULE GlimplCalls ------------------------------
(***************************************************************************)
(* What a GL entry point of the client does with the command buffer, and   *)
(* the helpers of src/client/glimpl.c that the entry points are made of.   *)
(*                                                                         *)
(* A call is a sequence of pieces.  A piece pushes words, and may then     *)
(* hand the buffer over (glimpl_submit) and read return registers.  A call *)
(* has several entries when it may push different words: an upload of no,  *)
(* one or two words stands for all its lengths.  A call that only calls    *)
(* another one, or that one in a loop, is like it.                         *)
(*                                                                         *)
(* What the entry points compute with (sizes of types, spans of pixels,    *)
(* shadows of bindings) is left to other modules; here are the words.      *)
(***************************************************************************)
EXTENDS WireFormat, FiniteSets

Push(words) == [words |-> words, submit |-> FALSE, reads |-> {}]
Submit(words, regs) == [words |-> words, submit |-> TRUE, reads |-> regs]
(* Memory for a command, in a command of its own                           *)
Uploading(n) == Push(Upload(n))

Does(call, pieces) == [call |-> call, like |-> call, says |-> pieces]
(* Entry points that push nothing: STUB(), or only client state            *)
Stubs(calls) == {Does(call, <<>>) : call \in calls}
Alias(call, callee) == {[call |-> call, like |-> callee, says |-> <<>>]}
Aliases(suffix, callees) == UNION {Alias(c \o suffix, c) : c \in callees}

(* Words pushed and left in the buffer                                     *)
SendAs(call, cmd, words) == {Does(call, <<Push(Cmd(cmd, words))>>)}
Sends(forms) == UNION {SendAs(f[1], f[1], f[2]) : f \in forms}
SendsText(names, lead) == Sends({<<n, lead \o t>> : n \in names, t \in Texts})
CountedSends(names, lead, item) ==
  Sends({<<n, lead \o Count(k) \o Times(k, item)>> : n \in names, k \in Sizes})

(* Words handed over at once, and an answer read from the registers        *)
AskAs(call, cmd, words, reg) == {Does(call, <<Submit(Cmd(cmd, words), {reg})>>)}
Asks(forms, reg) == UNION {AskAs(f[1], f[1], f[2], reg) : f \in forms}
AsksText(names, lead) ==
  Asks({<<n, lead \o t>> : n \in names, t \in Texts}, "ret")
(* The number of values is in RETVAL and they are in RETVAL_V when pname   *)
(* asks for several, else the one value is in RETVAL.                      *)
AsksList(names, lead) ==
  {Does(n, <<Submit(Cmd(n, lead \o Yes), {"ret", "retv"})>>) : n \in names}
    \cup Asks(Forms(names, lead \o No), "ret")

(* Sources of shaders: counted texts, handed over at once                  *)
CountedTextSends(names, lead) ==
  {Does(n, <<Submit(Cmd(n, lead \o t), {})>>) : n \in names, t \in CountedTexts}
CountedTextAsks(names, lead) ==
  {Does(n, <<Submit(Cmd(n, lead \o t), {"ret"})>>) :
     n \in names, t \in CountedTexts}

(* Memory uploaded before the command that uses it                         *)
UploadAs(call, cmd, words) ==
  {Does(call, <<Uploading(n), Push(Cmd(cmd, words))>>) : n \in Sizes}
Uploads(forms) == UNION {UploadAs(f[1], f[1], f[2]) : f \in forms}
UploadAsks(forms, reg) ==
  {Does(f[1], <<Uploading(n), Submit(Cmd(f[1], f[2]), {reg})>>) :
     f \in forms, n \in Sizes}

(* glimpl_buffer_store_data: the memory is optional, a flag says whether   *)
(* there is any.                                                           *)
BufferStores(names) ==
  Uploads(Forms(names, I(2) \o Yes \o I(1))) \cup Sends(Forms(names, I(2) \o No \o I(1)))

(* glimpl_upload_texture: without pixels the server is told to use none    *)
(* Faulty variant: it is told nothing.                                     *)
NoPixelsForgotten == {<<>>} \cup {<<Uploading(n)>> : n \in Sizes}
Pixels == {<<Push(Cmd("VP_NULL", <<>>))>>} \cup {<<Uploading(n)>> : n \in Sizes}
(* glimpl_texture_image and glimpl_texture_subimage, of 1 to 3 dimensions  *)
TextureImage(cmd, dims) ==
  {Does(cmd, p \o <<Push(Cmd(cmd, I(6 + dims)))>>) : p \in Pixels}
TextureSubImage(cmd, dims) ==
  {Does(cmd, p \o <<Push(Cmd(cmd, I(4 + 2 * dims)))>>) : p \in Pixels}
(* glCompressedTexImageND, for whole words (see RaggedImage), and          *)
(* glimpl_compressed_texture_subimage                                      *)
CompressedImage(cmd, dims) ==
  {Does(cmd, <<Submit(<<>>, {}), Uploading(n), Submit(Cmd(cmd, I(5 + dims)), {})>>) :
     n \in Sizes}
CompressedSubImage(cmd, dims) == UploadAs(cmd, cmd, I(4 + 2 * dims))

(* glimpl_download_buffer: a block at a time through RETVAL_V              *)
Download(blocks) == [b \in 1..blocks |-> Submit(Cmd("VP_DOWNLOAD", I(1)), {"retv"})]
(* glGetTexImage asks for one to three dimensions first                    *)
TextureReads(names) ==
  {Does(n, [d \in 1..dims |-> Submit(Cmd("GETTEXLEVELPARAMETERIV", I(3)), {"retv"})]
             \o <<Submit(Cmd(n, I(5)), {})>> \o Download(b)) :
     n \in names, dims \in 1..3, b \in Sizes}

(* glimpl_map_buffer_range: a whole buffer, whose size is asked for first, *)
(* or a range of one (but see EmptyRange)                                  *)
WholeMap(cmd, ask) ==
  {Does(cmd, <<Submit(Cmd(ask, I(2)), {"ret"}), Submit(Cmd(cmd, I(2)), {})>>
               \o Download(b)) : b \in Sizes}
RangeMaps(names) ==
  {Does(n, <<Submit(Cmd(n, I(4)), {})>> \o Download(b)) : n \in names, b \in Sizes}
(* glimpl_unmap_buffer: nothing when another target is mapped              *)
Unmaps(names) == UploadAsks(Forms(names, I(2)), "ret") \cup Stubs(names)
(* glimpl_flush_mapped_buffer_range                                        *)
Flushes(names) == Uploads(Forms(names, I(3)))

(* glMap2d and glMap2f: one command per direction                          *)
Map2Calls(names) ==
  {Does(n, <<Uploading(a), Push(Cmd("MAP1F", I(1) \o F(2) \o I(2))),
             Uploading(b), Push(Cmd("MAP1F", I(1) \o F(2) \o I(2)))>>) :
     n \in names, a, b \in Sizes}

-----------------------------------------------------------------------------
(* Draws.  Arrays in the program's memory are uploaded at each draw, and   *)
(* arrays in buffers given by the old gl*Pointer calls are named again:    *)
(* glimpl_push_client_managed_draw_state.                                  *)

Arrays == {"normal", "color", "texcoord", "vertex"}
ArrayStates == [Arrays -> {"off", "client", "buffer"}]
(* One array, or none, or all: what each pushes does not depend on others  *)
TypicalArrays ==
  {m \in ArrayStates : Cardinality({a \in Arrays : m[a] # "off"}) <= 1}
    \cup {[a \in Arrays |-> "client"]}
    \cup {[a \in Arrays |-> IF a = "vertex" THEN "client" ELSE "buffer"]}

(* glimpl_push_client_pointer and one gl*Pointer command                   *)
(* Faulty variant: the pointer before the flag.                            *)
PointerFirst(state, cmd, lead) ==
  CASE state = "off"    -> <<>>
    [] state = "client" -> <<Uploading(1), Push(Cmd(cmd, lead \o Wide \o Yes))>>
    [] state = "buffer" -> <<Push(Cmd(cmd, lead \o Wide \o No))>>
Pointer(state, cmd, lead) ==
  CASE state = "off"    -> <<>>
    [] state = "client" -> <<Uploading(1), Push(Cmd(cmd, lead \o Yes \o Wide))>>
    [] state = "buffer" -> <<Push(Cmd(cmd, lead \o No \o Wide))>>
(* The texture unit is selected after the upload, and the program's own    *)
(* (here another one) at the end.                                          *)
TexCoordPointer(state) ==
  IF state = "off" THEN <<>> ELSE
    (IF state = "client" THEN <<Uploading(1)>> ELSE <<>>)
      \o <<Push(Cmd("CLIENTACTIVETEXTURE", I(1))), Push(Cmd("ENABLECLIENTSTATE", I(1))),
           Push(Cmd("TEXCOORDPOINTER",
                    I(3) \o (IF state = "client" THEN Yes ELSE No) \o Wide)),
           Push(Cmd("CLIENTACTIVETEXTURE", I(1)))>>
(* glimpl_push_client_pointers                                             *)
ClientPointers(m) ==
  Pointer(m["normal"], "NORMALPOINTER", I(2))
    \o Pointer(m["color"], "COLORPOINTER", I(3))
    \o TexCoordPointer(m["texcoord"])
    \o Pointer(m["vertex"], "VERTEXPOINTER", I(3))
(* glimpl_push_vertex_attrib_pointers: only those in the program's memory  *)
AttribPointers ==
  {<<>>} \cup
  {<<Uploading(1), Push(Cmd(f[1], f[2] \o Wide \o Yes))>> :
     f \in {<<"VERTEXATTRIBPOINTER", I(5)>>, <<"VERTEXATTRIBIPOINTER", I(4)>>,
            <<"VERTEXATTRIBLPOINTER", I(4)>>}}

(* The array buffer is unbound around pointers into the program's memory   *)
Unbound(pieces) ==
  <<Push(Cmd("BINDBUFFER", I(2)))>> \o pieces \o <<Push(Cmd("BINDBUFFER", I(2)))>>
ManagedStates ==
  LET plain == {attrib \o ClientPointers(m) :
                  attrib \in AttribPointers,
                  m \in {x \in TypicalArrays : \E a \in Arrays : x[a] = "client"}}
               \cup (AttribPointers \ {<<>>})
  IN plain \cup {Unbound(p) : p \in plain}
UnmanagedStates ==
  {ClientPointers(m) :
     m \in {x \in TypicalArrays : \A a \in Arrays : x[a] # "client"}}
DrawStates == ManagedStates \cup UnmanagedStates

Draws(names, words) ==
  {Does(n, d \o <<Push(Cmd(n, words))>>) : n \in names, d \in DrawStates}
(* glimpl_prepare_draw_elements: indices in the program's memory are       *)
(* uploaded after the arrays; with an element buffer, or without indices,  *)
(* nothing is.  It gives up on arrays in the program's memory when the     *)
(* indices are in a buffer and the call does not say how far they go.      *)
IndexedDrawAs(call, cmd, lead, trail) ==
  {Does(call, d \o <<Uploading(1), Push(Cmd(cmd, lead \o Wide \o Yes \o trail))>>) :
     d \in DrawStates}
    \cup SendAs(call, cmd, lead \o Wide \o No \o trail)
IndexedDraws(names, lead, trail) ==
  UNION {IndexedDrawAs(n, n, lead, trail) : n \in names} \cup Stubs(names)
(* glDrawRangeElements... say how far the indices go                       *)
HintedDraws(call, cmd, lead, trail) ==
  IndexedDrawAs(call, cmd, lead, trail)
    \cup {Does(call, d \o <<Push(Cmd(cmd, lead \o Wide \o No \o trail))>>) :
            d \in ManagedStates}

-----------------------------------------------------------------------------
(* The commands that are not GL's: a context when the library is set up,   *)
(* and a frame (glimpl_swap_buffers)                                       *)
OwnCalls ==
  AskAs("shm_create_context", "CREATE_CONTEXT", <<>>, "ret")
    \cup {Does("glimpl_swap_buffers", <<Submit(Cmd("SWAP_BUFFERS", I(4)), {})>>)}

(* Arguments for which a call pushes other words than the tables say.  An  *)
(* empty text: push_string finds a zero in no word at all and pushes none. *)
EmptyText ==
  AskAs("GETUNIFORMLOCATION", "GETUNIFORMLOCATION", I(1), "ret")
    \cup SendAs("BINDATTRIBLOCATION", "BINDATTRIBLOCATION", I(2))
(* A compressed image of five bytes: glCompressedTexImage2D counts one     *)
(* word and copies two.                                                    *)
RaggedImage ==
  {Does("COMPRESSEDTEXIMAGE2D",
        <<Submit(<<>>, {}), Push(Cmd("VP_UPLOAD", Count(1) \o Raw(2))),
          Submit(Cmd("COMPRESSEDTEXIMAGE2D", I(7)), {})>>)}
(* A range of length zero is taken for a whole buffer, but the command is  *)
(* still that of a range.                                                  *)
EmptyRange == WholeMap("MAPBUFFERRANGE", "GETBUFFERPARAMETERIV")
CornerCases == EmptyText \cup RaggedImage \cup EmptyRange
=============================================================================
