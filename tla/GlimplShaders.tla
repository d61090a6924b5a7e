---------------------------- MODULE GlimplShaders ---------------------------
(***************************************************************************)
(* The GL entry points of GL 3 to 4.6 whose arguments are single values,   *)
(* in the order of the file, and the words each pushes.  See GlimplCalls   *)
(* for the notation.                                                       *)
(***************************************************************************)
EXTENDS GlimplCalls

(* glStencilMaskSeparate .. glVertexAttrib2s *)
StencilAndUniforms ==
  Sends(Family("UNIFORM", I(1), {2, 3, 4}, {"F", "I"})
    \cup Family("VERTEXATTRIB", I(1), {1, 2}, {"D", "F", "S"})
    \cup Forms({"STENCILMASKSEPARATE", "UNIFORM1I"}, I(2))
    \cup Forms({"DISABLEVERTEXATTRIBARRAY", "VALIDATEPROGRAM"}, I(1)))
  \cup Asks(Forms({"ISPROGRAM", "ISSHADER"}, I(1)), "ret")

(* glVertexAttrib3d .. glEndConditionalRender *)
VertexAttribsAndIndexedEnables ==
  Sends(Family("VERTEXATTRIB", I(1), {3, 4}, {"D", "F", "S"})
    \cup Forms({"VERTEXATTRIB4NUB", "COLORMASKI", "BINDBUFFERRANGE"}, I(5))
    \cup Forms({"ENABLEI", "DISABLEI", "CLAMPCOLOR",
                 "BEGINCONDITIONALRENDER"}, I(2))
    \cup Forms({"BEGINTRANSFORMFEEDBACK"}, I(1))
    \cup Forms({"ENDTRANSFORMFEEDBACK", "ENDCONDITIONALRENDER"}, <<>>)
    \cup Forms({"BINDBUFFERBASE"}, I(3)))
  \cup Asks(Forms({"ISENABLEDI"}, I(2)), "ret")

(* glVertexAttribI1i .. glIsFramebuffer *)
IntegerAttribsAndUniforms ==
  Sends(Family("VERTEXATTRIBI", I(1), {1, 2, 3, 4}, {"I", "UI"})
    \cup Family("UNIFORM", I(1), {1, 2, 3, 4}, {"UI"})
    \cup Forms({"CLEARBUFFERFI"}, I(2) \o F(1) \o I(1))
    \cup Forms({"BINDRENDERBUFFER"}, I(2))
    \cup Forms({"RENDERBUFFERSTORAGE"}, I(4)))
  \cup Asks(Forms({"ISRENDERBUFFER", "ISFRAMEBUFFER"}, I(1)), "ret")

(* glBindFramebuffer .. glCopyBufferSubData *)
FramebufferObjects ==
  Sends(Forms({"BINDFRAMEBUFFER"}, I(2))
    \cup Forms({"FRAMEBUFFERTEXTURE1D", "FRAMEBUFFERTEXTURE2D",
                 "RENDERBUFFERSTORAGEMULTISAMPLE", "FRAMEBUFFERTEXTURELAYER",
                 "COPYBUFFERSUBDATA"}, I(5))
    \cup Forms({"FRAMEBUFFERTEXTURE3D"}, I(6))
    \cup Forms({"FRAMEBUFFERRENDERBUFFER"}, I(4))
    \cup Forms({"GENERATEMIPMAP", "PRIMITIVERESTARTINDEX"}, I(1))
    \cup Forms({"BLITFRAMEBUFFER"}, I(10))
    \cup Forms({"TEXBUFFER"}, I(3)))
  \cup Asks(Forms({"CHECKFRAMEBUFFERSTATUS", "ISVERTEXARRAY"}, I(1)), "ret")
  \cup Flushes({"FLUSHMAPPEDBUFFERRANGE"})
  \cup Draws({"DRAWARRAYSINSTANCED"}, I(4))

(* glUniformBlockBinding .. glTexCoordP2ui *)
SamplersAndPackedAttribs ==
  Sends(Forms({"UNIFORMBLOCKBINDING", "SAMPLERPARAMETERI"}, I(3))
    \cup Forms({"PROVOKINGVERTEX"}, I(1))
    \cup Forms({"FRAMEBUFFERTEXTURE", "VERTEXATTRIBP1UI",
                 "VERTEXATTRIBP2UI", "VERTEXATTRIBP3UI", "VERTEXATTRIBP4UI"},
                 I(4))
    \cup Forms({"SAMPLEMASKI", "BINDSAMPLER", "QUERYCOUNTER",
                 "VERTEXATTRIBDIVISOR", "VERTEXP3UI", "VERTEXP4UI",
                 "VERTEXP2UI", "TEXCOORDP1UI", "TEXCOORDP2UI"}, I(2))
    \cup Forms({"SAMPLERPARAMETERF"}, I(2) \o F(1)))
  \cup Asks(Forms({"ISSAMPLER"}, I(1)), "ret")

(* glTexCoordP3ui .. glUniform4d *)
PackedVerticesAndIndexedBlends ==
  Sends(Family("UNIFORM", I(1), {1, 2, 3, 4}, {"D"})
    \cup Forms({"TEXCOORDP3UI", "TEXCOORDP4UI", "NORMALP3UI", "COLORP3UI",
                 "COLORP4UI", "SECONDARYCOLORP3UI", "BLENDEQUATIONI"}, I(2))
    \cup Forms({"MULTITEXCOORDP4UI", "BLENDEQUATIONSEPARATEI",
                 "BLENDFUNCI", "MULTITEXCOORDP1UI", "MULTITEXCOORDP2UI",
                 "MULTITEXCOORDP3UI"}, I(3))
    \cup Forms({"MINSAMPLESHADING"}, F(1))
    \cup Forms({"BLENDFUNCSEPARATEI"}, I(5)))

(* glPatchParameteri .. glProgramUniform1ui *)
TransformFeedbackAndPipelines ==
  Sends(Family("PROGRAMUNIFORM", I(2), {1}, {"I", "F", "D", "UI"})
    \cup Forms({"PATCHPARAMETERI", "BINDTRANSFORMFEEDBACK",
                 "DRAWTRANSFORMFEEDBACK", "ENDQUERYINDEXED",
                 "ACTIVESHADERPROGRAM"}, I(2))
    \cup Forms({"PAUSETRANSFORMFEEDBACK", "RESUMETRANSFORMFEEDBACK",
                 "RELEASESHADERCOMPILER"}, <<>>)
    \cup Forms({"DRAWTRANSFORMFEEDBACKSTREAM", "BEGINQUERYINDEXED",
                 "PROGRAMPARAMETERI", "USEPROGRAMSTAGES"}, I(3))
    \cup Forms({"DEPTHRANGEF"}, F(2))
    \cup Forms({"CLEARDEPTHF"}, F(1))
    \cup Forms({"BINDPROGRAMPIPELINE"}, I(1)))
  \cup Asks(Forms({"ISTRANSFORMFEEDBACK", "ISPROGRAMPIPELINE"}, I(1)), "ret")

(* glProgramUniform2i .. glVertexAttribL3d *)
ProgramUniforms ==
  Sends(Family("PROGRAMUNIFORM", I(2), {2, 3, 4}, {"I", "F", "D",
                    "UI"})
    \cup Family("VERTEXATTRIBL", I(1), {1, 2, 3}, {"D"})
    \cup Forms({"VALIDATEPROGRAMPIPELINE"}, I(1)))

(* glVertexAttribL4d .. glFramebufferParameteri *)
ViewportsAndImages ==
  Sends(Forms({"VIEWPORTINDEXEDF", "VERTEXATTRIBL4D"}, I(1) \o F(4))
    \cup Forms({"SCISSORINDEXED", "TEXSTORAGE2D"}, I(5))
    \cup Forms({"BINDIMAGETEXTURE"}, I(7))
    \cup Forms({"MEMORYBARRIER", "DISPATCHCOMPUTEINDIRECT"}, I(1))
    \cup Forms({"TEXSTORAGE1D", "DRAWTRANSFORMFEEDBACKSTREAMINSTANCED"},
                 I(4))
    \cup Forms({"TEXSTORAGE3D"}, I(6))
    \cup Forms({"DRAWTRANSFORMFEEDBACKINSTANCED",
                 "FRAMEBUFFERPARAMETERI"}, I(3))
    \cup Forms({"COPYIMAGESUBDATA"}, I(15)))
  \cup Uploads(Forms({"DEPTHRANGEINDEXED"}, I(1)))
  \cup Draws({"DRAWARRAYSINSTANCEDBASEINSTANCE"}, I(5))

(* glInvalidateTexSubImage .. glClipControl *)
InvalidationAndVertexFormats ==
  Sends(Forms({"INVALIDATETEXSUBIMAGE", "TEXTUREVIEW"}, I(8))
    \cup Forms({"INVALIDATETEXIMAGE", "VERTEXATTRIBBINDING",
                 "VERTEXBINDINGDIVISOR", "CLIPCONTROL"}, I(2))
    \cup Forms({"INVALIDATEBUFFERSUBDATA", "SHADERSTORAGEBLOCKBINDING"},
                 I(3))
    \cup Forms({"INVALIDATEBUFFERDATA"}, I(1))
    \cup Forms({"TEXBUFFERRANGE", "VERTEXATTRIBFORMAT"}, I(5))
    \cup Forms({"TEXSTORAGE2DMULTISAMPLE"}, I(6))
    \cup Forms({"TEXSTORAGE3DMULTISAMPLE"}, I(7))
    \cup Forms({"BINDVERTEXBUFFER"}, I(2) \o Wide \o I(1))
    \cup Forms({"VERTEXATTRIBIFORMAT", "VERTEXATTRIBLFORMAT"}, I(4))
    \cup Forms({"POPDEBUGGROUP"}, <<>>))

(* glTransformFeedbackBufferBase .. glNamedRenderbufferStorageMultisample *)
NamedBuffersAndFramebuffers ==
  Sends(Forms({"TRANSFORMFEEDBACKBUFFERBASE",
                    "NAMEDFRAMEBUFFERPARAMETERI"}, I(3))
    \cup Forms({"TRANSFORMFEEDBACKBUFFERRANGE", "COPYNAMEDBUFFERSUBDATA",
                 "NAMEDFRAMEBUFFERTEXTURELAYER",
                 "NAMEDRENDERBUFFERSTORAGEMULTISAMPLE"}, I(5))
    \cup Forms({"NAMEDFRAMEBUFFERRENDERBUFFER", "NAMEDFRAMEBUFFERTEXTURE",
                 "NAMEDRENDERBUFFERSTORAGE"}, I(4))
    \cup Forms({"NAMEDFRAMEBUFFERDRAWBUFFER",
                 "NAMEDFRAMEBUFFERREADBUFFER"}, I(2))
    \cup Forms({"CLEARNAMEDFRAMEBUFFERFI"}, I(3) \o F(1) \o I(1))
    \cup Forms({"BLITNAMEDFRAMEBUFFER"}, I(12)))
  \cup Asks(Forms({"CHECKNAMEDFRAMEBUFFERSTATUS"}, I(2)), "ret")
  \cup Unmaps({"UNMAPNAMEDBUFFER"})
  \cup Flushes({"FLUSHMAPPEDNAMEDBUFFERRANGE"})

(* glTextureBuffer .. glDisableVertexArrayAttrib *)
NamedTextures ==
  Sends(Forms({"TEXTUREBUFFER", "TEXTUREPARAMETERI"}, I(3))
    \cup Forms({"TEXTUREBUFFERRANGE", "TEXTURESTORAGE2D"}, I(5))
    \cup Forms({"TEXTURESTORAGE1D"}, I(4))
    \cup Forms({"TEXTURESTORAGE3D", "TEXTURESTORAGE2DMULTISAMPLE",
                 "COPYTEXTURESUBIMAGE1D"}, I(6))
    \cup Forms({"TEXTURESTORAGE3DMULTISAMPLE"}, I(7))
    \cup Forms({"COPYTEXTURESUBIMAGE2D"}, I(8))
    \cup Forms({"COPYTEXTURESUBIMAGE3D"}, I(9))
    \cup Forms({"TEXTUREPARAMETERF"}, I(2) \o F(1))
    \cup Forms({"GENERATETEXTUREMIPMAP"}, I(1))
    \cup Forms({"BINDTEXTUREUNIT", "DISABLEVERTEXARRAYATTRIB"}, I(2)))

(* glEnableVertexArrayAttrib .. glColor3dv *)
NamedVertexArrays ==
  Sends(Forms({"ENABLEVERTEXARRAYATTRIB", "VERTEXARRAYELEMENTBUFFER"},
                    I(2))
    \cup Forms({"VERTEXARRAYVERTEXBUFFER"}, I(3) \o Wide \o I(1))
    \cup Forms({"VERTEXARRAYATTRIBBINDING", "VERTEXARRAYBINDINGDIVISOR"},
                 I(3))
    \cup Forms({"VERTEXARRAYATTRIBFORMAT"}, I(6))
    \cup Forms({"VERTEXARRAYATTRIBIFORMAT", "VERTEXARRAYATTRIBLFORMAT"},
                 I(5))
    \cup Forms({"GETQUERYBUFFEROBJECTI64V", "GETQUERYBUFFEROBJECTIV",
                 "GETQUERYBUFFEROBJECTUI64V", "GETQUERYBUFFEROBJECTUIV"}, I(4))
    \cup Forms({"MEMORYBARRIERBYREGION"}, I(1))
    \cup Forms({"TEXTUREBARRIER"}, <<>>)
    \cup Forms({"POLYGONOFFSETCLAMP"}, F(3)))
  \cup Asks(Forms({"GETGRAPHICSRESETSTATUS"}, <<>>), "ret")
  \cup Aliases("V", {"COLOR3B", "COLOR3D"})

(* All of them *)
ShaderCalls ==
  StencilAndUniforms \cup VertexAttribsAndIndexedEnables
    \cup IntegerAttribsAndUniforms \cup FramebufferObjects
    \cup SamplersAndPackedAttribs \cup PackedVerticesAndIndexedBlends
    \cup TransformFeedbackAndPipelines \cup ProgramUniforms
    \cup ViewportsAndImages \cup InvalidationAndVertexFormats
    \cup NamedBuffersAndFramebuffers \cup NamedTextures \cup NamedVertexArrays
=============================================================================
