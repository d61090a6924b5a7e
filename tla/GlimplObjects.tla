---------------------------- MODULE GlimplObjects ---------------------------
(***************************************************************************)
(* The GL entry points of GL 3 to 4.6 that take or fill memory, and the    *)
(* extensions, in the order of the file, and the words each pushes.  See   *)
(* GlimplCalls for the notation.                                           *)
(***************************************************************************)
EXTENDS GlimplCalls

(* glUniformMatrix2x4fv .. glVertexAttribI4bv *)
RectangularMatricesAndFeedback ==
  Sends(Forms({"CLEARBUFFERIV", "CLEARBUFFERUIV"}, I(6))
    \cup Forms({"CLEARBUFFERFV"}, I(2) \o F(4)))
  \cup Asks(Forms({"GETBOOLEANI_V", "GETINTEGERI_V"}, I(2))
    \cup Forms({"GETTRANSFORMFEEDBACKVARYING"}, I(3)), "retv")
  \cup Uploads(Forms({"UNIFORMMATRIX2X4FV", "UNIFORMMATRIX4X2FV",
                      "UNIFORMMATRIX3X4FV", "UNIFORMMATRIX4X3FV"}, I(3)))
  \cup {Does("TRANSFORMFEEDBACKVARYINGS",
          <<Submit(<<>>, {}), Push(Cmd("TRANSFORMFEEDBACKVARYINGS", I(1) \o t \o I(1))),
            Submit(<<>>, {})>>) : t \in Texts}
  \cup Alias("GETVERTEXATTRIBIIV", "GETVERTEXATTRIBIV")
  \cup Alias("GETVERTEXATTRIBIUIV", "GETVERTEXATTRIBIV")
  \cup Alias("VERTEXATTRIBI4BV", "VERTEXATTRIB4BV")

(* glVertexAttribI4sv .. glGetActiveUniformsiv *)
ShortAttribsAndRenderbuffers ==
  Sends(Forms({"DELETERENDERBUFFERS", "DELETEFRAMEBUFFERS"}, I(1)))
  \cup Asks(Forms({"GENRENDERBUFFERS"}, <<>>)
    \cup Forms({"GETACTIVEUNIFORMSIV"}, I(3)), "ret")
  \cup Asks(Forms({"GETRENDERBUFFERPARAMETERIV"}, I(2))
    \cup Forms({"GETFRAMEBUFFERATTACHMENTPARAMETERIV"}, I(3)), "retv")
  \cup AsksText({"GETFRAGDATALOCATION", "GETUNIFORMINDICES"}, I(1))
  \cup RangeMaps({"MAPBUFFERRANGE"})
  \cup IndexedDraws({"DRAWELEMENTSINSTANCED"}, I(3), I(1))
  \cup Alias("VERTEXATTRIBI4SV", "VERTEXATTRIB4SV")
  \cup Alias("VERTEXATTRIBI4UBV", "VERTEXATTRIB4UBV")
  \cup Alias("VERTEXATTRIBI4USV", "VERTEXATTRIB4USV")
  \cup Alias("GETUNIFORMUIV", "GETUNIFORMIV")
  \cup Alias("TEXPARAMETERIIV", "TEXPARAMETERIV")
  \cup Alias("TEXPARAMETERIUIV", "TEXPARAMETERIV")
  \cup Alias("GETTEXPARAMETERIIV", "GETTEXPARAMETERIV")
  \cup Alias("GETTEXPARAMETERIUIV", "GETTEXPARAMETERIV")

(* glGetActiveUniformName .. glIsSync *)
UniformBlocksAndBaseVertexDraws ==
  Asks(Forms({"GETACTIVEUNIFORMNAME", "GETACTIVEUNIFORMBLOCKNAME"},
                   I(3)), "retv")
  \cup Asks(Forms({"GETACTIVEUNIFORMBLOCKIV"}, I(3)), "ret")
  \cup AsksText({"GETUNIFORMBLOCKINDEX"}, I(1))
  \cup IndexedDraws({"DRAWELEMENTSBASEVERTEX"}, I(3), I(1))
  \cup IndexedDraws({"DRAWELEMENTSINSTANCEDBASEVERTEX"}, I(3), I(2))
  \cup HintedDraws("DRAWRANGEELEMENTSBASEVERTEX", "DRAWRANGEELEMENTSBASEVERTEX",
                 I(5), I(1))
  \cup Alias("MULTIDRAWELEMENTSBASEVERTEX", "DRAWELEMENTSBASEVERTEX")
  \cup Stubs({"FENCESYNC", "ISSYNC"})

(* glDeleteSync .. glGetSamplerParameterfv *)
SyncAndSamplerParameters ==
  Sends(Forms({"DELETESAMPLERS"}, I(1)))
  \cup Asks(Forms({"GETMULTISAMPLEFV"}, I(2)), "retv")
  \cup Asks(Forms({"GENSAMPLERS"}, <<>>), "ret")
  \cup SendsText({"BINDFRAGDATALOCATIONINDEXED"}, I(3))
  \cup AsksText({"GETFRAGDATAINDEX"}, I(1))
  \cup Alias("GETINTEGER64V", "GETINTEGERV")
  \cup Alias("GETINTEGER64I_V", "GETINTEGERI_V")
  \cup Alias("GETBUFFERPARAMETERI64V", "GETBUFFERPARAMETERIV")
  \cup Stubs({"DELETESYNC", "CLIENTWAITSYNC", "WAITSYNC", "GETSYNCIV",
           "SAMPLERPARAMETERIV", "SAMPLERPARAMETERFV", "SAMPLERPARAMETERIIV",
           "SAMPLERPARAMETERIUIV", "GETSAMPLERPARAMETERIV",
           "GETSAMPLERPARAMETERIIV", "GETSAMPLERPARAMETERFV"})

(* glGetSamplerParameterIuiv .. glDrawElementsIndirect *)
QueryObjectsAndPackedVectors ==
  Sends(Forms({"VERTEXATTRIBIPOINTER"}, I(4) \o Wide \o No)
    \cup Forms({"DRAWARRAYSINDIRECT"}, I(1) \o Wide)
    \cup Forms({"DRAWELEMENTSINDIRECT"}, I(2) \o Wide))
  \cup Stubs({"GETSAMPLERPARAMETERIUIV", "GETQUERYOBJECTI64V",
           "VERTEXATTRIBP2UIV", "VERTEXATTRIBP3UIV", "VERTEXATTRIBP4UIV",
           "VERTEXP2UIV", "VERTEXP3UIV", "VERTEXP4UIV", "TEXCOORDP2UIV",
           "TEXCOORDP3UIV", "TEXCOORDP4UIV", "MULTITEXCOORDP2UIV",
           "MULTITEXCOORDP3UIV", "MULTITEXCOORDP4UIV", "NORMALP3UIV",
           "COLORP3UIV", "COLORP4UIV", "SECONDARYCOLORP3UIV",
           "VERTEXATTRIBIPOINTER", "DRAWARRAYSINDIRECT",
           "DRAWELEMENTSINDIRECT"})

(* glUniformMatrix2dv .. glGetActiveSubroutineUniformName *)
DoubleUniformsAndSubroutines ==
  Asks(Forms({"GETUNIFORMDV"}, I(2))
    \cup Forms({"GETACTIVESUBROUTINEUNIFORMNAME"}, I(4)), "retv")
  \cup AsksText({"GETSUBROUTINEUNIFORMLOCATION", "GETSUBROUTINEINDEX"}, I(2))
  \cup AsksList({"GETACTIVESUBROUTINEUNIFORMIV"}, I(3))
  \cup Alias("UNIFORMMATRIX2DV", "UNIFORMMATRIX2FV")
  \cup Alias("UNIFORMMATRIX3DV", "UNIFORMMATRIX3FV")
  \cup Alias("UNIFORMMATRIX4DV", "UNIFORMMATRIX4FV")
  \cup Alias("UNIFORMMATRIX2X3DV", "UNIFORMMATRIX2X3FV")
  \cup Alias("UNIFORMMATRIX2X4DV", "UNIFORMMATRIX2X4FV")
  \cup Alias("UNIFORMMATRIX3X2DV", "UNIFORMMATRIX3X2FV")
  \cup Alias("UNIFORMMATRIX3X4DV", "UNIFORMMATRIX3X4FV")
  \cup Alias("UNIFORMMATRIX4X2DV", "UNIFORMMATRIX4X2FV")
  \cup Alias("UNIFORMMATRIX4X3DV", "UNIFORMMATRIX4X3FV")

(* glGetActiveSubroutineName .. glCreateShaderProgramv *)
SubroutinesAndShaderBinary ==
  Sends(Forms({"DELETETRANSFORMFEEDBACKS"}, I(1)))
  \cup Asks(Forms({"GETACTIVESUBROUTINENAME"}, I(4))
    \cup Forms({"GETUNIFORMSUBROUTINEUIV"}, I(2))
    \cup Forms({"GETPROGRAMSTAGEIV", "GETQUERYINDEXEDIV"}, I(3)), "retv")
  \cup Asks(Forms({"GENTRANSFORMFEEDBACKS"}, <<>>)
    \cup Forms({"GETSHADERPRECISIONFORMAT"}, I(4)), "ret")
  \cup CountedSends({"UNIFORMSUBROUTINESUIV"}, I(1), I(1))
  \cup CountedTextAsks({"CREATESHADERPROGRAMV"}, I(1))
  \cup Sends({<<"PATCHPARAMETERFV", I(1) \o Count(n) \o F(n)>> : n \in {2, 4}})
  \cup Sends({<<"SHADERBINARY", Count(k) \o I(1) \o Count(n) \o I(k) \o Raw(n)>> :
             k \in Sizes, n \in Sizes})
  \cup UNION {SendAs("PROGRAMBINARY", "SHADERBINARY", I(2) \o Count(n) \o Raw(n)) : n \in Sizes}
  \cup Stubs({"GETPROGRAMBINARY"})

(* glDeleteProgramPipelines .. glProgramUniformMatrix2x4fv *)
ProgramPipelines ==
  Sends(Forms({"DELETEPROGRAMPIPELINES"}, I(1)))
  \cup Asks(Forms({"GENPROGRAMPIPELINES"}, <<>>)
    \cup Forms({"GETPROGRAMPIPELINEIV"}, I(2)), "ret")
  \cup Uploads(Forms({"PROGRAMUNIFORMMATRIX2FV", "PROGRAMUNIFORMMATRIX3FV",
                      "PROGRAMUNIFORMMATRIX4FV", "PROGRAMUNIFORMMATRIX2X3FV",
                      "PROGRAMUNIFORMMATRIX3X2FV",
                      "PROGRAMUNIFORMMATRIX2X4FV"}, I(4)))
  \cup Alias("PROGRAMUNIFORMMATRIX2DV", "PROGRAMUNIFORMMATRIX2FV")
  \cup Alias("PROGRAMUNIFORMMATRIX3DV", "PROGRAMUNIFORMMATRIX3FV")
  \cup Alias("PROGRAMUNIFORMMATRIX4DV", "PROGRAMUNIFORMMATRIX4FV")

(* glProgramUniformMatrix4x2fv .. glGetVertexAttribLdv *)
ProgramPipelineMatrices ==
  Sends(Forms({"VERTEXATTRIBLPOINTER"}, I(4) \o Wide \o No))
  \cup Asks(Forms({"GETPROGRAMPIPELINEINFOLOG"}, I(2)), "retv")
  \cup Uploads(Forms({"PROGRAMUNIFORMMATRIX4X2FV",
                      "PROGRAMUNIFORMMATRIX3X4FV",
                      "PROGRAMUNIFORMMATRIX4X3FV"}, I(4)))
  \cup Alias("PROGRAMUNIFORMMATRIX2X3DV", "PROGRAMUNIFORMMATRIX2X3FV")
  \cup Alias("PROGRAMUNIFORMMATRIX3X2DV", "PROGRAMUNIFORMMATRIX3X2FV")
  \cup Alias("PROGRAMUNIFORMMATRIX2X4DV", "PROGRAMUNIFORMMATRIX2X4FV")
  \cup Alias("PROGRAMUNIFORMMATRIX4X2DV", "PROGRAMUNIFORMMATRIX4X2FV")
  \cup Alias("PROGRAMUNIFORMMATRIX3X4DV", "PROGRAMUNIFORMMATRIX3X4FV")
  \cup Alias("PROGRAMUNIFORMMATRIX4X3DV", "PROGRAMUNIFORMMATRIX4X3FV")
  \cup Alias("GETVERTEXATTRIBLDV", "GETVERTEXATTRIBDV")
  \cup Stubs({"VERTEXATTRIBLPOINTER"})

(* glViewportArrayv .. glGetFramebufferParameteriv *)
ViewportArraysAndAtomicCounters ==
  Sends(Forms({"CLEARBUFFERDATA"}, I(5))
    \cup Forms({"CLEARBUFFERSUBDATA"}, I(7)))
  \cup Asks(Forms({"GETDOUBLEI_V", "GETFRAMEBUFFERPARAMETERIV"}, I(2))
    \cup Forms({"GETINTERNALFORMATIV"}, I(4)), "retv")
  \cup Uploads(Forms({"VIEWPORTARRAYV", "SCISSORARRAYV",
                      "DEPTHRANGEARRAYV"}, I(2))
    \cup Forms({"SCISSORINDEXEDV"}, I(1)))
  \cup IndexedDraws({"DRAWELEMENTSINSTANCEDBASEINSTANCE"}, I(3), I(2))
  \cup IndexedDraws({"DRAWELEMENTSINSTANCEDBASEVERTEXBASEINSTANCE"}, I(3),
           I(3))
  \cup AsksList({"GETACTIVEATOMICCOUNTERBUFFERIV"}, I(2))
  \cup AskAs("GETFLOATI_V", "GETINTEGERI_V", I(2), "retv")
  \cup Aliases("V", {"VIEWPORTINDEXEDF"})

(* glGetInternalformati64v .. glGetDebugMessageLog *)
ProgramInterfaces ==
  Asks(Forms({"GETINTERNALFORMATI64V", "GETPROGRAMRESOURCENAME"}, I(4)), "retv")
  \cup Asks(Forms({"GETPROGRAMINTERFACEIV"}, I(3)), "ret")
  \cup Uploads(Forms({"INVALIDATEFRAMEBUFFER"}, I(2))
    \cup Forms({"INVALIDATESUBFRAMEBUFFER"}, I(6)))
  \cup AsksText({"GETPROGRAMRESOURCEINDEX", "GETPROGRAMRESOURCELOCATION",
           "GETPROGRAMRESOURCELOCATIONINDEX"}, I(2))
  \cup UploadAsks(Forms({"GETPROGRAMRESOURCEIV"}, I(5)), "retv")
  \cup Alias("MULTIDRAWARRAYSINDIRECT", "DRAWARRAYSINDIRECT")
  \cup Alias("MULTIDRAWELEMENTSINDIRECT", "DRAWELEMENTSINDIRECT")
  \cup Stubs({"DEBUGMESSAGECONTROL", "DEBUGMESSAGEINSERT",
           "DEBUGMESSAGECALLBACK", "GETDEBUGMESSAGELOG"})

(* glPushDebugGroup .. glGetTransformFeedbackiv *)
BufferStorageAndMultiBind ==
  Sends(Forms({"CLEARTEXIMAGE"}, I(5))
    \cup Forms({"CLEARTEXSUBIMAGE"}, I(11)))
  \cup Asks(Forms({"CREATETRANSFORMFEEDBACKS"}, <<>>), "ret")
  \cup Asks(Forms({"GETTRANSFORMFEEDBACKIV"}, I(2)), "retv")
  \cup Uploads(Forms({"BINDTEXTURES", "BINDSAMPLERS", "BINDIMAGETEXTURES"},
                      I(2)))
  \cup BufferStores({"BUFFERSTORAGE"})
  \cup CountedSends({"BINDBUFFERSRANGE"}, I(2), I(3))
  \cup CountedSends({"BINDVERTEXBUFFERS"}, I(1), I(1) \o Wide \o I(1))
  \cup Stubs({"PUSHDEBUGGROUP", "OBJECTLABEL", "GETOBJECTLABEL",
           "OBJECTPTRLABEL", "GETOBJECTPTRLABEL"})

(* glGetTransformFeedbacki_v .. glClearNamedFramebufferfv *)
NamedBufferStores ==
  Sends(Forms({"CLEARNAMEDBUFFERDATA"}, I(5))
    \cup Forms({"CLEARNAMEDBUFFERSUBDATA", "CLEARNAMEDFRAMEBUFFERIV",
                 "CLEARNAMEDFRAMEBUFFERUIV"}, I(7))
    \cup Forms({"CLEARNAMEDFRAMEBUFFERFV"}, I(3) \o F(4)))
  \cup Asks(Forms({"GETTRANSFORMFEEDBACKI_V", "GETTRANSFORMFEEDBACKI64_V"},
                   I(3)), "retv")
  \cup Asks(Forms({"CREATEBUFFERS", "CREATEFRAMEBUFFERS"}, <<>>)
    \cup Forms({"GETNAMEDBUFFERPARAMETERIV"}, I(2)), "ret")
  \cup Uploads(Forms({"NAMEDBUFFERSUBDATA"}, I(3))
    \cup Forms({"INVALIDATENAMEDFRAMEBUFFERDATA"}, I(2))
    \cup Forms({"INVALIDATENAMEDFRAMEBUFFERSUBDATA"}, I(6)))
  \cup BufferStores({"NAMEDBUFFERSTORAGE", "NAMEDBUFFERDATA"})
  \cup RangeMaps({"MAPNAMEDBUFFERRANGE"})
  \cup CountedSends({"NAMEDFRAMEBUFFERDRAWBUFFERS"}, I(1), I(1))
  \cup WholeMap("MAPNAMEDBUFFER", "GETNAMEDBUFFERPARAMETERIV")
  \cup Alias("GETNAMEDBUFFERPARAMETERI64V", "GETNAMEDBUFFERPARAMETERIV")
  \cup Stubs({"GETNAMEDBUFFERPOINTERV", "GETNAMEDBUFFERSUBDATA"})

(* glGetNamedFramebufferParameteriv .. glGetTextureParameteriv *)
NamedFramebufferQueries ==
  Sends(Forms({"TEXTUREPARAMETERFV", "TEXTUREPARAMETERIIV",
                    "TEXTUREPARAMETERIUIV", "TEXTUREPARAMETERIV"},
                    I(2) \o Raw(4)))
  \cup Asks(Forms({"GETNAMEDFRAMEBUFFERATTACHMENTPARAMETERIV",
                   "GETTEXTURELEVELPARAMETERFV",
                   "GETTEXTURELEVELPARAMETERIV"}, I(3))
    \cup Forms({"GETNAMEDRENDERBUFFERPARAMETERIV",
                 "GETTEXTUREPARAMETERFV", "GETTEXTUREPARAMETERIIV",
                 "GETTEXTUREPARAMETERIUIV", "GETTEXTUREPARAMETERIV"}, I(2)), "retv")
  \cup Asks(Forms({"CREATERENDERBUFFERS"}, <<>>)
    \cup Forms({"CREATETEXTURES"}, I(1)), "ret")
  \cup TextureSubImage("TEXTURESUBIMAGE1D", 1)
  \cup TextureSubImage("TEXTURESUBIMAGE2D", 2)
  \cup TextureSubImage("TEXTURESUBIMAGE3D", 3)
  \cup CompressedSubImage("COMPRESSEDTEXTURESUBIMAGE1D", 1)
  \cup CompressedSubImage("COMPRESSEDTEXTURESUBIMAGE2D", 2)
  \cup CompressedSubImage("COMPRESSEDTEXTURESUBIMAGE3D", 3)
  \cup AskAs("GETNAMEDFRAMEBUFFERPARAMETERIV",
           "GETNAMEDFRAMEBUFFERATTACHMENTPARAMETERIV", I(2), "retv")
  \cup Stubs({"GETTEXTUREIMAGE", "GETCOMPRESSEDTEXTUREIMAGE"})

(* glCreateVertexArrays .. glReadnPixels *)
CreateObjects ==
  Asks(Forms({"CREATEVERTEXARRAYS", "CREATESAMPLERS",
                   "CREATEPROGRAMPIPELINES"}, <<>>)
    \cup Forms({"CREATEQUERIES"}, I(1)), "ret")
  \cup Asks(Forms({"GETVERTEXARRAYIV"}, I(2))
    \cup Forms({"GETVERTEXARRAYINDEXEDIV", "GETVERTEXARRAYINDEXED64IV"},
                 I(3)), "retv")
  \cup CountedSends({"VERTEXARRAYVERTEXBUFFERS"}, I(2), I(1) \o Wide \o I(1))
  \cup Alias("GETNCOMPRESSEDTEXIMAGE", "GETCOMPRESSEDTEXIMAGE")
  \cup Alias("GETNTEXIMAGE", "GETTEXIMAGE")
  \cup Alias("GETNUNIFORMDV", "GETUNIFORMDV")
  \cup Alias("GETNUNIFORMFV", "GETUNIFORMFV")
  \cup Alias("GETNUNIFORMIV", "GETUNIFORMIV")
  \cup Alias("GETNUNIFORMUIV", "GETUNIFORMUIV")
  \cup Alias("READNPIXELS", "READPIXELS")
  \cup Stubs({"GETTEXTURESUBIMAGE", "GETCOMPRESSEDTEXTURESUBIMAGE"})

(* glGetnMapdv .. glVertexAttribDivisorEXT *)
RobustAndInstancedAliases ==
  Aliases("NV", {"TEXTUREBARRIER"})
  \cup Aliases("ARB", {"DRAWARRAYSINSTANCED", "DRAWELEMENTSINSTANCED",
                              "VERTEXATTRIBDIVISOR"})
  \cup Aliases("EXT", {"DRAWARRAYSINSTANCED", "DRAWELEMENTSINSTANCED",
                              "MULTIDRAWARRAYS", "MULTIDRAWELEMENTS",
                              "MULTIDRAWARRAYSINDIRECT",
                              "MULTIDRAWELEMENTSINDIRECT",
                              "DRAWRANGEELEMENTS", "VERTEXATTRIBDIVISOR"})
  \cup Alias("GETNMAPDV", "GETMAPDV")
  \cup Alias("GETNMAPFV", "GETMAPFV")
  \cup Alias("GETNMAPIV", "GETMAPIV")
  \cup Alias("GETNPIXELMAPFV", "GETPIXELMAPFV")
  \cup Alias("GETNPIXELMAPUIV", "GETPIXELMAPUIV")
  \cup Alias("GETNPIXELMAPUSV", "GETPIXELMAPUSV")
  \cup Alias("GETNPOLYGONSTIPPLE", "GETPOLYGONSTIPPLE")
  \cup Stubs({"GETNCOLORTABLE", "GETNCONVOLUTIONFILTER",
           "GETNSEPARABLEFILTER", "GETNHISTOGRAM", "GETNMINMAX"})

(* glTexImage3DEXT .. glGetActiveUniformARB *)
ExtensionAliases ==
  Alias("GETHANDLEARB", "GETINTEGERV")
  \cup Aliases("EXT", {"DRAWELEMENTSBASEVERTEX",
                              "DRAWRANGEELEMENTSBASEVERTEX",
                              "DRAWELEMENTSINSTANCEDBASEVERTEX",
                              "MULTIDRAWELEMENTSBASEVERTEX", "ISQUERY",
                              "DELETEQUERIES", "GENQUERIES", "MAPBUFFERRANGE",
                              "TEXIMAGE3D", "TEXSUBIMAGE3D",
                              "COPYTEXSUBIMAGE3D"})
  \cup Aliases("ARB", {"ISQUERY", "ISBUFFER", "GETBUFFERSUBDATA",
                              "UNMAPBUFFER", "GETBUFFERPARAMETERIV",
                              "GETBUFFERPOINTERV", "VALIDATEPROGRAM",
                              "GETACTIVEUNIFORM"})
  \cup Alias("USEPROGRAMOBJECTARB", "USEPROGRAM")
  \cup Alias("GETATTACHEDOBJECTSARB", "GETATTACHEDSHADERS")
  \cup Stubs({"GETHANDLEARB"})

(* glGetUniformfvARB .. glMultiTexCoord2fvARB *)
ShaderObjectAliases ==
  Aliases("ARB", Typed("COMPRESSEDTEXIMAGE", {3, 2, 1}, {"D"})
    \cup Typed("COMPRESSEDTEXSUBIMAGE", {3, 2, 1}, {"D"})
    \cup {"GETUNIFORMFV", "GETUNIFORMIV", "GETSHADERSOURCE",
                 "PROGRAMPARAMETERI", "FRAMEBUFFERTEXTURE",
                 "FRAMEBUFFERTEXTURELAYER", "TEXBUFFER",
                 "GETCOMPRESSEDTEXIMAGE", "MULTITEXCOORD2FV"})
  \cup Aliases("EXT", {"PROGRAMPARAMETERI", "FRAMEBUFFERTEXTURE",
                              "BINDFRAGDATALOCATION", "GETFRAGDATALOCATION",
                              "DRAWTRANSFORMFEEDBACK"})
  \cup Alias("GETOBJECTPARAMETERFVARB", "GETOBJECTPARAMETERIVARB")
  \cup Alias("FRAMEBUFFERTEXTUREFACEARB", "FRAMEBUFFERTEXTURE2D")
  \cup Alias("FRAMEBUFFERTEXTUREFACEEXT", "FRAMEBUFFERTEXTURE2D")

(* glAttachObjectARB .. glCreateProgramObjectARB *)
FramebufferExtensionCalls ==
  Sends(Forms({"ATTACHOBJECTARB", "BINDPROGRAMARB"}, I(2))
    \cup Forms({"COMPILESHADERARB"}, I(1)))
  \cup Asks(Forms({"CREATEPROGRAMOBJECTARB"}, <<>>), "ret")
  \cup Uploads(Forms({"BUFFERSUBDATAARB"}, I(3)))
  \cup SendsText({"BINDATTRIBLOCATIONARB"}, I(2))
  \cup BufferStores({"BUFFERDATAARB"})
  \cup Aliases("ARB", {"BINDBUFFER"})
  \cup Aliases("EXT", Typed("FRAMEBUFFERTEXTURE", {1, 2, 3}, {"D"})
    \cup {"BINDFRAMEBUFFER", "DELETEFRAMEBUFFERS", "GENFRAMEBUFFERS",
                 "ISFRAMEBUFFER", "CHECKFRAMEBUFFERSTATUS",
                 "FRAMEBUFFERRENDERBUFFER",
                 "GETFRAMEBUFFERATTACHMENTPARAMETERIV", "GENERATEMIPMAP",
                 "BINDRENDERBUFFER", "DELETERENDERBUFFERS",
                 "GENRENDERBUFFERS", "ISRENDERBUFFER", "RENDERBUFFERSTORAGE",
                 "GETRENDERBUFFERPARAMETERIV", "BLITFRAMEBUFFER",
                 "RENDERBUFFERSTORAGEMULTISAMPLE", "FRAMEBUFFERTEXTURELAYER"})

(* glCreateShaderObjectARB .. glProgramStringARB *)
ShaderObjectCalls ==
  Sends(Forms({"DELETEBUFFERSARB", "DELETEOBJECTARB",
                    "DELETEPROGRAMSARB", "DELETEQUERIESARB",
                    "LINKPROGRAMARB"}, I(1))
    \cup Forms({"DETACHOBJECTARB"}, I(2)))
  \cup Asks(Forms({"CREATESHADEROBJECTARB"}, I(1))
    \cup Forms({"GENBUFFERSARB", "GENPROGRAMSARB", "GENQUERIESARB"}, <<>>)
    \cup Forms({"GETPROGRAMIVARB"}, I(2)), "ret")
  \cup Asks(Forms({"GETINFOLOGARB"}, I(2)), "retv")
  \cup AsksText({"GETUNIFORMLOCATIONARB"}, I(1))
  \cup SendsText({"PROGRAMSTRINGARB"}, I(3))
  \cup WholeMap("MAPBUFFERARB", "GETBUFFERPARAMETERIV")

(* glShaderSourceARB .. glMultiTexCoord2fARB *)
LastExtensionCalls ==
  Sends(Forms({"UNIFORM1IARB", "ENABLEINDEXEDEXT",
                    "DISABLEINDEXEDEXT"}, I(2))
    \cup Forms({"COLORMASKINDEXEDEXT"}, I(5))
    \cup Forms({"ACTIVETEXTUREARB"}, I(1))
    \cup Forms({"MULTITEXCOORD2FARB"}, I(1) \o F(2)))
  \cup Asks(Forms({"GETBOOLEANINDEXEDVEXT"}, I(2)), "ret")
  \cup CountedTextSends({"SHADERSOURCEARB"}, I(1))
  \cup CountedSends({"PROGRAMENVPARAMETERS4FVEXT"}, I(2), Raw(4))
  \cup Alias("GETINTEGERINDEXEDVEXT", "GETINTEGERI_V")
  \cup Alias("ISENABLEDINDEXEDEXT", "ISENABLEDI")

(* All of them *)
ObjectCalls ==
  RectangularMatricesAndFeedback \cup ShortAttribsAndRenderbuffers
    \cup UniformBlocksAndBaseVertexDraws \cup SyncAndSamplerParameters
    \cup QueryObjectsAndPackedVectors \cup DoubleUniformsAndSubroutines
    \cup SubroutinesAndShaderBinary \cup ProgramPipelines
    \cup ProgramPipelineMatrices \cup ViewportArraysAndAtomicCounters
    \cup ProgramInterfaces \cup BufferStorageAndMultiBind
    \cup NamedBufferStores \cup NamedFramebufferQueries \cup CreateObjects
    \cup RobustAndInstancedAliases \cup ExtensionAliases
    \cup ShaderObjectAliases \cup FramebufferExtensionCalls
    \cup ShaderObjectCalls \cup LastExtensionCalls
=============================================================================
