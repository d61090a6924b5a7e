-------------------------- MODULE ProcessorVectors --------------------------
(***************************************************************************)
(* The cases of the server's switch from the first that takes memory on,   *)
(* in the order of the file, and what each reads.  See ProcessorRows for   *)
(* the notation.                                                           *)
(***************************************************************************)
EXTENDS ProcessorRows

(* POLYGONSTIPPLE .. COMPRESSEDTEXSUBIMAGE1D *)
RunMapsAndCompressedImages ==
  Reads(Forms({"POLYGONSTIPPLE"}, Raw(1024))
    \cup Forms({"PRIORITIZETEXTURES"}, I(1) \o F(1)))
  \cup Answers(Forms({"FEEDBACKBUFFER", "GETCLIPPLANE", "GETLIGHTFV",
                      "GETLIGHTIV"}, I(2))
    \cup Forms({"SELECTBUFFER"}, I(1)), {"retv"})
  \cup ReadsUpload(Forms({"MAP1F"}, I(1) \o F(2) \o I(2))
    \cup Forms({"PIXELMAPFV", "PIXELMAPUIV"}, I(2))
    \cup Forms({"COMPRESSEDTEXIMAGE3D", "COMPRESSEDTEXSUBIMAGE1D"}, I(8))
    \cup Forms({"COMPRESSEDTEXIMAGE2D"}, I(7))
    \cup Forms({"COMPRESSEDTEXIMAGE1D"}, I(6))
    \cup Forms({"COMPRESSEDTEXSUBIMAGE3D", "COMPRESSEDTEXSUBIMAGE2D"},
                 I(10)))
  \cup Answers(Forms({"ARETEXTURESRESIDENT"}, I(1)), {"ret"})

(* LOADTRANSPOSEMATRIXF .. GETTEXLEVELPARAMETERFV *)
RunTransposedBuffersAndGets ==
  Reads(Forms({"LOADTRANSPOSEMATRIXF", "MULTTRANSPOSEMATRIXF"}, F(16))
    \cup Forms({"DELETEQUERIES"}, I(1))
    \cup Forms({"TEXPARAMETERFV"}, I(2) \o F(4))
    \cup Forms({"TEXPARAMETERIV"}, I(6)))
  \cup Answers(Forms({"GETQUERYIV", "GETQUERYOBJECTIV",
                      "GETQUERYOBJECTUIV", "GETBUFFERPARAMETERIV"}, I(2)), {"ret"})
  \cup ReadsUpload(Forms({"BUFFERSUBDATA", "BUFFERSUBDATAARB"}, I(3)))
  \cup Answers(Forms({"GETMATERIALFV", "GETMATERIALIV", "GETTEXENVFV",
                      "GETTEXENVIV", "GETTEXGENDV", "GETTEXGENFV",
                      "GETTEXGENIV", "GETTEXPARAMETERFV",
                      "GETTEXPARAMETERIV"}, I(2))
    \cup Forms({"GETTEXLEVELPARAMETERFV"}, I(3)), {"retv"})

(* GETTEXLEVELPARAMETERIV .. VERTEXATTRIB4NSV *)
RunActiveVariablesAndUniformMatrices ==
  Answers(Forms({"GETTEXLEVELPARAMETERIV", "GETACTIVEATTRIB",
                      "GETACTIVEUNIFORM"}, I(3))
    \cup Forms({"GETATTACHEDSHADERS", "GETPROGRAMINFOLOG",
                 "GETSHADERINFOLOG", "GETSHADERSOURCE", "GETVERTEXATTRIBDV",
                 "GETVERTEXATTRIBFV", "GETVERTEXATTRIBIV"}, I(2)), {"retv"})
  \cup Answers(Forms({"GETUNIFORMFV", "GETUNIFORMIV"}, I(2)), {"ret"})
  \cup ReadsUpload(Forms({"UNIFORMMATRIX2FV", "UNIFORMMATRIX3FV"}, I(3)))
  \cup Reads(Forms({"VERTEXATTRIB4NBV", "VERTEXATTRIB4NIV",
                    "VERTEXATTRIB4NSV"}, I(5)))
  \cup ReadsText({"BINDATTRIBLOCATION"}, I(2))

(* VERTEXATTRIB4NUIV .. GETBOOLEANI_V *)
RunByteAttribsAndClearBuffers ==
  Reads(Forms({"VERTEXATTRIB4NUIV", "VERTEXATTRIB4NUSV",
                    "VERTEXATTRIB4BV", "VERTEXATTRIB4IV", "VERTEXATTRIB4SV",
                    "VERTEXATTRIB4UIV", "VERTEXATTRIB4USV"}, I(5))
    \cup Forms({"CLEARBUFFERIV", "CLEARBUFFERUIV"}, I(6))
    \cup Forms({"CLEARBUFFERFV"}, I(2) \o F(4)))
  \cup ReadsUpload(Forms({"UNIFORMMATRIX2X3FV", "UNIFORMMATRIX3X2FV",
                          "UNIFORMMATRIX2X4FV", "UNIFORMMATRIX4X2FV",
                          "UNIFORMMATRIX3X4FV", "UNIFORMMATRIX4X3FV"}, I(3)))
  \cup Answers(Forms({"GETBOOLEANI_V"}, I(2)), {"retv"})

(* GETINTEGERI_V .. DRAWRANGEELEMENTSBASEVERTEX *)
RunFeedbackVaryingsAndBlocks ==
  Answers(Forms({"GETINTEGERI_V", "GETRENDERBUFFERPARAMETERIV"}, I(2))
    \cup Forms({"GETTRANSFORMFEEDBACKVARYING",
                 "GETFRAMEBUFFERATTACHMENTPARAMETERIV",
                 "GETACTIVEUNIFORMNAME", "GETACTIVEUNIFORMBLOCKNAME"}, I(3)), {"retv"})
  \cup Reads(Forms({"DELETERENDERBUFFERS", "DELETEFRAMEBUFFERS"}, I(1)))
  \cup Answers(Forms({"GENRENDERBUFFERS"}, <<>>)
    \cup Forms({"GETACTIVEUNIFORMSIV", "GETACTIVEUNIFORMBLOCKIV"}, I(3)), {"ret"})
  \cup AnswersText({"GETFRAGDATALOCATION", "GETUNIFORMINDICES",
        "GETUNIFORMBLOCKINDEX"}, I(1))
  \cup MayReadUpload({"DRAWELEMENTSINSTANCED", "DRAWELEMENTSBASEVERTEX"},
        I(3) \o Wide, I(1))
  \cup MayReadUpload({"DRAWRANGEELEMENTSBASEVERTEX"}, I(5) \o Wide, I(1))
  \cup Reads(TextForms({"TRANSFORMFEEDBACKVARYINGS"}, I(2), I(1)))

(* DRAWELEMENTSINSTANCEDBASEVERTEX .. GETACTIVESUBROUTINEUNIFORMIV *)
RunSyncMapsAndSubroutines ==
  Answers(Forms({"GETMULTISAMPLEFV", "FENCESYNC", "GETUNIFORMDV"},
                      I(2))
    \cup Forms({"CLIENTWAITSYNC"}, Wide \o I(1) \o Wide), {"retv"})
  \cup Answers(Forms({"GENSAMPLERS"}, <<>>), {"ret"})
  \cup Reads(Forms({"DELETESAMPLERS"}, I(1))
    \cup Forms({"MAPBUFFER"}, I(2))
    \cup Forms({"MAPBUFFERRANGE"}, I(4))
    \cup Forms({"DELETESYNC"}, Wide)
    \cup Forms({"DRAWARRAYSINDIRECT"}, I(1) \o Wide)
    \cup Forms({"DRAWELEMENTSINDIRECT"}, I(2) \o Wide))
  \cup MayReadUpload({"DRAWELEMENTSINSTANCEDBASEVERTEX"}, I(3) \o Wide, I(2))
  \cup ReadsText({"BINDFRAGDATALOCATIONINDEXED"}, I(3))
  \cup AnswersText({"GETFRAGDATAINDEX"}, I(1))
  \cup MayReadUpload({"VERTEXATTRIBIPOINTER"}, I(4) \o Wide, <<>>)
  \cup ReadsCounted({"DRAWBUFFERS"}, <<>>, I(1))
  \cup AnswersText({"GETSUBROUTINEUNIFORMLOCATION", "GETSUBROUTINEINDEX"}, I(2))
  \cup AnswersList({"GETACTIVESUBROUTINEUNIFORMIV"}, I(3))

(* GETACTIVESUBROUTINEUNIFORMNAME .. PROGRAMUNIFORMMATRIX2FV *)
RunSubroutineNamesAndProgramBinaries ==
  Answers(Forms({"GETACTIVESUBROUTINEUNIFORMNAME",
                      "GETACTIVESUBROUTINENAME", "GETSHADERPRECISIONFORMAT"},
                      I(4))
    \cup Forms({"GETUNIFORMSUBROUTINEUIV"}, I(2))
    \cup Forms({"GETPROGRAMSTAGEIV", "GETQUERYINDEXEDIV"}, I(3)), {"retv"})
  \cup Reads(Forms({"DELETETRANSFORMFEEDBACKS", "DELETEPROGRAMPIPELINES"},
                    I(1))
    \cup Forms({"GETPROGRAMBINARY"}, I(2)))
  \cup Answers(Forms({"GENTRANSFORMFEEDBACKS", "GENPROGRAMPIPELINES"}, <<>>)
    \cup Forms({"GETPROGRAMPIPELINEIV"}, I(2)), {"ret"})
  \cup ReadsUpload(Forms({"PROGRAMUNIFORMMATRIX2FV"}, I(4)))
  \cup ReadsCounted({"UNIFORMSUBROUTINESUIV"}, I(1), I(1))
  \cup ReadsCounted({"PATCHPARAMETERFV"}, I(1), F(1))
  \cup ReadsCounted({"PROGRAMBINARY"}, I(2), Raw(1))
  \cup Reads({<<"SHADERBINARY", Count(k) \o I(1) \o Count(n) \o I(k) \o Raw(n)>> :
             k \in 0..4, n \in 0..4})
  \cup Answers(CountedTextForms({"CREATESHADERPROGRAMV"}, I(1)), {"ret"})

(* PROGRAMUNIFORMMATRIX3FV .. GETDOUBLEI_V *)
RunProgramMatricesAndViewportArrays ==
  ReadsUpload(Forms({"PROGRAMUNIFORMMATRIX3FV",
                          "PROGRAMUNIFORMMATRIX4FV",
                          "PROGRAMUNIFORMMATRIX2X3FV",
                          "PROGRAMUNIFORMMATRIX3X2FV",
                          "PROGRAMUNIFORMMATRIX2X4FV",
                          "PROGRAMUNIFORMMATRIX4X2FV",
                          "PROGRAMUNIFORMMATRIX3X4FV",
                          "PROGRAMUNIFORMMATRIX4X3FV"}, I(4))
    \cup Forms({"VIEWPORTARRAYV", "SCISSORARRAYV", "DEPTHRANGEARRAYV"},
                 I(2))
    \cup Forms({"SCISSORINDEXEDV"}, I(1)))
  \cup Reads(Forms({"PROGRAMUNIFORMMATRIX2DV", "PROGRAMUNIFORMMATRIX3DV",
                    "PROGRAMUNIFORMMATRIX4DV", "PROGRAMUNIFORMMATRIX2X3DV",
                    "PROGRAMUNIFORMMATRIX3X2DV", "PROGRAMUNIFORMMATRIX2X4DV",
                    "PROGRAMUNIFORMMATRIX4X2DV", "PROGRAMUNIFORMMATRIX3X4DV",
                    "PROGRAMUNIFORMMATRIX4X3DV", "VIEWPORTINDEXEDFV"}, <<>>))
  \cup Answers(Forms({"GETPROGRAMPIPELINEINFOLOG", "GETFLOATI_V",
                      "GETDOUBLEI_V"}, I(2)), {"retv"})
  \cup MayReadUpload({"VERTEXATTRIBLPOINTER"}, I(4) \o Wide, <<>>)

(* DRAWELEMENTSINSTANCEDBASEINSTANCE .. GETPROGRAMRESOURCELOCATION *)
RunIndirectAndResources ==
  Answers(Forms({"GETINTERNALFORMATIV", "GETINTERNALFORMATI64V",
                      "GETPROGRAMRESOURCENAME"}, I(4))
    \cup Forms({"GETFRAMEBUFFERPARAMETERIV"}, I(2)), {"retv"})
  \cup Reads(Forms({"CLEARBUFFERDATA"}, I(5))
    \cup Forms({"CLEARBUFFERSUBDATA"}, I(7))
    \cup Forms({"MULTIDRAWARRAYSINDIRECT", "MULTIDRAWELEMENTSINDIRECT"},
                 <<>>))
  \cup ReadsUpload(Forms({"INVALIDATEFRAMEBUFFER"}, I(2))
    \cup Forms({"INVALIDATESUBFRAMEBUFFER"}, I(6)))
  \cup Answers(Forms({"GETPROGRAMINTERFACEIV"}, I(3)), {"ret"})
  \cup AnswersFromUpload(Forms({"GETPROGRAMRESOURCEIV"}, I(5)), {"retv"})
  \cup MayReadUpload({"DRAWELEMENTSINSTANCEDBASEINSTANCE"}, I(3) \o Wide, I(2))
  \cup MayReadUpload({"DRAWELEMENTSINSTANCEDBASEVERTEXBASEINSTANCE"},
        I(3) \o Wide, I(3))
  \cup AnswersList({"GETACTIVEATOMICCOUNTERBUFFERIV"}, I(2))
  \cup AnswersText({"GETPROGRAMRESOURCEINDEX", "GETPROGRAMRESOURCELOCATION"},
        I(2))

(* GETPROGRAMRESOURCELOCATIONINDEX .. CREATEBUFFERS *)
RunDebugStorageAndMultiBind ==
  Reads(Forms({"DEBUGMESSAGECONTROL", "DEBUGMESSAGEINSERT",
                    "DEBUGMESSAGECALLBACK", "GETDEBUGMESSAGELOG",
                    "PUSHDEBUGGROUP", "OBJECTLABEL", "GETOBJECTLABEL",
                    "OBJECTPTRLABEL", "GETOBJECTPTRLABEL"}, <<>>)
    \cup Forms({"CLEARTEXIMAGE"}, I(5))
    \cup Forms({"CLEARTEXSUBIMAGE"}, I(11)))
  \cup ReadsUpload(Forms({"BINDTEXTURES", "BINDSAMPLERS",
                          "BINDIMAGETEXTURES"}, I(2)))
  \cup Answers(Forms({"CREATETRANSFORMFEEDBACKS", "CREATEBUFFERS"}, <<>>), {"ret"})
  \cup Answers(Forms({"GETTRANSFORMFEEDBACKIV"}, I(2))
    \cup Forms({"GETTRANSFORMFEEDBACKI_V", "GETTRANSFORMFEEDBACKI64_V"},
                 I(3)), {"retv"})
  \cup AnswersText({"GETPROGRAMRESOURCELOCATIONINDEX"}, I(2))
  \cup MayReadUpload({"BUFFERSTORAGE"}, I(2), I(1))
  \cup ReadsCounted({"BINDBUFFERSRANGE"}, I(2), I(3))
  \cup ReadsCounted({"BINDVERTEXBUFFERS"}, I(1), I(1) \o Wide \o I(1))

(* NAMEDBUFFERSTORAGE .. GETNAMEDFRAMEBUFFERATTACHMENTPARAMETERIV *)
RunNamedBufferStores ==
  ReadsUpload(Forms({"NAMEDBUFFERSUBDATA"}, I(3))
    \cup Forms({"INVALIDATENAMEDFRAMEBUFFERDATA"}, I(2))
    \cup Forms({"INVALIDATENAMEDFRAMEBUFFERSUBDATA"}, I(6)))
  \cup Reads(Forms({"CLEARNAMEDBUFFERDATA"}, I(5))
    \cup Forms({"CLEARNAMEDBUFFERSUBDATA", "CLEARNAMEDFRAMEBUFFERIV",
                 "CLEARNAMEDFRAMEBUFFERUIV"}, I(7))
    \cup Forms({"MAPNAMEDBUFFER"}, I(2))
    \cup Forms({"MAPNAMEDBUFFERRANGE"}, I(4))
    \cup Forms({"GETNAMEDBUFFERPARAMETERI64V", "GETNAMEDBUFFERPOINTERV",
                 "GETNAMEDBUFFERSUBDATA"}, <<>>)
    \cup Forms({"CLEARNAMEDFRAMEBUFFERFV"}, I(3) \o F(4)))
  \cup Answers(Forms({"GETNAMEDBUFFERPARAMETERIV",
                      "GETNAMEDFRAMEBUFFERPARAMETERIV"}, I(2))
    \cup Forms({"GETNAMEDFRAMEBUFFERATTACHMENTPARAMETERIV"}, I(3)), {"retv"})
  \cup Answers(Forms({"CREATEFRAMEBUFFERS"}, <<>>), {"ret"})
  \cup MayReadUpload({"NAMEDBUFFERSTORAGE", "NAMEDBUFFERDATA"}, I(2), I(1))
  \cup ReadsCounted({"NAMEDFRAMEBUFFERDRAWBUFFERS"}, I(1), I(1))

(* CREATERENDERBUFFERS .. GETTEXTURELEVELPARAMETERFV *)
RunNamedTexturesAndCompressed ==
  Answers(Forms({"CREATERENDERBUFFERS"}, <<>>)
    \cup Forms({"CREATETEXTURES"}, I(1)), {"ret"})
  \cup Answers(Forms({"GETNAMEDRENDERBUFFERPARAMETERIV"}, I(2))
    \cup Forms({"GETTEXTURELEVELPARAMETERFV"}, I(3)), {"retv"})
  \cup ReadsUpload(Forms({"TEXTURESUBIMAGE1D"}, I(6))
    \cup Forms({"TEXTURESUBIMAGE2D", "COMPRESSEDTEXTURESUBIMAGE1D"}, I(8))
    \cup Forms({"TEXTURESUBIMAGE3D", "COMPRESSEDTEXTURESUBIMAGE2D",
                 "COMPRESSEDTEXTURESUBIMAGE3D"}, I(10)))
  \cup Reads(Forms({"TEXTUREPARAMETERFV"}, I(2) \o F(4))
    \cup Forms({"TEXTUREPARAMETERIIV", "TEXTUREPARAMETERIUIV",
                 "TEXTUREPARAMETERIV"}, I(6))
    \cup Forms({"GETTEXTUREIMAGE", "GETCOMPRESSEDTEXTUREIMAGE"}, <<>>))

(* GETTEXTURELEVELPARAMETERIV .. GETNMINMAX *)
RunVertexArrayQueriesAndRobust ==
  Answers(Forms({"GETTEXTURELEVELPARAMETERIV",
                      "GETVERTEXARRAYINDEXEDIV", "GETVERTEXARRAYINDEXED64IV"},
                      I(3))
    \cup Forms({"GETTEXTUREPARAMETERFV", "GETTEXTUREPARAMETERIIV",
                 "GETTEXTUREPARAMETERIUIV", "GETTEXTUREPARAMETERIV",
                 "GETVERTEXARRAYIV"}, I(2)), {"retv"})
  \cup Answers(Forms({"CREATEVERTEXARRAYS", "CREATESAMPLERS",
                      "CREATEPROGRAMPIPELINES"}, <<>>)
    \cup Forms({"CREATEQUERIES"}, I(1)), {"ret"})
  \cup Reads(Forms({"GETTEXTURESUBIMAGE", "GETCOMPRESSEDTEXTURESUBIMAGE",
                    "GETNCOMPRESSEDTEXIMAGE", "GETNTEXIMAGE", "GETNUNIFORMDV",
                    "GETNUNIFORMFV", "GETNUNIFORMIV", "GETNUNIFORMUIV",
                    "READNPIXELS", "GETNMAPDV", "GETNMAPFV", "GETNMAPIV",
                    "GETNPIXELMAPFV", "GETNPIXELMAPUIV", "GETNPIXELMAPUSV",
                    "GETNPOLYGONSTIPPLE", "GETNCOLORTABLE",
                    "GETNCONVOLUTIONFILTER", "GETNSEPARABLEFILTER",
                    "GETNHISTOGRAM", "GETNMINMAX"}, <<>>))
  \cup ReadsCounted({"VERTEXARRAYVERTEXBUFFERS"}, I(2), I(1) \o Wide \o I(1))

(* GETSTRING .. UNIFORM1IARB *)
RunArbObjects ==
  Answers(Forms({"GETSTRING"}, I(1)), {"ret", "retv"})
  \cup Reads(Forms({"ATTACHOBJECTARB", "BINDBUFFERARB", "BINDPROGRAMARB",
                    "DETACHOBJECTARB", "MAPBUFFERARB", "UNIFORM1IARB"}, I(2))
    \cup Forms({"COMPILESHADERARB", "DELETEBUFFERSARB", "DELETEOBJECTARB",
                 "DELETEPROGRAMSARB", "DELETEQUERIESARB", "LINKPROGRAMARB"},
                 I(1)))
  \cup Answers(Forms({"CREATEPROGRAMOBJECTARB", "GENBUFFERSARB",
                      "GENPROGRAMSARB", "GENQUERIESARB"}, <<>>)
    \cup Forms({"CREATESHADEROBJECTARB"}, I(1))
    \cup Forms({"GETPROGRAMIVARB"}, I(2)), {"ret"})
  \cup Answers(Forms({"GETINFOLOGARB"}, I(2)), {"retv"})
  \cup ReadsText({"BINDATTRIBLOCATIONARB"}, I(2))
  \cup MayReadUpload({"BUFFERDATAARB"}, I(2), I(1))
  \cup AnswersText({"GETUNIFORMLOCATIONARB"}, I(1))
  \cup ReadsText({"PROGRAMSTRINGARB"}, I(3))
  \cup Reads(CountedTextForms({"SHADERSOURCEARB"}, I(1)))

(* PROGRAMENVPARAMETERS4FVEXT .. MULTITEXCOORD2FARB *)
RunExtensionEnables ==
  Reads(Forms({"COLORMASKINDEXEDEXT"}, I(5))
    \cup Forms({"ENABLEINDEXEDEXT", "DISABLEINDEXEDEXT"}, I(2))
    \cup Forms({"ACTIVETEXTUREARB"}, I(1))
    \cup Forms({"MULTITEXCOORD2FARB"}, I(1) \o F(2)))
  \cup Answers(Forms({"GETBOOLEANINDEXEDVEXT"}, I(2)), {"ret"})
  \cup ReadsCounted({"PROGRAMENVPARAMETERS4FVEXT"}, I(2), Raw(4))

(* All of them *)
VectorRows ==
  RunMapsAndCompressedImages \cup RunTransposedBuffersAndGets
    \cup RunActiveVariablesAndUniformMatrices
    \cup RunByteAttribsAndClearBuffers \cup RunFeedbackVaryingsAndBlocks
    \cup RunSyncMapsAndSubroutines \cup RunSubroutineNamesAndProgramBinaries
    \cup RunProgramMatricesAndViewportArrays \cup RunIndirectAndResources
    \cup RunDebugStorageAndMultiBind \cup RunNamedBufferStores
    \cup RunNamedTexturesAndCompressed \cup RunVertexArrayQueriesAndRobust
    \cup RunArbObjects \cup RunExtensionEnables
=============================================================================
