--------------------------- MODULE ProcessorPlain ---------------------------
(***************************************************************************)
(* The first cases of the server's switch, mostly of commands that carry   *)
(* single values, in the order of the file, and what each reads.  See      *)
(* ProcessorRows for the notation.                                         *)
(***************************************************************************)
EXTENDS ProcessorRows

(* CREATE_CONTEXT .. CLEARCOLOR *)
RunInternalToClear ==
  Answers(Forms({"CREATE_CONTEXT"}, <<>>), {"ret"})
  \cup Reads(Forms({"GOODBYE_WORLD", "BEGIN", "BINDVERTEXARRAY",
                    "CALLLIST", "CLEAR"}, I(1))
    \cup Forms({"REPORT_DIMS", "ATTACHSHADER", "BEGINQUERY", "BINDBUFFER",
                 "BLENDFUNC"}, I(2))
    \cup Forms({"SWAP_BUFFERS"}, I(4))
    \cup Forms({"VP_NULL"}, <<>>)
    \cup Forms({"CLEARCOLOR"}, F(4)))
  \cup Answers(Forms({"VP_DOWNLOAD"}, I(1)), {"retv"})
  \cup ReadsUpload(Forms({"BINDBUFFERSBASE"}, I(3))
    \cup Forms({"BITMAP"}, I(6)))
  \cup ReadsText({"BINDFRAGDATALOCATION"}, I(2))
  \cup MayReadUpload({"BUFFERDATA"}, I(2), I(1))
  \cup Reads(CountedForms({"VP_UPLOAD", "VP_UPLOAD_STAY"}, <<>>, Raw(1), 0..4))

(* CLIPPLANE .. GENVERTEXARRAYS *)
RunShadersDrawsAndGens ==
  Reads(Forms({"CLIPPLANE"}, I(1) \o F(4))
    \cup Forms({"COMPILESHADER", "DELETEBUFFERS", "DELETETEXTURES",
                 "DELETEVERTEXARRAYS", "DEPTHFUNC", "DELETEPROGRAM",
                 "DELETESHADER", "DISABLE", "DRAWBUFFER", "ENABLE",
                 "ENABLEVERTEXATTRIBARRAY", "ENDQUERY"}, I(1))
    \cup Forms({"DETACHSHADER"}, I(2))
    \cup Forms({"DISPATCHCOMPUTE", "DRAWARRAYS"}, I(3))
    \cup Forms({"END", "ENDLIST"}, <<>>)
    \cup Forms({"FRUSTUM"}, F(6))
    \cup Forms({"COLOR3F"}, F(3)))
  \cup Answers(Forms({"CREATEPROGRAM"}, <<>>)
    \cup Forms({"CREATESHADER", "GENBUFFERS", "GENFRAMEBUFFERS",
                 "GENLISTS", "GENQUERIES", "GENTEXTURES", "GENVERTEXARRAYS"},
                 I(1)), {"ret"})
  \cup MayReadUpload({"DRAWELEMENTS"}, I(3) \o Wide, <<>>)

(* GETQUERYOBJECTUI64V .. SHADEMODEL *)
RunQueriesAndLights ==
  Answers(Forms({"GETQUERYOBJECTUI64V", "GETPROGRAMIV", "GETSHADERIV",
                      "GETOBJECTPARAMETERIVARB"}, I(2)), {"ret"})
  \cup Answers(Forms({"GETFLOATV", "GETINTEGERV", "GETBOOLEANV",
                      "GETDOUBLEV"}, I(1)), {"retv"})
  \cup Reads(Forms({"GETTEXIMAGE"}, I(5))
    \cup Forms({"LIGHTMODELFV"}, I(1) \o F(4))
    \cup Forms({"LIGHTFV", "MATERIALFV"}, I(2) \o F(4))
    \cup Forms({"LINKPROGRAM", "MATRIXMODE", "SHADEMODEL"}, I(1))
    \cup Forms({"LOADIDENTITY", "POPMATRIX", "PUSHMATRIX"}, <<>>)
    \cup Forms({"NEWLIST"}, I(2))
    \cup Forms({"ROTATEF"}, F(4))
    \cup Forms({"NORMAL3F"}, F(3)))
  \cup AnswersText({"GETUNIFORMLOCATION", "GETATTRIBLOCATION"}, I(1))

(* SHADERSOURCE .. MULTMATRIXF *)
RunTexturesAndMatrices ==
  ReadsUpload(Forms({"TEXIMAGE1D"}, I(7))
    \cup Forms({"TEXSUBIMAGE1D"}, I(6))
    \cup Forms({"TEXIMAGE3D"}, I(9))
    \cup Forms({"TEXSUBIMAGE3D"}, I(10))
    \cup Forms({"TEXIMAGE2D", "TEXSUBIMAGE2D"}, I(8))
    \cup Forms({"UNIFORMMATRIX4FV"}, I(3)))
  \cup Reads(Forms({"TRANSLATED", "TRANSLATEF", "VERTEX3F"}, F(3))
    \cup Forms({"USEPROGRAM"}, I(1))
    \cup Forms({"VIEWPORT"}, I(4))
    \cup Forms({"LOADMATRIXD", "LOADMATRIXF", "MULTMATRIXD",
                 "MULTMATRIXF"}, F(16))
    \cup Forms({"UNIFORM1F"}, I(1) \o F(1)))
  \cup MayReadUpload({"VERTEXATTRIBPOINTER"}, I(5) \o Wide, <<>>)
  \cup Reads(CountedTextForms({"SHADERSOURCE"}, I(1)))

(* COLORPOINTER .. STENCILOP *)
RunPointersAndRasterState ==
  Reads(Forms({"CULLFACE", "FRONTFACE", "CLEARSTENCIL", "STENCILMASK",
                    "DEPTHMASK", "LOGICOP"}, I(1))
    \cup Forms({"HINT", "POLYGONMODE"}, I(2))
    \cup Forms({"LINEWIDTH", "POINTSIZE", "CLEARDEPTH"}, F(1))
    \cup Forms({"SCISSOR", "COLORMASK"}, I(4))
    \cup Forms({"TEXPARAMETERF"}, I(2) \o F(1))
    \cup Forms({"TEXPARAMETERI", "STENCILFUNC", "STENCILOP"}, I(3))
    \cup Forms({"FINISH", "FLUSH"}, <<>>))
  \cup MayReadUpload({"COLORPOINTER", "TEXCOORDPOINTER", "VERTEXPOINTER"}, I(3),
        Wide)
  \cup MayReadUpload({"NORMALPOINTER"}, I(2), Wide)

(* PIXELSTOREF .. COLOR4UI *)
RunPixelStoreAndColors ==
  Reads(Family("COLOR", <<>>, {3}, {"B", "D", "I", "S", "UB", "UI",
                    "US"})
    \cup Family("COLOR", <<>>, {4}, {"B", "D", "F", "I", "S", "UB", "UI"})
    \cup Forms({"PIXELSTOREF"}, I(1) \o F(1))
    \cup Forms({"PIXELSTOREI", "DELETELISTS"}, I(2))
    \cup Forms({"READBUFFER", "ISENABLED", "LISTBASE"}, I(1))
    \cup Forms({"DEPTHRANGE"}, F(2)))

(* COLOR4US .. RASTERPOS4S *)
RunNormalsAndRasterPos ==
  Reads(Family("NORMAL", <<>>, {3}, {"B", "D", "I", "S"})
    \cup Family("RASTERPOS", <<>>, {2, 3, 4}, {"D", "F", "I", "S"})
    \cup Forms({"EDGEFLAG", "INDEXI", "INDEXS"}, I(1))
    \cup Forms({"INDEXD", "INDEXF"}, F(1))
    \cup Forms({"COLOR4US"}, I(4)))

(* RECTD .. VERTEX2F *)
RunRectsAndTexCoords ==
  Reads(Family("TEXCOORD", <<>>, {1, 2, 3, 4}, {"D", "F", "I", "S"})
    \cup Forms({"RECTD", "RECTF"}, F(4))
    \cup Forms({"RECTI", "RECTS"}, I(4))
    \cup Forms({"VERTEX2D", "VERTEX2F"}, F(2)))

(* VERTEX2I .. TEXENVF *)
RunVerticesLightsAndMaterials ==
  Reads(Family("VERTEX", <<>>, {3}, {"D", "I", "S"})
    \cup Family("VERTEX", <<>>, {4}, {"D", "F", "I", "S"})
    \cup Forms({"COLORMATERIAL", "FOGI", "LIGHTMODELI", "LINESTIPPLE",
                 "VERTEX2I", "VERTEX2S"}, I(2))
    \cup Forms({"FOGF", "LIGHTMODELF"}, I(1) \o F(1))
    \cup Forms({"FOGFV"}, I(1) \o F(4))
    \cup Forms({"LIGHTF", "MATERIALF", "TEXENVF"}, I(2) \o F(1))
    \cup Forms({"LIGHTI", "MATERIALI"}, I(3)))

(* TEXENVI .. EVALCOORD1D *)
RunTexEnvAndSelection ==
  Reads(Forms({"TEXENVI", "TEXGENI"}, I(3))
    \cup Forms({"TEXENVFV"}, I(2) \o F(4))
    \cup Forms({"TEXENVIV"}, I(6))
    \cup Forms({"TEXGEND", "TEXGENF"}, I(2) \o F(1))
    \cup Forms({"INITNAMES", "POPNAME", "POPATTRIB"}, <<>>)
    \cup Forms({"LOADNAME", "PUSHNAME", "INDEXMASK", "PUSHATTRIB"}, I(1))
    \cup Forms({"PASSTHROUGH", "CLEARINDEX", "EVALCOORD1D"}, F(1))
    \cup Forms({"CLEARACCUM"}, F(4))
    \cup Forms({"ACCUM"}, I(1) \o F(1))
    \cup Forms({"MAPGRID1D", "MAPGRID1F"}, I(1) \o F(2))
    \cup Forms({"MAPGRID2D", "MAPGRID2F"}, I(1) \o F(2) \o I(1) \o F(2)))
  \cup Answers(Forms({"RENDERMODE"}, I(1)), {"ret"})

(* EVALCOORD1F .. COPYTEXIMAGE2D *)
RunEvaluatorsAndCopies ==
  Reads(Forms({"EVALMESH1"}, I(3))
    \cup Forms({"EVALPOINT1"}, I(1))
    \cup Forms({"EVALMESH2", "COPYPIXELS"}, I(5))
    \cup Forms({"EVALPOINT2", "PIXELTRANSFERI"}, I(2))
    \cup Forms({"ALPHAFUNC", "PIXELTRANSFERF"}, I(1) \o F(1))
    \cup Forms({"PIXELZOOM", "POLYGONOFFSET", "EVALCOORD2D",
                 "EVALCOORD2F"}, F(2))
    \cup Forms({"ORTHO"}, F(6))
    \cup Forms({"ROTATED"}, F(4))
    \cup Forms({"SCALED", "SCALEF"}, F(3))
    \cup Forms({"COPYTEXIMAGE1D"}, I(7))
    \cup Forms({"COPYTEXIMAGE2D"}, I(8))
    \cup Forms({"EVALCOORD1F"}, F(1)))
  \cup Answers(Forms({"ISLIST"}, I(1)), {"ret"})

(* COPYTEXSUBIMAGE1D .. MULTITEXCOORD3D *)
RunTexturesAndClientState ==
  Reads(Family("MULTITEXCOORD", I(1), {1, 2}, {"D", "F", "I", "S"})
    \cup Forms({"COPYTEXSUBIMAGE1D"}, I(6))
    \cup Forms({"COPYTEXSUBIMAGE2D"}, I(8))
    \cup Forms({"BINDTEXTURE"}, I(2))
    \cup Forms({"ARRAYELEMENT", "DISABLECLIENTSTATE", "ENABLECLIENTSTATE",
                 "INDEXUB", "PUSHCLIENTATTRIB", "ACTIVETEXTURE",
                 "CLIENTACTIVETEXTURE"}, I(1))
    \cup Forms({"POPCLIENTATTRIB"}, <<>>)
    \cup Forms({"COPYTEXSUBIMAGE3D"}, I(9))
    \cup Forms({"SAMPLECOVERAGE"}, F(1) \o I(1))
    \cup Forms({"MULTITEXCOORD3D"}, I(1) \o F(3)))
  \cup Answers(Forms({"ISTEXTURE"}, I(1)), {"ret"})

(* MULTITEXCOORD3F .. SECONDARYCOLOR3US *)
RunMultiTexAndSecondaryColor ==
  Reads(Family("MULTITEXCOORD", I(1), {3}, {"F", "I", "S"})
    \cup Family("MULTITEXCOORD", I(1), {4}, {"D", "F", "I", "S"})
    \cup Family("SECONDARYCOLOR", <<>>, {3}, {"B", "D", "F", "I", "S",
                 "UB", "UI", "US"})
    \cup Forms({"BLENDFUNCSEPARATE"}, I(4))
    \cup Forms({"POINTPARAMETERF"}, I(1) \o F(1))
    \cup Forms({"POINTPARAMETERI"}, I(2))
    \cup Forms({"FOGCOORDF", "FOGCOORDD"}, F(1)))

(* WINDOWPOS2D .. UNIFORM4F *)
RunWindowPosAndSeparate ==
  Reads(Family("WINDOWPOS", <<>>, {2, 3}, {"D", "F", "I", "S"})
    \cup Family("UNIFORM", I(1), {2, 3, 4}, {"F"})
    \cup Forms({"BLENDCOLOR"}, F(4))
    \cup Forms({"BLENDEQUATION", "DISABLEVERTEXATTRIBARRAY"}, I(1))
    \cup Forms({"BLENDEQUATIONSEPARATE", "STENCILMASKSEPARATE"}, I(2))
    \cup Forms({"STENCILOPSEPARATE", "STENCILFUNCSEPARATE"}, I(4)))
  \cup Answers(Forms({"ISQUERY", "ISBUFFER", "ISPROGRAM", "ISSHADER"}, I(1)), {"ret"})
  \cup AnswersFromUpload(Forms({"UNMAPBUFFER"}, I(2)), {"ret"})

(* UNIFORM1I .. ENABLEI *)
RunUniformsAndAttribs ==
  Reads(Family("UNIFORM", I(1), {1, 2, 3, 4}, {"I"})
    \cup Family("VERTEXATTRIB", I(1), {1, 2, 3, 4}, {"D", "F", "S"})
    \cup Forms({"VALIDATEPROGRAM"}, I(1))
    \cup Forms({"VERTEXATTRIB4NUB", "COLORMASKI"}, I(5))
    \cup Forms({"ENABLEI"}, I(2)))

(* DISABLEI .. CLEARBUFFERFI *)
RunIndexedEnablesAndIntegerAttribs ==
  Reads(Family("VERTEXATTRIBI", I(1), {1, 2, 3, 4}, {"I", "UI"})
    \cup Family("UNIFORM", I(1), {1, 2, 3, 4}, {"UI"})
    \cup Forms({"DISABLEI", "CLAMPCOLOR", "BEGINCONDITIONALRENDER"}, I(2))
    \cup Forms({"BEGINTRANSFORMFEEDBACK"}, I(1))
    \cup Forms({"ENDTRANSFORMFEEDBACK", "ENDCONDITIONALRENDER"}, <<>>)
    \cup Forms({"BINDBUFFERRANGE"}, I(5))
    \cup Forms({"BINDBUFFERBASE"}, I(3))
    \cup Forms({"CLEARBUFFERFI"}, I(2) \o F(1) \o I(1)))
  \cup Answers(Forms({"ISENABLEDI"}, I(2)), {"ret"})

(* ISRENDERBUFFER .. COPYBUFFERSUBDATA *)
RunFramebuffers ==
  Answers(Forms({"ISRENDERBUFFER", "ISFRAMEBUFFER",
                      "CHECKFRAMEBUFFERSTATUS", "ISVERTEXARRAY"}, I(1)), {"ret"})
  \cup Reads(Forms({"BINDRENDERBUFFER", "BINDFRAMEBUFFER"}, I(2))
    \cup Forms({"RENDERBUFFERSTORAGE", "FRAMEBUFFERRENDERBUFFER",
                 "DRAWARRAYSINSTANCED"}, I(4))
    \cup Forms({"FRAMEBUFFERTEXTURE1D", "FRAMEBUFFERTEXTURE2D",
                 "RENDERBUFFERSTORAGEMULTISAMPLE", "FRAMEBUFFERTEXTURELAYER",
                 "COPYBUFFERSUBDATA"}, I(5))
    \cup Forms({"FRAMEBUFFERTEXTURE3D"}, I(6))
    \cup Forms({"GENERATEMIPMAP", "PRIMITIVERESTARTINDEX"}, I(1))
    \cup Forms({"BLITFRAMEBUFFER"}, I(10))
    \cup Forms({"FLUSHMAPPEDBUFFERRANGE", "TEXBUFFER"}, I(3)))

(* UNIFORMBLOCKBINDING .. TEXCOORDP2UI *)
RunSamplersAndPackedVertices ==
  Reads(Forms({"UNIFORMBLOCKBINDING", "SAMPLERPARAMETERI"}, I(3))
    \cup Forms({"PROVOKINGVERTEX"}, I(1))
    \cup Forms({"FRAMEBUFFERTEXTURE", "VERTEXATTRIBP1UI",
                 "VERTEXATTRIBP2UI", "VERTEXATTRIBP3UI", "VERTEXATTRIBP4UI"},
                 I(4))
    \cup Forms({"TEXIMAGE2DMULTISAMPLE"}, I(6))
    \cup Forms({"TEXIMAGE3DMULTISAMPLE"}, I(7))
    \cup Forms({"SAMPLEMASKI", "BINDSAMPLER", "QUERYCOUNTER",
                 "VERTEXATTRIBDIVISOR", "VERTEXP3UI", "VERTEXP4UI",
                 "VERTEXP2UI", "TEXCOORDP1UI", "TEXCOORDP2UI"}, I(2))
    \cup Forms({"SAMPLERPARAMETERF"}, I(2) \o F(1)))
  \cup Answers(Forms({"ISSAMPLER"}, I(1)), {"ret"})

(* TEXCOORDP3UI .. PAUSETRANSFORMFEEDBACK *)
RunPackedAttribsAndIndexedBlends ==
  Reads(Family("UNIFORM", I(1), {1, 2, 3, 4}, {"D"})
    \cup Forms({"TEXCOORDP3UI", "TEXCOORDP4UI", "NORMALP3UI", "COLORP3UI",
                 "COLORP4UI", "SECONDARYCOLORP3UI", "BLENDEQUATIONI",
                 "PATCHPARAMETERI", "BINDTRANSFORMFEEDBACK"}, I(2))
    \cup Forms({"MULTITEXCOORDP4UI", "BLENDEQUATIONSEPARATEI",
                 "BLENDFUNCI", "MULTITEXCOORDP1UI", "MULTITEXCOORDP2UI",
                 "MULTITEXCOORDP3UI"}, I(3))
    \cup Forms({"MINSAMPLESHADING"}, F(1))
    \cup Forms({"BLENDFUNCSEPARATEI"}, I(5))
    \cup Forms({"PAUSETRANSFORMFEEDBACK"}, <<>>))
  \cup Answers(Forms({"ISTRANSFORMFEEDBACK"}, I(1)), {"ret"})

(* RESUMETRANSFORMFEEDBACK .. PROGRAMUNIFORM3I *)
RunFeedbackAndPipelines ==
  Reads(Family("PROGRAMUNIFORM", I(2), {1, 2}, {"I", "F", "D", "UI"})
    \cup Forms({"RESUMETRANSFORMFEEDBACK", "RELEASESHADERCOMPILER"}, <<>>)
    \cup Forms({"DRAWTRANSFORMFEEDBACK", "ENDQUERYINDEXED",
                 "ACTIVESHADERPROGRAM"}, I(2))
    \cup Forms({"DRAWTRANSFORMFEEDBACKSTREAM", "BEGINQUERYINDEXED",
                 "PROGRAMPARAMETERI", "USEPROGRAMSTAGES"}, I(3))
    \cup Forms({"DEPTHRANGEF"}, F(2))
    \cup Forms({"CLEARDEPTHF"}, F(1))
    \cup Forms({"BINDPROGRAMPIPELINE"}, I(1))
    \cup Forms({"PROGRAMUNIFORM3I"}, I(5)))
  \cup Answers(Forms({"ISPROGRAMPIPELINE"}, I(1)), {"ret"})

(* PROGRAMUNIFORM3F .. MEMORYBARRIER *)
RunProgramUniformsAndViewports ==
  Reads(Family("PROGRAMUNIFORM", I(2), {3}, {"F", "D", "UI"})
    \cup Family("PROGRAMUNIFORM", I(2), {4}, {"I", "F", "D", "UI"})
    \cup Family("VERTEXATTRIBL", I(1), {1, 2, 3, 4}, {"D"})
    \cup Forms({"VALIDATEPROGRAMPIPELINE", "MEMORYBARRIER"}, I(1))
    \cup Forms({"VIEWPORTINDEXEDF"}, I(1) \o F(4))
    \cup Forms({"SCISSORINDEXED", "DRAWARRAYSINSTANCEDBASEINSTANCE"}, I(5))
    \cup Forms({"BINDIMAGETEXTURE"}, I(7)))
  \cup ReadsUpload(Forms({"DEPTHRANGEINDEXED"}, I(1)))

(* TEXSTORAGE1D .. TEXSTORAGE3DMULTISAMPLE *)
RunStorageAndInvalidation ==
  Reads(Forms({"TEXSTORAGE1D",
                    "DRAWTRANSFORMFEEDBACKSTREAMINSTANCED"}, I(4))
    \cup Forms({"TEXSTORAGE2D", "TEXBUFFERRANGE"}, I(5))
    \cup Forms({"TEXSTORAGE3D", "TEXSTORAGE2DMULTISAMPLE"}, I(6))
    \cup Forms({"DRAWTRANSFORMFEEDBACKINSTANCED", "FRAMEBUFFERPARAMETERI",
                 "INVALIDATEBUFFERSUBDATA", "SHADERSTORAGEBLOCKBINDING"}, I(3))
    \cup Forms({"DISPATCHCOMPUTEINDIRECT", "INVALIDATEBUFFERDATA"}, I(1))
    \cup Forms({"COPYIMAGESUBDATA"}, I(15))
    \cup Forms({"INVALIDATETEXSUBIMAGE"}, I(8))
    \cup Forms({"INVALIDATETEXIMAGE"}, I(2))
    \cup Forms({"TEXSTORAGE3DMULTISAMPLE"}, I(7)))

(* TEXTUREVIEW .. NAMEDFRAMEBUFFERREADBUFFER *)
RunFormatsAndNamedBuffers ==
  Reads(Forms({"TEXTUREVIEW"}, I(8))
    \cup Forms({"BINDVERTEXBUFFER"}, I(2) \o Wide \o I(1))
    \cup Forms({"VERTEXATTRIBFORMAT", "TRANSFORMFEEDBACKBUFFERRANGE",
                 "COPYNAMEDBUFFERSUBDATA", "NAMEDFRAMEBUFFERTEXTURELAYER"},
                 I(5))
    \cup Forms({"VERTEXATTRIBIFORMAT", "VERTEXATTRIBLFORMAT",
                 "NAMEDFRAMEBUFFERRENDERBUFFER", "NAMEDFRAMEBUFFERTEXTURE"},
                 I(4))
    \cup Forms({"VERTEXATTRIBBINDING", "VERTEXBINDINGDIVISOR",
                 "CLIPCONTROL", "NAMEDFRAMEBUFFERDRAWBUFFER",
                 "NAMEDFRAMEBUFFERREADBUFFER"}, I(2))
    \cup Forms({"POPDEBUGGROUP"}, <<>>)
    \cup Forms({"TRANSFORMFEEDBACKBUFFERBASE",
                 "NAMEDFRAMEBUFFERPARAMETERI"}, I(3)))
  \cup AnswersFromUpload(Forms({"UNMAPNAMEDBUFFER"}, I(2)), {"ret"})
  \cup ReadsUpload(Forms({"FLUSHMAPPEDNAMEDBUFFERRANGE"}, I(3)))

(* CLEARNAMEDFRAMEBUFFERFI .. COPYTEXTURESUBIMAGE3D *)
RunNamedFramebuffersAndTextures ==
  Reads(Forms({"CLEARNAMEDFRAMEBUFFERFI"}, I(3) \o F(1) \o I(1))
    \cup Forms({"BLITNAMEDFRAMEBUFFER"}, I(12))
    \cup Forms({"NAMEDRENDERBUFFERSTORAGE", "TEXTURESTORAGE1D"}, I(4))
    \cup Forms({"NAMEDRENDERBUFFERSTORAGEMULTISAMPLE",
                 "TEXTUREBUFFERRANGE", "TEXTURESTORAGE2D"}, I(5))
    \cup Forms({"TEXTUREBUFFER"}, I(3))
    \cup Forms({"TEXTURESTORAGE3D", "TEXTURESTORAGE2DMULTISAMPLE",
                 "COPYTEXTURESUBIMAGE1D"}, I(6))
    \cup Forms({"TEXTURESTORAGE3DMULTISAMPLE"}, I(7))
    \cup Forms({"COPYTEXTURESUBIMAGE2D"}, I(8))
    \cup Forms({"COPYTEXTURESUBIMAGE3D"}, I(9)))
  \cup Answers(Forms({"CHECKNAMEDFRAMEBUFFERSTATUS"}, I(2)), {"ret"})

(* TEXTUREPARAMETERF .. POLYGONOFFSETCLAMP *)
RunTextureParametersAndVertexArrays ==
  Reads(Forms({"TEXTUREPARAMETERF"}, I(2) \o F(1))
    \cup Forms({"TEXTUREPARAMETERI", "VERTEXARRAYATTRIBBINDING",
                 "VERTEXARRAYBINDINGDIVISOR"}, I(3))
    \cup Forms({"GENERATETEXTUREMIPMAP", "MEMORYBARRIERBYREGION"}, I(1))
    \cup Forms({"BINDTEXTUREUNIT", "DISABLEVERTEXARRAYATTRIB",
                 "ENABLEVERTEXARRAYATTRIB", "VERTEXARRAYELEMENTBUFFER"}, I(2))
    \cup Forms({"VERTEXARRAYVERTEXBUFFER"}, I(3) \o Wide \o I(1))
    \cup Forms({"VERTEXARRAYATTRIBFORMAT"}, I(6))
    \cup Forms({"VERTEXARRAYATTRIBIFORMAT", "VERTEXARRAYATTRIBLFORMAT"},
                 I(5))
    \cup Forms({"GETQUERYBUFFEROBJECTI64V", "GETQUERYBUFFEROBJECTIV",
                 "GETQUERYBUFFEROBJECTUI64V", "GETQUERYBUFFEROBJECTUIV"}, I(4))
    \cup Forms({"TEXTUREBARRIER"}, <<>>)
    \cup Forms({"POLYGONOFFSETCLAMP"}, F(3)))
  \cup Answers(Forms({"GETGRAPHICSRESETSTATUS"}, <<>>), {"ret"})

(* All of them *)
PlainRows ==
  RunInternalToClear \cup RunShadersDrawsAndGens \cup RunQueriesAndLights
    \cup RunTexturesAndMatrices \cup RunPointersAndRasterState
    \cup RunPixelStoreAndColors \cup RunNormalsAndRasterPos
    \cup RunRectsAndTexCoords \cup RunVerticesLightsAndMaterials
    \cup RunTexEnvAndSelection \cup RunEvaluatorsAndCopies
    \cup RunTexturesAndClientState \cup RunMultiTexAndSecondaryColor
    \cup RunWindowPosAndSeparate \cup RunUniformsAndAttribs
    \cup RunIndexedEnablesAndIntegerAttribs \cup RunFramebuffers
    \cup RunSamplersAndPackedVertices \cup RunPackedAttribsAndIndexedBlends
    \cup RunFeedbackAndPipelines \cup RunProgramUniformsAndViewports
    \cup RunStorageAndInvalidation \cup RunFormatsAndNamedBuffers
    \cup RunNamedFramebuffersAndTextures
    \cup RunTextureParametersAndVertexArrays
=============================================================================
