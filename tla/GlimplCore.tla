----------------------------- MODULE GlimplCore -----------------------------
(***************************************************************************)
(* The GL entry points at the start of glimpl.c: the calls of GL 1 and 2,  *)
(* in the order of the file, and the words each pushes.  See GlimplCalls   *)
(* for the notation.                                                       *)
(***************************************************************************)
EXTENDS GlimplCalls

(* glAttachShader .. glColor3f *)
CoreAttachToColor ==
  Sends(Forms({"ATTACHSHADER", "BEGINQUERY", "BINDBUFFER",
                    "BLENDFUNC"}, I(2))
    \cup Forms({"BEGIN", "BINDVERTEXARRAY", "CALLLIST", "CLEAR"}, I(1))
    \cup Forms({"CLEARCOLOR"}, F(4))
    \cup Forms({"CLIPPLANE"}, I(1) \o F(4))
    \cup Forms({"COLOR3F"}, F(3)))
  \cup Uploads(Forms({"BINDBUFFERSBASE"}, I(3))
    \cup Forms({"BITMAP"}, I(6)))
  \cup SendsText({"BINDFRAGDATALOCATION"}, I(2))
  \cup BufferStores({"BUFFERDATA"})
  \cup SendAs("CLIPPLANEF", "CLIPPLANE", I(1) \o F(4))

(* glCompileShader .. glEndList *)
CoreCompileToEnable ==
  Sends(Forms({"COMPILESHADER", "DELETEBUFFERS", "DELETETEXTURES",
                    "DELETEVERTEXARRAYS", "DEPTHFUNC", "DELETEPROGRAM",
                    "DELETESHADER", "DISABLE", "DRAWBUFFER", "ENABLE",
                    "ENABLEVERTEXATTRIBARRAY"}, I(1))
    \cup Forms({"DETACHSHADER"}, I(2))
    \cup Forms({"DISPATCHCOMPUTE"}, I(3))
    \cup Forms({"END", "ENDLIST"}, <<>>))
  \cup Asks(Forms({"CREATEPROGRAM"}, <<>>)
    \cup Forms({"CREATESHADER"}, I(1)), "ret")
  \cup Draws({"DRAWARRAYS"}, I(3))
  \cup IndexedDraws({"DRAWELEMENTS"}, I(3), <<>>)
  \cup HintedDraws("DRAWRANGEELEMENTS", "DRAWELEMENTS", I(3), <<>>)

(* glEndQuery .. real_glGetString *)
CoreEndToGetParameter ==
  Sends(Forms({"ENDQUERY"}, I(1))
    \cup Forms({"FRUSTUM"}, F(6)))
  \cup Asks(Forms({"GENBUFFERS", "GENFRAMEBUFFERS", "GENLISTS",
                   "GENQUERIES", "GENTEXTURES", "GENVERTEXARRAYS"}, I(1))
    \cup Forms({"GETQUERYOBJECTUI64V", "GETPROGRAMIV", "GETSHADERIV",
                 "GETOBJECTPARAMETERIVARB"}, I(2)), "ret")

(* glimpl_get_extensions_string .. glGetBooleanv *)
CoreGetString ==
  Asks(Forms({"GETSTRING", "GETFLOATV", "GETINTEGERV", "GETBOOLEANV"},
                   I(1)), "retv")
  \cup AsksText({"GETUNIFORMLOCATION", "GETATTRIBLOCATION"}, I(1))
  \cup Stubs({"GETSTRING", "GETSTRINGI", "GETINTEGERV"})

(* glGetDoublev .. glShaderSource *)
CoreTexImageReadsAndLights ==
  Sends(Forms({"LIGHTMODELFV"}, I(1) \o F(4))
    \cup Forms({"LIGHTFV", "MATERIALFV"}, I(2) \o F(4))
    \cup Forms({"LINKPROGRAM", "MATRIXMODE", "SHADEMODEL"}, I(1))
    \cup Forms({"LOADIDENTITY", "POPMATRIX", "PUSHMATRIX"}, <<>>)
    \cup Forms({"NEWLIST"}, I(2))
    \cup Forms({"ROTATEF"}, F(4))
    \cup Forms({"NORMAL3F"}, F(3)))
  \cup Asks(Forms({"GETDOUBLEV"}, I(1)), "retv")
  \cup TextureReads({"GETTEXIMAGE"})
  \cup CountedTextSends({"SHADERSOURCE"}, I(1))

(* glTexImage1D .. glLoadMatrixd *)
CoreTexturesToMatrices ==
  Sends(Forms({"TRANSLATED", "TRANSLATEF", "VERTEX3F"}, F(3))
    \cup Forms({"USEPROGRAM"}, I(1))
    \cup Forms({"VERTEXATTRIBPOINTER"}, I(5) \o Wide \o No)
    \cup Forms({"VIEWPORT"}, I(4))
    \cup Forms({"MULTMATRIXF"}, F(16))
    \cup Forms({"UNIFORM1F"}, I(1) \o F(1)))
  \cup Uploads(Forms({"UNIFORMMATRIX4FV"}, I(3)))
  \cup TextureImage("TEXIMAGE1D", 1)
  \cup TextureSubImage("TEXSUBIMAGE1D", 1)
  \cup TextureImage("TEXIMAGE3D", 3)
  \cup TextureSubImage("TEXSUBIMAGE3D", 3)
  \cup TextureImage("TEXIMAGE2D", 2)
  \cup TextureSubImage("TEXSUBIMAGE2D", 2)
  \cup SendAs("MULTMATRIXD", "MULTMATRIXF", F(16))
  \cup SendAs("LOADMATRIXD", "LOADMATRIXF", F(16))
  \cup Stubs({"VERTEXATTRIBPOINTER"})

(* glLoadMatrixf .. glPolygonMode *)
ClientArrayPointers ==
  Sends(Forms({"LOADMATRIXF"}, F(16))
    \cup Forms({"CULLFACE", "FRONTFACE"}, I(1))
    \cup Forms({"HINT", "POLYGONMODE"}, I(2))
    \cup Forms({"LINEWIDTH", "POINTSIZE"}, F(1)))
  \cup Stubs({"COLORPOINTER", "NORMALPOINTER", "TEXCOORDPOINTER",
           "VERTEXPOINTER", "EDGEFLAGPOINTER", "INDEXPOINTER",
           "INTERLEAVEDARRAYS", "FOGCOORDPOINTER", "SECONDARYCOLORPOINTER"})

(* glScissor .. glDeleteLists *)
ScissorToDepthRange ==
  Sends(Forms({"SCISSOR", "COLORMASK"}, I(4))
    \cup Forms({"TEXPARAMETERF"}, I(2) \o F(1))
    \cup Forms({"TEXPARAMETERI", "STENCILFUNC", "STENCILOP"}, I(3))
    \cup Forms({"CLEARSTENCIL", "STENCILMASK", "DEPTHMASK", "LOGICOP",
                 "READBUFFER"}, I(1))
    \cup Forms({"CLEARDEPTH"}, F(1))
    \cup Forms({"FINISH", "FLUSH"}, <<>>)
    \cup Forms({"PIXELSTOREF"}, I(1) \o F(1))
    \cup Forms({"PIXELSTOREI", "DELETELISTS"}, I(2))
    \cup Forms({"DEPTHRANGE"}, F(2)))
  \cup Asks(Forms({"ISENABLED"}, I(1)), "ret")
  \cup Stubs({"GETERROR", "READPIXELS"})

(* glListBase .. glColor4ui *)
ImmediateColors ==
  Sends(Family("COLOR", <<>>, {3}, {"B", "D", "I", "S", "UB", "UI",
                    "US"})
    \cup Family("COLOR", <<>>, {4}, {"B", "D", "F", "I", "S", "UB", "UI"})
    \cup Forms({"LISTBASE"}, I(1))
    \cup Forms({"TEXIMAGE2DMULTISAMPLE"}, I(6)))
  \cup SendAs("COLOR4FV", "COLOR4F", F(4))

(* glColor4us .. glRasterPos4f *)
ImmediateIndexNormalRaster ==
  Sends(Family("NORMAL", <<>>, {3}, {"B", "D", "I", "S"})
    \cup Family("RASTERPOS", <<>>, {2, 3}, {"D", "F", "I", "S"})
    \cup Forms({"EDGEFLAG", "INDEXI", "INDEXS"}, I(1))
    \cup Forms({"INDEXD", "INDEXF"}, F(1))
    \cup Forms({"COLOR4US"}, I(4))
    \cup Forms({"RASTERPOS4D", "RASTERPOS4F"}, F(4)))

(* glRasterPos4i .. glTexCoord4d *)
ImmediateRasterRectTexCoord ==
  Sends(Family("TEXCOORD", <<>>, {1, 2, 3}, {"D", "F", "I", "S"})
    \cup Forms({"RECTD", "RECTF", "TEXCOORD4D"}, F(4))
    \cup Forms({"RECTI", "RECTS", "RASTERPOS4I", "RASTERPOS4S"}, I(4)))

(* glTexCoord4f .. glFogi *)
ImmediateTexCoordVertexFog ==
  Sends(Family("TEXCOORD", <<>>, {4}, {"F", "I", "S"})
    \cup Family("VERTEX", <<>>, {2, 4}, {"D", "F", "I", "S"})
    \cup Family("VERTEX", <<>>, {3}, {"D", "I", "S"})
    \cup Forms({"COLORMATERIAL", "FOGI"}, I(2))
    \cup Forms({"FOGF"}, I(1) \o F(1))
    \cup Forms({"FOGFV"}, I(1) \o F(4)))
  \cup SendAs("FOGFV", "FOGF", I(1) \o F(1))

(* glLightf .. glIndexMask *)
LightingAndTexGen ==
  Sends(Forms({"LIGHTF", "MATERIALF", "TEXENVF", "TEXGEND",
                    "TEXGENF"}, I(2) \o F(1))
    \cup Forms({"LIGHTI", "MATERIALI", "TEXENVI", "TEXGENI"}, I(3))
    \cup Forms({"LIGHTMODELF"}, I(1) \o F(1))
    \cup Forms({"LIGHTMODELI", "LINESTIPPLE"}, I(2))
    \cup Forms({"INITNAMES", "POPNAME"}, <<>>)
    \cup Forms({"LOADNAME", "PUSHNAME", "INDEXMASK"}, I(1))
    \cup Forms({"PASSTHROUGH", "CLEARINDEX"}, F(1))
    \cup Forms({"CLEARACCUM"}, F(4)))
  \cup Asks(Forms({"RENDERMODE"}, I(1)), "ret")

(* glAccum .. glCopyPixels *)
EvaluatorsAndPixelTransfer ==
  Sends(Family("EVALCOORD", <<>>, {1, 2}, {"D", "F"})
    \cup Forms({"ACCUM", "ALPHAFUNC", "PIXELTRANSFERF"}, I(1) \o F(1))
    \cup Forms({"POPATTRIB"}, <<>>)
    \cup Forms({"PUSHATTRIB", "EVALPOINT1"}, I(1))
    \cup Forms({"EVALMESH1"}, I(3))
    \cup Forms({"EVALMESH2", "COPYPIXELS"}, I(5))
    \cup Forms({"EVALPOINT2", "PIXELTRANSFERI"}, I(2))
    \cup Forms({"PIXELZOOM"}, F(2))
    \cup Forms({"MAPGRID1D", "MAPGRID1F"}, I(1) \o F(2))
    \cup Forms({"MAPGRID2D", "MAPGRID2F"}, I(1) \o F(2) \o I(1) \o F(2)))

(* glIsList .. glDisableClientState *)
MatricesAndCopies ==
  Sends(Forms({"ORTHO"}, F(6))
    \cup Forms({"ROTATED"}, F(4))
    \cup Forms({"SCALED", "SCALEF"}, F(3))
    \cup Forms({"POLYGONOFFSET"}, F(2))
    \cup Forms({"COPYTEXIMAGE1D"}, I(7))
    \cup Forms({"COPYTEXIMAGE2D", "COPYTEXSUBIMAGE2D"}, I(8))
    \cup Forms({"COPYTEXSUBIMAGE1D"}, I(6))
    \cup Forms({"BINDTEXTURE"}, I(2))
    \cup Forms({"ARRAYELEMENT", "DISABLECLIENTSTATE"}, I(1)))
  \cup Asks(Forms({"ISLIST", "ISTEXTURE"}, I(1)), "ret")

(* glEnableClientState .. glMultiTexCoord2s *)
ClientStateAndMultiTexCoord ==
  Sends(Family("MULTITEXCOORD", I(1), {1, 2}, {"D", "F", "I", "S"})
    \cup Forms({"ENABLECLIENTSTATE", "INDEXUB", "PUSHCLIENTATTRIB",
                 "ACTIVETEXTURE", "CLIENTACTIVETEXTURE"}, I(1))
    \cup Forms({"POPCLIENTATTRIB"}, <<>>)
    \cup Forms({"TEXIMAGE3DMULTISAMPLE"}, I(7))
    \cup Forms({"COPYTEXSUBIMAGE3D"}, I(9))
    \cup Forms({"SAMPLECOVERAGE"}, F(1) \o I(1)))
  \cup Aliases("ARB", {"CLIENTACTIVETEXTURE"})

(* glMultiTexCoord3d .. glSecondaryColor3s *)
MultiTexCoordAndSecondaryColor ==
  Sends(Family("MULTITEXCOORD", I(1), {3, 4}, {"D", "F", "I", "S"})
    \cup Family("SECONDARYCOLOR", <<>>, {3}, {"B", "D", "F", "I", "S"})
    \cup Forms({"BLENDFUNCSEPARATE"}, I(4))
    \cup Forms({"POINTPARAMETERF"}, I(1) \o F(1))
    \cup Forms({"POINTPARAMETERI"}, I(2))
    \cup Forms({"FOGCOORDF", "FOGCOORDD"}, F(1)))

(* glSecondaryColor3ub .. glStencilFuncSeparate *)
WindowPosAndQueries ==
  Sends(Family("SECONDARYCOLOR", <<>>, {3}, {"UB", "UI", "US"})
    \cup Family("WINDOWPOS", <<>>, {2, 3}, {"D", "F", "I", "S"})
    \cup Forms({"BLENDCOLOR"}, F(4))
    \cup Forms({"BLENDEQUATION"}, I(1))
    \cup Forms({"BLENDEQUATIONSEPARATE"}, I(2))
    \cup Forms({"STENCILOPSEPARATE", "STENCILFUNCSEPARATE"}, I(4)))
  \cup Asks(Forms({"ISQUERY", "ISBUFFER"}, I(1)), "ret")
  \cup Unmaps({"UNMAPBUFFER"})

(* All of them *)
CoreCalls ==
  CoreAttachToColor \cup CoreCompileToEnable \cup CoreEndToGetParameter
    \cup CoreGetString \cup CoreTexImageReadsAndLights
    \cup CoreTexturesToMatrices \cup ClientArrayPointers
    \cup ScissorToDepthRange \cup ImmediateColors
    \cup ImmediateIndexNormalRaster \cup ImmediateRasterRectTexCoord
    \cup ImmediateTexCoordVertexFog \cup LightingAndTexGen
    \cup EvaluatorsAndPixelTransfer \cup MatricesAndCopies
    \cup ClientStateAndMultiTexCoord \cup MultiTexCoordAndSecondaryColor
    \cup WindowPosAndQueries
=============================================================================
