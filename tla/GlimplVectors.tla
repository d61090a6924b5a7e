---------------------------- MODULE GlimplVectors ---------------------------
(***************************************************************************)
(* The GL entry points of GL 1 and 2 that take or fill memory, in the      *)
(* order of the file, and the words each pushes.  See GlimplCalls for the  *)
(* notation.                                                               *)
(***************************************************************************)
EXTENDS GlimplCalls

(* glColor3fv .. glRasterPos4sv *)
VectorColorsNormalsRasters ==
  Aliases("V", Typed("COLOR", {3}, {"F", "I", "S", "UB", "UI", "US"})
    \cup Typed("COLOR", {4}, {"B", "D", "I", "S", "UB", "UI", "US"})
    \cup Typed("NORMAL", {3}, {"B", "D", "F", "I", "S"})
    \cup Typed("RASTERPOS", {2, 3, 4}, {"D", "F", "I", "S"}))

(* glTexCoord1dv .. glEvalCoord1fv *)
VectorTexCoordsVertices ==
  Aliases("V", Typed("TEXCOORD", {1, 2, 3, 4}, {"D", "F", "I", "S"})
    \cup Typed("VERTEX", {2, 3, 4}, {"D", "F", "I", "S"})
    \cup {"EVALCOORD1D", "EVALCOORD1F"})

(* glEvalCoord2dv .. glWindowPos2sv *)
VectorMultiTexCoords ==
  Aliases("V", Typed("MULTITEXCOORD", {1, 2, 3, 4}, {"D", "F", "I",
                            "S"})
    \cup Typed("SECONDARYCOLOR", {3}, {"B", "D", "F", "I", "S", "UB",
                 "UI", "US"})
    \cup Typed("WINDOWPOS", {2}, {"D", "F", "I", "S"})
    \cup {"EVALCOORD2D", "EVALCOORD2F"})

(* glWindowPos3dv .. glVertexAttribI3iv *)
VectorWindowPosUniformsAttribs ==
  Aliases("V", Typed("WINDOWPOS", {3}, {"D", "F", "I", "S"})
    \cup Typed("UNIFORM", {1, 2, 3, 4}, {"F", "I"})
    \cup Typed("VERTEXATTRIB", {1, 2, 3, 4}, {"D", "F", "S"})
    \cup Typed("VERTEXATTRIBI", {1, 2, 3}, {"I"})
    \cup {"VERTEXATTRIB4NUB"})

(* glVertexAttribI4iv .. glProgramUniform3fv *)
VectorIntegerAttribsUniforms ==
  Aliases("V", Typed("VERTEXATTRIBI", {1, 2, 3}, {"UI"})
    \cup Typed("UNIFORM", {1, 2, 3, 4}, {"UI", "D"})
    \cup Typed("PROGRAMUNIFORM", {1, 2}, {"I", "F", "D", "UI"})
    \cup {"VERTEXATTRIBI4I", "VERTEXATTRIBI4UI", "VERTEXATTRIBP1UI",
                 "TEXCOORDP1UI", "MULTITEXCOORDP1UI", "PROGRAMUNIFORM3I",
                 "PROGRAMUNIFORM3F"})

(* glProgramUniform3dv .. glLightModeliv *)
VectorProgramUniforms ==
  {Does("FOGIV", <<Push(Cmd("FOGI", I(2))), Push(Cmd("FOGF", I(1) \o F(1)))>>),
          Does("FOGIV", <<Push(Cmd("FOGFV", I(1) \o F(4)))>>)}
  \cup Aliases("V", Typed("PROGRAMUNIFORM", {4}, {"I", "F", "D", "UI"})
    \cup Typed("VERTEXATTRIBL", {1, 2, 3, 4}, {"D"})
    \cup {"INDEXD", "INDEXF", "INDEXI", "INDEXS", "INDEXUB", "RECTD",
                 "RECTF", "RECTI", "RECTS", "EDGEFLAG", "PROGRAMUNIFORM3D",
                 "PROGRAMUNIFORM3UI"})
  \cup Alias("LIGHTIV", "LIGHTFV")
  \cup Alias("LIGHTMODELIV", "LIGHTMODELFV")

(* glMaterialiv .. glMap2f *)
MaterialTexEnvMaps ==
  Sends(Forms({"POLYGONSTIPPLE"}, Raw(256))
    \cup Forms({"TEXENVFV"}, I(2) \o F(4)))
  \cup Asks(Forms({"FEEDBACKBUFFER"}, I(2))
    \cup Forms({"SELECTBUFFER"}, I(1)), "retv")
  \cup Uploads(Forms({"MAP1F"}, I(1) \o F(2) \o I(2)))
  \cup UploadAs("MAP1D", "MAP1F", I(1) \o F(2) \o I(2))
  \cup Map2Calls({"MAP2D", "MAP2F"})
  \cup SendAs("TEXENVFV", "TEXENVF", I(2) \o F(1))
  \cup SendAs("TEXENVIV", "TEXENVFV", I(6))
  \cup SendAs("TEXENVIV", "TEXENVI", I(3))
  \cup Aliases("V", {"TEXGEND", "TEXGENF", "TEXGENI"})
  \cup Alias("MATERIALIV", "MATERIALFV")

(* glPixelMapfv .. glGetMaterialfv *)
PixelMapsAndGetLights ==
  Asks(Forms({"GETCLIPPLANE", "GETLIGHTFV", "GETLIGHTIV",
                   "GETMATERIALFV"}, I(2)), "retv")
  \cup Uploads(Forms({"PIXELMAPFV", "PIXELMAPUIV"}, I(2)))
  \cup UploadAs("PIXELMAPUSV", "PIXELMAPUIV", I(2))
  \cup AskAs("GETCLIPPLANEF", "GETCLIPPLANE", I(2), "retv")
  \cup Stubs({"DRAWPIXELS", "GETMAPDV", "GETMAPFV", "GETMAPIV"})

(* glGetMaterialiv .. glGetTexParameteriv *)
GetMaterialTexParameters ==
  Sends(Forms({"TEXPARAMETERFV", "TEXPARAMETERIV"}, I(2) \o Raw(4)))
  \cup Asks(Forms({"GETMATERIALIV", "GETTEXENVFV", "GETTEXENVIV",
                   "GETTEXGENDV", "GETTEXGENFV", "GETTEXGENIV",
                   "GETTEXPARAMETERFV", "GETTEXPARAMETERIV"}, I(2)), "retv")
  \cup Alias("CALLLISTS", "CALLLIST")
  \cup SendAs("TEXPARAMETERFV", "TEXPARAMETERF", I(2) \o F(1))
  \cup SendAs("TEXPARAMETERIV", "TEXPARAMETERI", I(3))
  \cup Stubs({"GETPIXELMAPFV", "GETPIXELMAPUIV", "GETPIXELMAPUSV",
           "GETPOLYGONSTIPPLE"})

(* glGetTexLevelParameterfv .. glLoadTransposeMatrixf *)
TexLevelsAndCompressedImages ==
  Sends(Forms({"PRIORITIZETEXTURES"}, I(1) \o F(1))
    \cup Forms({"LOADTRANSPOSEMATRIXF"}, F(16)))
  \cup Asks(Forms({"GETTEXLEVELPARAMETERFV", "GETTEXLEVELPARAMETERIV"},
                   I(3)), "retv")
  \cup Asks(Forms({"ARETEXTURESRESIDENT"}, I(1)), "ret")
  \cup CompressedImage("COMPRESSEDTEXIMAGE3D", 3)
  \cup CompressedImage("COMPRESSEDTEXIMAGE2D", 2)
  \cup CompressedImage("COMPRESSEDTEXIMAGE1D", 1)
  \cup CompressedSubImage("COMPRESSEDTEXSUBIMAGE3D", 3)
  \cup CompressedSubImage("COMPRESSEDTEXSUBIMAGE2D", 2)
  \cup CompressedSubImage("COMPRESSEDTEXSUBIMAGE1D", 1)
  \cup Stubs({"GETPOINTERV", "GETCOMPRESSEDTEXIMAGE"})

(* glLoadTransposeMatrixd .. glGetActiveAttrib *)
TransposeMatricesAndBuffers ==
  Sends(Forms({"MULTTRANSPOSEMATRIXF"}, F(16))
    \cup Forms({"DELETEQUERIES"}, I(1)))
  \cup Asks(Forms({"GETQUERYIV", "GETQUERYOBJECTIV", "GETQUERYOBJECTUIV",
                   "GETBUFFERPARAMETERIV"}, I(2)), "ret")
  \cup Asks(Forms({"GETACTIVEATTRIB"}, I(3)), "retv")
  \cup Uploads(Forms({"BUFFERSUBDATA"}, I(3)))
  \cup CountedSends({"DRAWBUFFERS"}, <<>>, I(1))
  \cup SendsText({"BINDATTRIBLOCATION"}, I(2))
  \cup WholeMap("MAPBUFFER", "GETBUFFERPARAMETERIV")
  \cup SendAs("LOADTRANSPOSEMATRIXD", "LOADTRANSPOSEMATRIXF", F(16))
  \cup SendAs("MULTTRANSPOSEMATRIXD", "MULTTRANSPOSEMATRIXF", F(16))
  \cup Aliases("V", {"POINTPARAMETERF", "POINTPARAMETERI", "FOGCOORDF",
                            "FOGCOORDD"})
  \cup Alias("MULTIDRAWARRAYS", "DRAWARRAYS")
  \cup Alias("MULTIDRAWELEMENTS", "DRAWELEMENTS")
  \cup Stubs({"GETBUFFERSUBDATA", "GETBUFFERPOINTERV"})

(* glGetActiveUniform .. glUniformMatrix2fv *)
ActiveVariablesAndLogs ==
  Asks(Forms({"GETACTIVEUNIFORM"}, I(3))
    \cup Forms({"GETATTACHEDSHADERS", "GETPROGRAMINFOLOG",
                 "GETSHADERINFOLOG", "GETSHADERSOURCE", "GETVERTEXATTRIBDV",
                 "GETVERTEXATTRIBFV", "GETVERTEXATTRIBIV"}, I(2)), "retv")
  \cup Asks(Forms({"GETUNIFORMFV", "GETUNIFORMIV"}, I(2)), "ret")
  \cup Uploads(Forms({"UNIFORMMATRIX2FV"}, I(3)))
  \cup Stubs({"GETVERTEXATTRIBPOINTERV"})

(* glUniformMatrix3fv .. glUniformMatrix3x2fv *)
UniformMatricesAndByteAttribs ==
  Sends(Forms({"VERTEXATTRIB4NBV", "VERTEXATTRIB4NIV",
                    "VERTEXATTRIB4NSV", "VERTEXATTRIB4NUIV",
                    "VERTEXATTRIB4NUSV", "VERTEXATTRIB4BV", "VERTEXATTRIB4IV",
                    "VERTEXATTRIB4UBV", "VERTEXATTRIB4UIV",
                    "VERTEXATTRIB4USV"}, I(5)))
  \cup Uploads(Forms({"UNIFORMMATRIX3FV", "UNIFORMMATRIX2X3FV",
                      "UNIFORMMATRIX3X2FV"}, I(3)))

(* All of them *)
VectorCalls ==
  VectorColorsNormalsRasters \cup VectorTexCoordsVertices
    \cup VectorMultiTexCoords \cup VectorWindowPosUniformsAttribs
    \cup VectorIntegerAttribsUniforms \cup VectorProgramUniforms
    \cup MaterialTexEnvMaps \cup PixelMapsAndGetLights
    \cup GetMaterialTexParameters \cup TexLevelsAndCompressedImages
    \cup TransposeMatricesAndBuffers \cup ActiveVariablesAndLogs
    \cup UniformMatricesAndByteAttribs
=============================================================================
