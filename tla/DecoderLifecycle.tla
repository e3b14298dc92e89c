-------------------------- MODULE DecoderLifecycle --------------------------
(***************************************************************************)
(* From a file name to a committed decoder: the open calls and the extra    *)
(* captures (src/src/abi/c_api_video.cpp), the options of a decoder, its    *)
(* commit (src/src/abi/c_api_decoder.cpp) and the decoder objects the       *)
(* registry builds for it (src/src/decoders/registry.cpp).                  *)
(*                                                                          *)
(* A capture is opened from a directory: what each sidecar beside the       *)
(* sample file says, Absent where there is none.  A plane is one opened     *)
(* source with its metadata; each of the two knows a video system, and a    *)
(* sidecar gives the raster of its own system.  Option values keep the      *)
(* cases the checks and the registry tell apart.  The calls of one decoder  *)
(* must not overlap (include/chromadec/decoder.h), so a call is one action; *)
(* what a commit writes into the video it shares with other decoders is in  *)
(* SharedVideo.                                                             *)
(***************************************************************************)
EXTENDS Naturals, Sequences, FiniteSets

CONSTANTS
  Directories,  \* the directories considered: [db, json, meta -> a sidecar or Absent]
  Kinds,        \* the decoder kinds a caller asks for
  OptionBudget, \* bounds how many options a caller sets
  MaxExtras     \* bounds the extra captures of a plane

System == {"PAL", "NTSC", "PAL_M", "SECAM"}
Is625Line(system) == system \in {"PAL", "SECAM"}

\* fieldWidth and fieldHeight: samples of a line, lines of a field.
Raster(system) ==
  CASE system = "NTSC" -> <<910, 263>>
    [] system = "PAL_M" -> <<909, 263>>
    [] OTHER -> <<1135, 313>>

Sidecar == [system : System, frames : Nat, readable : BOOLEAN]
Absent == [system |-> "none", frames |-> 0, readable |-> FALSE]
SidecarName == {"db", "json", "meta"}

ASSUME DirectoriesAssumption ==
  \A d \in Directories : \A n \in SidecarName :
    \/ d[n] = Absent
    \/ d[n] \in Sidecar /\ (n = "meta" => d[n].system # "SECAM")

\* The override of an open call: its standard, and whether encoding and signal state are set.
NoOverride == [given |-> FALSE, standard |-> "UNKNOWN", complete |-> FALSE]
Override == {NoOverride} \cup
  [given : {TRUE}, standard : System \cup {"UNKNOWN"}, complete : BOOLEAN]

VARIABLES
  video,   \* NoVideo, or the planes of the open video and its extra captures
  decoder  \* NoDecoder, or one decoder of that video

lifecycleVars == <<video, decoder>>

NoPlane == [source |-> "none", metadata |-> "none", raster |-> <<0, 0>>, frames |-> 0,
            synthesized |-> FALSE]
Plane == [source : System, metadata : System, raster : {Raster(s) : s \in System},
          frames : Nat, synthesized : BOOLEAN]
NoVideo == [luma |-> NoPlane, chroma |-> NoPlane, extras |-> <<>>, chromaExtras |-> <<>>]
NoInstance == [kind |-> "none", system |-> "none", engine |-> FALSE, filter |-> "none",
               phaseCompensation |-> FALSE, profile |-> FALSE, upper |-> FALSE, ident |-> "auto"]
NoDecoder == [kind |-> "none", options |-> <<>>, model |-> FALSE, committed |-> FALSE,
              built |-> NoInstance, builtChroma |-> NoInstance]

IsOpen == video # NoVideo
HasDecoder == decoder # NoDecoder
YcMerge == video.chroma # NoPlane

LifecycleInit == video = NoVideo /\ decoder = NoDecoder

----------------------------------------------------------------------------
\* Opening.

\* resolveSidecarFlavour: an explicit sidecar, or the first of the three beside the file.
Resolve(dir, path) ==
  LET name == IF path # "auto" THEN path
              ELSE IF dir.db # Absent THEN "db"
              ELSE IF dir.json # Absent THEN "json" ELSE "meta"
  IN  [explicit |-> path # "auto", found |-> dir[name] # Absent,
       isCvbs |-> name = "meta", sidecar |-> dir[name]]

Redeclare(plane, system) == [plane EXCEPT !.source = system, !.metadata = system]

\* An ld-decode capture: the source binds the metadata's parameters once they are final.  An
\* override declares another standard, and leaves the raster the sidecar gives.
OpenLd(sidecar, override) ==
  LET system == IF override.standard = "UNKNOWN" THEN sidecar.system ELSE override.standard
  IN  IF ~sidecar.readable \/ Is625Line(system) # Is625Line(sidecar.system) THEN NoPlane
      ELSE Redeclare([NoPlane EXCEPT !.raster = Raster(sidecar.system),
                                     !.frames = sidecar.frames], system)

\* resolveCvbsParams: the sidecar's standard, or the override's; SECAM stands on PAL's preset.
CvbsPreset(sidecar, override) ==
  IF sidecar # Absent
  THEN IF sidecar.readable /\ (override.standard = "SECAM" => sidecar.system = "PAL")
       THEN sidecar.system ELSE "none"
  ELSE IF ~override.given \/ ~override.complete \/ override.standard = "UNKNOWN" THEN "none"
       ELSE IF override.standard = "SECAM" THEN "PAL" ELSE override.standard

\* A CVBS capture: metadata synthesized from the source, then both re-declared for SECAM.
OpenCvbs(sidecar, override) ==
  LET preset == CvbsPreset(sidecar, override)
      opened == [source |-> preset, metadata |-> preset, raster |-> Raster(preset),
                 frames |-> IF sidecar = Absent THEN 1 ELSE sidecar.frames,
                 synthesized |-> TRUE]
  IN  IF preset = "none" THEN NoPlane
      ELSE IF override.standard = "SECAM" THEN Redeclare(opened, "SECAM") ELSE opened

\* openCompositeSource: NoPlane stands for every error.
OpenSource(sc, override) ==
  IF sc.explicit /\ ~sc.found THEN NoPlane
  ELSE IF sc.found /\ ~sc.isCvbs THEN OpenLd(sc.sidecar, override)
  ELSE OpenCvbs(sc.sidecar, override)

\* The chroma plane's own sidecar, or the luma plane's, which the pair then shares.
ChromaSidecar(sc, chromaDir) ==
  IF Resolve(chromaDir, "auto").found THEN Resolve(chromaDir, "auto") ELSE sc

SameRaster(p, q) == p.raster = q.raster

\* The sample file itself may fail to open: the disjunct that leaves everything as it was.
OpenComposite(dir, path, override) ==
  /\ OpenSource(Resolve(dir, path), override) # NoPlane
  /\ video' = [NoVideo EXCEPT !.luma = OpenSource(Resolve(dir, path), override)]
  /\ UNCHANGED decoder

\* Without an ld-decode sidecar one reader serves both files; an explicit one that is
\* missing is not reported, and the sidecar beside the file is used.
OpenYcSingle(dir, path, override) ==
  LET sc == Resolve(dir, path)
      plane == OpenCvbs(IF sc.found THEN sc.sidecar ELSE dir.meta, override)
  IN  /\ ~sc.found \/ sc.isCvbs
      /\ plane # NoPlane
      /\ video' = [NoVideo EXCEPT !.luma = plane]
      /\ UNCHANGED decoder

OpenYcMerge(dir, path, chromaDir, override) ==
  LET sc == Resolve(dir, path)
      luma == OpenSource(sc, override)
      chroma == OpenSource(ChromaSidecar(sc, chromaDir), override)
  IN  /\ sc.found /\ ~sc.isCvbs
      /\ luma # NoPlane /\ chroma # NoPlane
      /\ SameRaster(luma, chroma)
      /\ luma.frames = chroma.frames
      /\ video' = [NoVideo EXCEPT !.luma = luma, !.chroma = chroma]
      /\ UNCHANGED decoder

Open ==
  /\ ~IsOpen
  /\ \E dir \in Directories, path \in {"auto"} \cup SidecarName, override \in Override :
       \/ OpenComposite(dir, path, override)
       \/ OpenYcSingle(dir, path, override)
       \/ \E chromaDir \in Directories : OpenYcMerge(dir, path, chromaDir, override)

\* Extra captures, before any decoder is created (docs/api-reference.md).
MayAddExtra == IsOpen /\ ~HasDecoder /\ Len(video.extras) < MaxExtras

Appended(extras, plane) == IF plane = NoPlane THEN extras ELSE Append(extras, plane)

AddExtraComposite(dir, path) ==
  /\ video' = [video EXCEPT !.extras = Appended(@, OpenSource(Resolve(dir, path), NoOverride))]
  /\ UNCHANGED decoder

\* The luma extra is appended before the chroma one is opened: that may then fail.
AddExtraYc(dir, path, chromaDir) ==
  LET sc == Resolve(dir, path)
      luma == OpenSource(sc, NoOverride)
      chroma == OpenSource(ChromaSidecar(sc, chromaDir), NoOverride)
      single == OpenCvbs(IF sc.found THEN sc.sidecar ELSE dir.meta, NoOverride)
  IN  /\ video' = IF ~sc.found \/ sc.isCvbs THEN [video EXCEPT !.extras = Appended(@, single)]
                  ELSE IF luma = NoPlane THEN video
                  ELSE [video EXCEPT !.extras = Append(@, luma),
                                     !.chromaExtras = Appended(@, chroma)]
      /\ UNCHANGED decoder

AddExtra ==
  /\ MayAddExtra
  /\ \E dir \in Directories, path \in {"auto"} \cup SidecarName :
       \/ AddExtraComposite(dir, path)
       \/ \E chromaDir \in Directories : AddExtraYc(dir, path, chromaDir)

FreeVideo == IsOpen /\ ~HasDecoder /\ video' = NoVideo /\ UNCHANGED decoder

----------------------------------------------------------------------------
\* Options.

CombKind == {"NTSC_1D", "NTSC_2D", "NTSC_3D", "NTSC_3D_NO_ADAPT", "NN_TRANSFORM3D"}
PalKind == {"PAL_2D", "TRANSFORM_2D", "TRANSFORM_3D"}
LdzeugKind == {"LDZEUG_COLOR_CNN", "LDZEUG_LUMA_SEP", "LDZEUG_LUMA_SEP_FRAME"}
UsesNn(kind) == kind = "NN_TRANSFORM3D" \/ kind \in LdzeugKind

ASSUME KindsAssumption ==
  Kinds \subseteq CombKind \cup PalKind \cup LdzeugKind \cup {"AUTO", "MONO", "SECAM", "NONE"}

OptionValues ==
  [format |-> {"rgb", "gray", "yuv440", "misspelt"},
   y4m |-> {"on"},
   padding |-> {"out of range"},
   crop |-> {"not a multiple of 4", "outside", "left edge"},
   filter |-> {"compat", "equiband_wide", "equiband", "wideband_i_ssb", "equiband_vsb"},
   upper |-> {"in range", "out of range"},
   profile |-> {"active", "inert"},
   phaseCompensation |-> {"on", "off"},
   identMode |-> {"porch", "manual"},
   identManual |-> {"dr_first", "misspelt"},
   clickLevel |-> {"off", "out of range"},
   clickThreshold |-> {"positive", "out of range"}]

OptionName == DOMAIN OptionValues
IsSet(options, name) == options[name] # "unset"
NoOptions == [name \in OptionName |-> "unset"]
Get(options, name, default) == IF IsSet(options, name) THEN options[name] ELSE default

\* optionApplies, and the profile's own gate isNtscCombKind.
OptionApplies(kind, name) ==
  CASE name \in {"format", "y4m", "padding", "crop"} -> TRUE
    [] name \in {"filter", "upper"} -> kind \in CombKind \cup PalKind \cup {"AUTO"}
    [] name = "phaseCompensation" -> kind \in CombKind \cup LdzeugKind \cup {"AUTO"}
    [] name = "profile" -> kind \in CombKind \cup {"AUTO"}
    [] OTHER -> kind = "SECAM"

Create(kind) ==
  /\ IsOpen /\ ~HasDecoder
  /\ decoder' = [NoDecoder EXCEPT !.kind = kind, !.options = NoOptions]
  /\ UNCHANGED video

SetOption(name, value) ==
  /\ HasDecoder /\ ~decoder.committed
  /\ OptionApplies(decoder.kind, name)
  /\ Cardinality({n \in OptionName \ {name} : IsSet(decoder.options, n)}) < OptionBudget
  /\ decoder' = [decoder EXCEPT !.options[name] = value]
  /\ UNCHANGED video

\* m = FALSE stands for the null model, which takes a pending one back.
SetNnModel(m) ==
  /\ HasDecoder /\ ~decoder.committed
  /\ UsesNn(decoder.kind) \/ decoder.kind = "AUTO"
  /\ decoder' = [decoder EXCEPT !.model = m]
  /\ UNCHANGED video

FreeDecoder == HasDecoder /\ decoder' = NoDecoder /\ UNCHANGED video

----------------------------------------------------------------------------
\* Commit.

ResolveAuto(kind, system) ==
  IF kind # "AUTO" THEN kind
  ELSE CASE system = "NTSC" -> "NTSC_2D"
         [] system \in {"PAL", "PAL_M"} -> "PAL_2D"
         [] OTHER -> "SECAM"

\* resolveChromaFilter: which intents a system has.
FilterValid(filter, system) ==
  CASE filter \in {"equiband_wide", "wideband_i_ssb"} -> system \notin {"PAL", "PAL_M"}
    [] filter = "equiband_vsb" -> system \in {"PAL", "PAL_M"}
    [] OTHER -> TRUE

OutputAccepted(o, system) ==
  LET format == Get(o, "format", "yuv444") IN
  /\ o.padding # "out of range"
  /\ format # "misspelt"
  /\ system = "SECAM" => format \in {"yuv440", "gray"}
  /\ format = "yuv440" => system = "SECAM" /\ o.y4m # "on"

ChromaFilterAccepted(o, system) ==
  /\ IsSet(o, "filter") => system # "SECAM" /\ FilterValid(o.filter, system)
  /\ IsSet(o, "upper") <=> o.filter = "equiband_vsb"
  /\ o.upper # "out of range"
  /\ o.profile = "active" => o.filter = "wideband_i_ssb"

IdentAccepted(o) ==
  /\ o.identManual # "misspelt"
  /\ IsSet(o, "identManual") <=> o.identMode = "manual"

ClickAccepted(o) ==
  /\ o.clickLevel # "out of range"
  /\ IsSet(o, "clickThreshold") => o.clickThreshold = "positive" /\ o.clickLevel # "off"

CropAccepted(o) ==
  /\ o.crop # "outside"
  /\ o.format = "yuv440" => o.crop # "not a multiple of 4"

OptionsAccepted(o, system) ==
  /\ OutputAccepted(o, system)
  /\ ChromaFilterAccepted(o, system)
  /\ IdentAccepted(o)
  /\ ClickAccepted(o)
  /\ CropAccepted(o)

\* combModeFor: an intent the comb does not know becomes its loose default.
CombModeFor(filter) ==
  IF filter \in {"equiband", "color_under", "wideband_i_ssb"} THEN filter ELSE "equiband_wide"

\* registry::build() with fillCombConfig() and fillPalConfig().
CombInstance(kind, o) ==
  LET mode == CombModeFor(Get(o, "filter", "compat")) IN
  [NoInstance EXCEPT
    !.kind = kind,
    !.filter = mode,
    !.phaseCompensation = \/ o.phaseCompensation = "on"
                          \/ mode = "wideband_i_ssb" /\ ~IsSet(o, "phaseCompensation"),
    !.profile = o.profile = "active"]

PalInstance(kind, o) ==
  [NoInstance EXCEPT !.kind = kind, !.filter = Get(o, "filter", "compat"),
                     !.upper = IsSet(o, "upper")]

Build(kind, o) ==
  CASE kind \in CombKind -> CombInstance(kind, o)
    [] kind \in PalKind -> PalInstance(kind, o)
    [] kind = "SECAM" -> [NoInstance EXCEPT !.kind = kind, !.ident = Get(o, "identMode", "auto")]
    [] kind \in LdzeugKind ->
         [NoInstance EXCEPT !.kind = kind,
                            !.phaseCompensation = o.phaseCompensation = "on"]
    [] OTHER -> [NoInstance EXCEPT !.kind = kind]

\* Decoder::configure() of each family, given the metadata's parameters.
Configures(kind, system, crop) ==
  CASE kind \in CombKind -> system = "NTSC" /\ crop # "left edge"
    [] kind \in PalKind -> system \in {"PAL", "PAL_M"}
    [] kind \in LdzeugKind -> system = "NTSC"
    [] kind = "SECAM" -> system = "SECAM"
    [] OTHER -> TRUE

\* buildDecoders for one kind: applyNnModel(), then configure().
Instance(kind, model, applyNn) ==
  LET bound == applyNn /\ model
      system == video.luma.metadata
  IN  IF (bound => UsesNn(kind)) /\ Configures(kind, system, decoder.options.crop)
      THEN [Build(kind, decoder.options) EXCEPT !.system = system, !.engine = bound]
      ELSE NoInstance

Resolved == ResolveAuto(decoder.kind, video.luma.source)

\* Mutant: a neural kind is built whether a model is bound or not.
EngineOptional == TRUE

\* A neural kind without a model fails fast.
EngineReady == UsesNn(Resolved) => decoder.model

CommitNone ==
  /\ HasDecoder /\ ~decoder.committed /\ decoder.kind = "NONE"
  /\ OptionsAccepted(decoder.options, video.luma.source)
  /\ decoder' = [decoder EXCEPT !.committed = TRUE]
  /\ UNCHANGED video

CommitDecoder ==
  LET main == Instance(IF YcMerge THEN "MONO" ELSE Resolved, decoder.model, ~YcMerge)
      chroma == Instance(Resolved, decoder.model, TRUE)
  IN  /\ HasDecoder /\ ~decoder.committed /\ decoder.kind # "NONE"
      /\ OptionsAccepted(decoder.options, video.luma.source)
      /\ EngineReady
      /\ main # NoInstance
      /\ YcMerge => chroma # NoInstance
      /\ decoder' = [decoder EXCEPT !.committed = TRUE, !.built = main,
                                    !.builtChroma = IF YcMerge THEN chroma ELSE NoInstance]
      /\ UNCHANGED video

LifecycleNext ==
  \/ Open \/ AddExtra \/ FreeVideo
  \/ \E kind \in Kinds : Create(kind)
  \/ \E name \in OptionName : \E value \in OptionValues[name] : SetOption(name, value)
  \/ \E m \in BOOLEAN : SetNnModel(m)
  \/ CommitNone \/ CommitDecoder
  \/ FreeDecoder

LifecycleSpec == LifecycleInit /\ [][LifecycleNext]_lifecycleVars

----------------------------------------------------------------------------
\* Properties.

Planes == {video.luma, video.chroma} \cup
          {video.extras[i] : i \in 1..Len(video.extras)} \cup
          {video.chromaExtras[i] : i \in 1..Len(video.chromaExtras)}
Instances == {decoder.built, decoder.builtChroma} \ {NoInstance}

Video == [luma : Plane \cup {NoPlane}, chroma : Plane \cup {NoPlane},
          extras : Seq(Plane), chromaExtras : Seq(Plane)]

OptionValue == {"unset"} \cup UNION {OptionValues[n] : n \in OptionName}
Options == {o \in [OptionName -> OptionValue] :
              \A n \in OptionName : IsSet(o, n) => o[n] \in OptionValues[n]}

InstanceKind == CombKind \cup PalKind \cup LdzeugKind \cup {"MONO", "SECAM", "none"}
InstanceRecord ==
  [kind : InstanceKind, system : System \cup {"none"}, engine : BOOLEAN,
   filter : OptionValues.filter \cup {"none"}, phaseCompensation : BOOLEAN,
   profile : BOOLEAN, upper : BOOLEAN, ident : OptionValues.identMode \cup {"auto"}]
Decoder == [kind : Kinds, options : Options, model : BOOLEAN, committed : BOOLEAN,
            built : InstanceRecord, builtChroma : InstanceRecord]

\* The video is a set of opened planes, and the decoder has a kind that was asked for, an
\* admissible value for every option set and instances the registry makes.
LifecycleTypeOK == video \in Video /\ (HasDecoder => decoder \in Decoder)

\* Every opened source and its metadata name the same video system, however the capture's
\* standard came about: commit() chooses the decoder kind and the output rules by the source's
\* and configures the decoders with the metadata's.
SourceAndMetadataAgree == \A p \in Planes : p.source = p.metadata

\* A committed decoder holds what its decode calls use: a Mono decoder for the luma plane of a
\* pair and the colour one for its chroma, each of a kind that decodes the video's standard,
\* with an inference engine exactly where the kind runs one.  The colour decoder is configured
\* with the luma plane's parameters: the chroma plane it reads has the lines they declare, also
\* when it has a sidecar of its own and an override re-declared the pair.
CommittedDecoderFits ==
  (decoder.committed /\ decoder.kind # "NONE") =>
    /\ decoder.built # NoInstance
    /\ YcMerge <=> decoder.builtChroma # NoInstance
    /\ YcMerge => /\ decoder.built.kind = "MONO"
                  /\ Is625Line(decoder.builtChroma.system) <=> Is625Line(video.chroma.source)
    /\ \A i \in Instances : /\ UsesNn(i.kind) <=> i.engine
                            /\ Configures(i.kind, video.luma.source, "whole")

\* The registry trusts commit's checks and degrades what it does not know: a chroma filter, a
\* sideband profile or an ident mode a caller asked for is the one the decoder was built with.
BuiltAsAsked ==
  (decoder.committed /\ decoder.kind # "NONE") =>
    LET o == decoder.options IN
    /\ IsSet(o, "filter") =>
         \E i \in Instances : i.filter = o.filter \/ (o.filter = "compat" /\ i.filter = "equiband_wide")
    /\ o.profile = "active" =>
         \E i \in Instances : i.kind \in CombKind /\ i.profile /\ i.filter = "wideband_i_ssb"
    /\ \A i \in Instances : i.upper <=> i.filter = "equiband_vsb"
    /\ IsSet(o, "identMode") => \E i \in Instances : i.ident = o.identMode

\* Together: a committed decoder is usable on its video and is the one asked for.
CommittedDecoderIsTheOneAsked ==
  LifecycleTypeOK /\ SourceAndMetadataAgree /\ CommittedDecoderFits /\ BuiltAsAsked

=============================================================================
