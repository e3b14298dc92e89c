----------------------------- MODULE MCHandles -----------------------------
(***************************************************************************)
(* A behaviour is one of three parts: decoders that share one video         *)
(* (SharedVideo), one caller from a file name to a committed decoder        *)
(* (DecoderLifecycle), or a neural decoder from its model to its frames     *)
(* (NnModel, NnTransform3D).                                                *)
(***************************************************************************)
EXTENDS SharedVideo, DecoderLifecycle, NnTransform3D, TLC

CONSTANTS d1, d2

\* Every capture of up to four fields, and those of five that alternate but for one
\* field that repeats or is lost.
Breaks(c) == {n \in 1 .. Len(c) - 1 : c[n] = c[n + 1]}
MCCaptures ==
  UNION {[1 .. n -> BOOLEAN] : n \in 0 .. 4} \cup {c \in [1 .. 5 -> BOOLEAN] : Cardinality(Breaks(c)) <= 1}

\* Three whole frames.
MCPlainCaptures == {<<TRUE, FALSE, TRUE, FALSE, TRUE, FALSE>>}

\* No field at all.
MCEmptyCaptures == {<<>>}

\* Decoders of one order, of the other, and of one each.
MCAllReversed == [d \in {d1, d2} |-> TRUE]
MCOneReversed == [d \in {d1, d2} |-> d = d1]

-----------------------------------------------------------------------------
\* Directories with a readable, a corrupt, or more than one sidecar.

Good(system) == [system |-> system, frames |-> 1, readable |-> TRUE]
Longer(system) == [system |-> system, frames |-> 2, readable |-> TRUE]
Corrupt == [system |-> "PAL", frames |-> 1, readable |-> FALSE]

Bare == [n \in SidecarName |-> Absent]
Holding(n, sidecar) == [Bare EXCEPT ![n] = sidecar]

MCDirectories ==
  {Bare, Holding("db", Corrupt), Holding("meta", Corrupt), Holding("db", Longer("PAL")),
   [Holding("json", Good("NTSC")) EXCEPT !.meta = Good("PAL")],
   [Holding("db", Good("SECAM")) EXCEPT !.json = Corrupt]}
  \cup {Holding("json", Good(s)) : s \in {"PAL", "PAL_M"}}
  \cup {Holding("meta", Good(s)) : s \in {"PAL", "NTSC"}}

MCNoDirectories == {Bare}

MCKinds == {"AUTO", "MONO", "NTSC_2D", "NN_TRANSFORM3D", "PAL_2D", "SECAM", "LDZEUG_LUMA_SEP", "NONE"}

-----------------------------------------------------------------------------
\* A few hosts, 4-sample tiles over two small areas, and fields in both orders.

CONSTANTS w1, w2

Fine == [o \in Preferred |-> "ok"]
Old == [Fine EXCEPT !["use_tf32"] = "unknown", !["prefer_nhwc"] = "refused"]
Host(platform, built, listed, broken, rejects, options) ==
    [platform |-> platform, built |-> built, listed |-> listed, broken |-> broken, rejects |-> rejects, options |-> options]
SomeHosts == {
    Host("linux", {"ort"}, {"ORT_CUDA"}, {}, {}, Fine),
    Host("linux", {"ort"}, {"ORT_CUDA", "ORT_TENSORRT"}, {"ORT_TENSORRT"}, {}, Old),
    Host("linux", {"ort"}, {"ORT_CUDA", "ORT_TENSORRT"}, {"ORT_CUDA"}, {"ORT_TENSORRT"}, Fine),
    Host("linux", {"ort"}, {"ORT_CUDA", "ORT_MIGRAPHX"}, {}, {}, [Fine EXCEPT !["base"] = "refused"]),
    Host("linux", {"ort"}, {}, {}, {}, Fine),
    Host("windows", {"ort"}, {"ORT_DIRECTML"}, {}, {}, Fine),
    Host("mac", {"ort", "coreml"}, {"ORT_COREML"}, {}, {"ORT_COREML"}, Fine)}
ModelFiles == {[kind |-> "onnx", readable |-> TRUE], [kind |-> "onnx", readable |-> FALSE],
               [kind |-> "mlpackage", readable |-> TRUE]}
SmallAreas == {[first |-> 3, last |-> 5, start |-> 2, end |-> 4],
               [first |-> 3, last |-> 4, start |-> 2, end |-> 4]}
BothOrders == {<<[offset |-> 0, id |-> 1], [offset |-> 1, id |-> 2]>>,
               <<[offset |-> 1, id |-> 3], [offset |-> 0, id |-> 4]>>,
               <<[offset |-> 0, id |-> 3], [offset |-> 1, id |-> 4]>>}
ActiveRowsDef == 1 .. 3

Alike == Permutations({w1, w2})

-----------------------------------------------------------------------------
VARIABLE part

Sharing == part = "sharing"
Neural == part = "neural"

\* The video of the other parts has no fields, and nobody decodes it.
NotSharing == Init /\ isFirst = <<>> /\ opened
\* A host whose model nobody loads.
NotNeural == NnInit /\ host = CHOOSE h \in Hosts : TRUE

MCInit ==
  \/ Sharing /\ Init /\ LifecycleInit /\ NotNeural
  \/ part = "opening" /\ NotSharing /\ LifecycleInit /\ NotNeural
  \/ Neural /\ NotSharing /\ LifecycleInit /\ NnInit

MCNext ==
  \/ Sharing /\ Next /\ UNCHANGED <<part, lifecycleVars, nnVars>>
  \/ part = "opening" /\ LifecycleNext /\ UNCHANGED <<part, vars, nnVars>>
  \/ Neural /\ NnNext /\ UNCHANGED <<part, vars, lifecycleVars>>

MCSpec == MCInit /\ [][MCNext]_<<part, vars, lifecycleVars, nnVars>>

\* Bounds the model: extra captures play no part in a commit.
ExtrasOrDecoder == video.extras = <<>> \/ decoder = NoDecoder

\* Bounds the model: two calls in all, of one thread or of two, on one backend of each
\* sort.
FewCalls ==
    /\ modelStatus = "bound" => active \in {"ORT_CUDA", "ORT_CPU", "COREML"}
    /\ work[w1].calls + work[w2].calls <= 2
    /\ work[w1].frames + work[w2].frames <= 3

Bounded == ExtrasOrDecoder /\ FewCalls
=============================================================================
