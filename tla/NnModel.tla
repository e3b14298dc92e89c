------------------------------ MODULE NnModel ------------------------------
(***************************************************************************)
(* Loading a neural model: which runtime is asked for it, which ONNX       *)
(* Runtime execution provider is attached to the session, and how a        *)
(* failure is reported.                                                    *)
(*                                                                         *)
(* The host is what the library finds at run time:                         *)
(*   platform  "linux", "windows" or "mac"                                 *)
(*   built     the runtimes of this build, a subset of {"ort", "coreml"}   *)
(*   listed    the providers of this ONNX Runtime library                  *)
(*   broken    those whose attachment fails (no driver, no device)         *)
(*   rejects   those that accept the attachment but not the model          *)
(*   options   what this library makes of each CUDA provider option:       *)
(*             "ok", "unknown" or "refused"                                *)
(***************************************************************************)
EXTENDS Naturals, Sequences, FiniteSets

CONSTANTS
    Hosts,        \* the hosts to try
    Artifacts     \* the models to try: [kind, readable]

VARIABLES
    host,
    request,      \* the load call under way: [from, backend, artifact]
    chain,        \* the providers still to try
    active,       \* the backend attached, "none" before
    modelStatus   \* "idle", "resolving", "attaching", "creating" or the result of the call
modelVars == <<host, request, chain, active, modelStatus>>

Native == {"COREML"}
Providers == {"ORT_CPU", "ORT_CUDA", "ORT_TENSORRT", "ORT_COREML", "ORT_DIRECTML", "ORT_MIGRAPHX"}
Automatic == {"BACKEND_AUTO", "ORT_AUTO"}
Backends == Native \cup Providers \cup Automatic

NoRequest == [from |-> "none", backend |-> "none", artifact |-> [kind |-> "none", readable |-> FALSE]]

AutoChain ==
    CASE host.platform = "windows" -> <<"ORT_TENSORRT", "ORT_CUDA", "ORT_DIRECTML", "ORT_CPU">>
      [] host.platform = "mac" -> <<"ORT_COREML", "ORT_CPU">>
      [] OTHER -> <<"ORT_TENSORRT", "ORT_CUDA", "ORT_MIGRAPHX", "ORT_CPU">>
\* The mutant appends the CPU as a last resort to a pinned provider.
ChainWithLastResort(backend) == IF backend \in Automatic THEN AutoChain ELSE <<backend, "ORT_CPU">>
BuildAutoChain(backend) == IF backend \in Automatic THEN AutoChain ELSE <<backend>>

ProviderIsAvailable(p) == p = "ORT_CPU" \/ p \in host.listed

-----------------------------------------------------------------------------
(* The CUDA options: those the library does not know are dropped one by one *)
(* and the rest tried again; when that fails the shorter list is tried.     *)
Preferred == {"base", "tunable", "use_tf32", "prefer_nhwc"}
Compatibility == {"base", "tunable"}
ApplyEntries(entries) ==
    LET known == {e \in entries : host.options[e] # "unknown"}
    IN  known # {} /\ \A e \in known : host.options[e] = "ok"
AttachCuda == ApplyEntries(Preferred) \/ ApplyEntries(Compatibility)

OnItsPlatform(p) ==
    /\ p \in {"ORT_COREML"} => host.platform = "mac"
    /\ p = "ORT_DIRECTML" => host.platform = "windows"
    /\ p = "ORT_MIGRAPHX" => host.platform = "linux"
Attach(p) ==
    \/ p = "ORT_CPU"
    \/ /\ p \notin host.broken
       /\ OnItsPlatform(p)
       /\ p = "ORT_CUDA" => AttachCuda

-----------------------------------------------------------------------------
WantNative(r) ==
    \/ r.backend \in Native
    \/ r.backend = "BACKEND_AUTO" /\ r.from = "file" /\ r.artifact.kind = "mlpackage"

ModelInit ==
    /\ host \in Hosts
    /\ request = NoRequest
    /\ chain = <<>>
    /\ active = "none"
    /\ modelStatus = "idle"

LoadModel(from, backend, artifact) ==
    /\ modelStatus = "idle"
    /\ request' = [from |-> from, backend |-> backend, artifact |-> artifact]
    /\ modelStatus' = IF from = "memory" /\ backend \in Native THEN "INVALID_ARG" ELSE "resolving"
    /\ UNCHANGED <<host, chain, active>>

ResolveBackend ==
    /\ modelStatus = "resolving"
    /\ IF WantNative(request)
         THEN chain' = <<>> /\ (IF "coreml" \in host.built
                                 THEN active' = "COREML" /\ modelStatus' = "creating"
                                 ELSE active' = "none" /\ modelStatus' = "NN_BACKEND_UNAVAILABLE")
         ELSE active' = "none" /\ (IF "ort" \in host.built
                                    THEN chain' = BuildAutoChain(request.backend) /\ modelStatus' = "attaching"
                                    ELSE chain' = <<>> /\ modelStatus' = "NN_BACKEND_UNAVAILABLE")
    /\ UNCHANGED <<host, request>>

\* One turn of attachProviderChain; an exhausted chain is thrown out of the
\* session's constructor, which the entry point reports as a load failure.
AttachFails ==
    /\ modelStatus = "attaching"
    /\ chain = <<>>
    /\ modelStatus' = "NN_MODEL_LOAD"
    /\ UNCHANGED <<host, request, chain, active>>

TryProvider ==
    /\ modelStatus = "attaching"
    /\ chain # <<>>
    /\ IF ProviderIsAvailable(Head(chain)) /\ Attach(Head(chain))
         THEN active' = Head(chain) /\ modelStatus' = "creating" /\ chain' = <<>>
         ELSE chain' = Tail(chain) /\ UNCHANGED <<active, modelStatus>>
    /\ UNCHANGED <<host, request>>

Loads ==
    /\ request.artifact.readable
    /\ request.artifact.kind = IF active \in Native THEN "mlpackage" ELSE "onnx"
    /\ active \notin host.rejects
CreateSession ==
    /\ modelStatus = "creating"
    /\ modelStatus' = IF Loads THEN "OK" ELSE "NN_MODEL_LOAD"
    /\ UNCHANGED <<host, request, chain, active>>

ModelNext ==
    \/ \E from \in {"file", "memory"}, b \in Backends, a \in Artifacts : LoadModel(from, b, a)
    \/ ResolveBackend
    \/ AttachFails
    \/ TryProvider
    \/ CreateSession

-----------------------------------------------------------------------------
(* A loaded model runs on the provider that was pinned, or else on the first *)
(* of the platform's chain that this host lists and can attach               *)
(* (api-reference: "attaching the first that succeeds", "no fallback").      *)
BackendIsTheFirstThatAttaches ==
    modelStatus = "OK" /\ active \notin Native =>
        IF request.backend \in Providers
          THEN active = request.backend
          ELSE \E n \in 1 .. Len(AutoChain) :
                 /\ AutoChain[n] = active
                 /\ ProviderIsAvailable(active) /\ Attach(active)
                 /\ \A m \in 1 .. n - 1 : ~(ProviderIsAvailable(AutoChain[m]) /\ Attach(AutoChain[m]))

=============================================================================
