----------------------------- MODULE ModelBackend ------------------------------
(***************************************************************************)
(* ModelBackend: how a model is chosen from its file and its metadata, and *)
(* what becomes of a score.                                                *)
(*                                                                         *)
(* Of a model file and of the metadata beside it only what decides the     *)
(* number of inputs is kept; a file is [loads, shape].  A selection is     *)
(* what make_inference_backend returned, with the request it answers.      *)
(***************************************************************************)
EXTENDS InferencePolicy, Sequences, Functions

CONSTANTS
  Policies,      \* inference policies
  Files,         \* model files
  Metadata,      \* what metadata files may say
  FeatureCount,  \* kL2FeatureCount
  Version,       \* kL2FeatureVersion
  Latencies,     \* observed latencies
  Times          \* timestamps

VARIABLES
  policy,        \* policy_ of the measured engine
  runtime,       \* whether ONNX Runtime is compiled in
  selection,     \* the model in use, as a set of at most one
  scoring        \* what became of the last score

vars == <<policy, runtime, selection, scoring>>

Init ==
  /\ policy \in Policies
  /\ runtime \in BOOLEAN
  /\ selection = {} /\ scoring = "none"

Product(shape) == FoldFunction(LAMBDA dim, count : count * dim, 1, shape)

\* shape_value_count: 0 for a shape that is empty or not fixed.
ValueCount(shape) ==
  IF shape = <<>> \/ \E k \in DOMAIN shape : shape[k] <= 0 THEN 0 ELSE Product(shape)

\* validate_model_metadata, the name, the outputs and the test vectors apart.
ValidMetadata(m) ==
  /\ m.features > 0 /\ m.window > 0 /\ m.version > 0
  /\ ValueCount(m.input) # 0
  /\ ValueCount(m.input) = m.features * m.window

\* feature_contract_error: a field that is zero is not checked.
ChecksVersion(count, version) ==   \* mutation: the count is not compared
  version > 0 /\ version # Version
ContractError(count, version) ==
  \/ count > 0 /\ count # FeatureCount
  \/ version > 0 /\ version # Version

\* OnnxModel::OnnxModel: a file that does not load, or whose input is not
\* fixed, leaves the model unavailable.
Available(file) == file.loads /\ \A k \in DOMAIN file.shape : file.shape[k] > 0

\* make_inference_backend, with what the metadata says or with nothing said.
Selected(requested, file, metadata, stated) ==
  LET onnx == /\ requested = "Onnx"
              /\ ~ ContractError(IF stated THEN metadata.features ELSE 0,
                                 IF stated THEN metadata.version ELSE 0)
              /\ runtime /\ Available(file)
  IN  [requested |-> requested, file |-> file, metadata |-> metadata, stated |-> stated,
       active |-> IF onnx THEN "Onnx" ELSE "Linear",
       fellBack |-> requested = "Onnx" /\ ~ onnx]

\* A model is asked for.
Select(requested, file, metadata, stated) ==
  /\ stated => ValidMetadata(metadata)
  /\ selection' = {Selected(requested, file, metadata, stated)}
  /\ scoring' = "none"
  /\ UNCHANGED <<policy, runtime>>

\* OnnxModel::score throws unless it gets as many features as its input holds.
\* LinearModel::score takes as many as it has weights for.
Throws(s) ==
  s.active = "Onnx" /\ Product(s.file.shape) # FeatureCount

\* measure_inference of the features that extract_into takes from a view.
Score(latency, signal, now) ==
  /\ \E s \in selection :
        scoring' = IF Throws(s) THEN "throws"
                   ELSE Evaluate(policy, latency, signal, now).decision
  /\ UNCHANGED <<policy, runtime, selection>>

Next ==
  \/ \E requested \in {"Linear", "Onnx"}, file \in Files, metadata \in Metadata,
        stated \in BOOLEAN : Select(requested, file, metadata, stated)
  \/ \E latency \in Latencies, signal \in Times, now \in Times :
       Score(latency, signal, now)

Spec == Init /\ [][Next]_vars

-------------------------------------------------------------------------------
\* "Checked ... so a feature-contract mismatch falls back with a clear
\* diagnostic": scoring the extracted features throws only for a model whose
\* metadata was not stated, does not describe its file, or has several steps.
StatedModelsScore ==
  \A s \in selection :
     scoring = "throws" =>
       ~ s.stated \/ s.metadata.input # s.file.shape \/ s.metadata.window > 1
===============================================================================
