----------------------------- MODULE JobIntake -----------------------------
(***************************************************************************)
(* What happens to a payload between the queue and the DAG builder:        *)
(* normalisation, extraction of contexts and graphs (utils/) and the       *)
(* predictions of the state interface (completeContext).                   *)
(*                                                                         *)
(* A payload is a record: the sections of it in which the normaliser finds *)
(* errors, whether the data context names an extension, and the pipeline,  *)
(* whose stages depend on stages by id.  Scores, priorities, sizes and the *)
(* predicted numbers are data.                                             *)
(***************************************************************************)
EXTENDS Naturals, Sequences

CONSTANTS Jobs, Stages

(* Where normalizeAndValidate() looks for errors.                          *)
Sections == {"jobId", "modality", "priorityMetadata", "workloadData", "dataContext",
             "pipeline", "computed", "meta"}

Stage == [stage : Stages, dependsOn : Seq(Stages)]

Payload == [job : Jobs, isObject : BOOLEAN, fits : BOOLEAN, malformed : SUBSET Sections,
            extension : BOOLEAN, pipeline : Seq(Stage)]

(* _deepCamel() throws on a payload that is too large or too deep; the     *)
(* sections are checked after it, every one of them.                       *)
ErrorsOf(raw) ==
  IF ~raw.isObject THEN {"root"}
  ELSE IF ~raw.fits THEN {"size"}
  ELSE raw.malformed \cup (IF raw.pipeline = <<>> THEN {"pipeline"} ELSE {})

(* validateOne().                                                          *)
Validates(raw) == ErrorsOf(raw) = {}

(* profileContext(): every dependency names a stage of the pipeline.  The  *)
(* other things it checks the normaliser has seen to.                      *)
StageIds(raw) == {raw.pipeline[i].stage : i \in DOMAIN raw.pipeline}

DependenciesKnown(raw) ==
  \A i \in DOMAIN raw.pipeline : \A k \in DOMAIN raw.pipeline[i].dependsOn :
    raw.pipeline[i].dependsOn[k] \in StageIds(raw)

(* extract() of one payload: the phase it fails in.  extractForDagBuilder  *)
(* refuses nothing that has come so far, so that phase is never seen.      *)
Phase(raw) ==
  IF ~Validates(raw) THEN "normalization_error"
  ELSE IF ~DependenciesKnown(raw) THEN "context_extraction_error"
  ELSE "passed"

(* The contexts of profileContext(), one for each stage.                   *)
Contexts(raw) ==
  [i \in DOMAIN raw.pipeline |->
     [job |-> raw.job, stage |-> raw.pipeline[i].stage, extension |-> raw.extension]]

(* completeContext(): an entry without extension becomes an error record,  *)
(* which the schema of the builder refuses; the stores have predictions    *)
(* for every other one, but a spawn latency that has been learned, as for  *)
(* the stages in "learned", is not the integer the schema asks for.        *)
CompleteContext(contexts, learned) ==
  [i \in DOMAIN contexts |->
     [job |-> contexts[i].job, stage |-> contexts[i].stage,
      valid |-> contexts[i].extension /\ <<contexts[i].job, contexts[i].stage>> \notin learned]]

(* extractForDagBuilder(): the job for the builder.                        *)
DagOf(raw) == [job |-> raw.job, stages |-> raw.pipeline]

=============================================================================
