------------------------- MODULE MCEvidencePipeline -------------------------
(* What lies between a URL and a cited answer, stage by stage: a behaviour  *)
(* is one of a single stage, chosen in the initial state, and the variables *)
(* of the others stay at one initial value.                                 *)
EXTENDS SafeFetch, Transcript, Research, EvidenceStore,
        EvidenceMigration, Dedup, Answers

VARIABLE stageRun

StageNames == {"fetch", "transcript", "research", "store", "migration",
               "dedup", "answers"}
Stays(s) == stageRun = s /\ UNCHANGED stageRun

networkVars == <<fetchVars, captionVars, researchVars>>
localVars == <<evidenceVars, migrationVars, dedupVars, answerVars>>
pipelineVars == <<stageRun, networkVars, localVars>>

PipelineInit ==
    /\ stageRun \in StageNames
    /\ FetchInit /\ (stageRun # "fetch" => \A h \in Hosts : dns[h] = {Least(Public)})
    /\ TranscriptInit /\ (stageRun # "transcript" => wanted = Unset)
    /\ ResearchInit
    /\ EvidenceInit
    /\ MigrationInit /\ (stageRun # "migration" => tables = {})
    /\ IF stageRun = "dedup" THEN DedupInit ELSE rows = <<>> /\ DedupInit
    /\ AnswersInit

FetchPart == FetchNext /\ UNCHANGED <<captionVars, researchVars, localVars>>
CaptionPart == TranscriptNext /\ UNCHANGED <<fetchVars, researchVars, localVars>>
ResearchPart == ResearchNext /\ UNCHANGED <<fetchVars, captionVars, localVars>>
StorePart == EvidenceNext /\ UNCHANGED <<networkVars, migrationVars, dedupVars, answerVars>>
MigrationPart == MigrationNext /\ UNCHANGED <<networkVars, evidenceVars, dedupVars, answerVars>>
DedupPart == DedupNext /\ UNCHANGED <<networkVars, evidenceVars, migrationVars, answerVars>>
AnswersPart == AnswersNext /\ UNCHANGED <<networkVars, evidenceVars, migrationVars, dedupVars>>

PipelineNext ==
    \/ Stays("fetch") /\ FetchPart
    \/ Stays("transcript") /\ CaptionPart
    \/ Stays("research") /\ ResearchPart
    \/ Stays("store") /\ StorePart
    \/ Stays("migration") /\ MigrationPart
    \/ Stays("dedup") /\ DedupPart
    \/ Stays("answers") /\ AnswersPart

(* EvidenceMigration's fairness, where the stage is the migration.          *)
Reopens(o) ==
    /\ Stays("migration") /\ (Open(o) \/ ConnStep(o))
    /\ UNCHANGED <<networkVars, evidenceVars, dedupVars, answerVars>>

PipelineSpec ==
    /\ PipelineInit /\ [][PipelineNext]_pipelineVars
    /\ \A o \in Openers : WF_pipelineVars(Reopens(o))
=============================================================================
