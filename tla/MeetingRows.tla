----------------------------- MODULE MeetingRows -----------------------------
(***************************************************************************)
(* The `meetings` row and what one SQL statement does to it.               *)
(*                                                                         *)
(* The worker (worker/src/slusko_worker/db/queue.py) and the web app       *)
(* (web/app/lib/meetings-mutations.server.ts) talk to each other only      *)
(* through this row.  Each operator below takes the row a statement found  *)
(* and returns the row it leaves; the WHERE clause of the statement is the *)
(* guard of the action that uses the operator (module MeetingPipeline).    *)
(*                                                                         *)
(* An operator introduced as a "variant" is wrong on purpose: no           *)
(* definition uses it, and the README says which property tells it from    *)
(* the real one.                                                           *)
(*                                                                         *)
(* SQL null is the string "none" (progress: NoProgress, latest: 0), and    *)
(* `language is null` ("Auto-detect") is "auto".                           *)
(***************************************************************************)
EXTENDS Integers

CONSTANTS Explicit,     \* language codes a user may request ("sr", "en")
          Detectable    \* language codes the transcriber may report

ASSUME LanguageAssumption ==
  /\ "auto" \notin Explicit
  /\ "none" \notin Explicit \union Detectable

Languages == Explicit \union {"auto"}

Stages == {"normalizing", "transcribing", "diarizing", "summarizing"}

NonTerminal == Stages \union {"pending"}

Statuses == NonTerminal \union {"done", "error"}

\* "corrupt_audio" is `normalization_failed` with a message that
\* isCorruptAudioNormalizationFailure recognises: the only use of the message
\* that decides anything.
ErrorKinds == {"normalization_failed", "corrupt_audio", "transcription_failed",
               "transcription_empty", "diarization_failed",
               "summarization_failed", "config_missing", "unknown"}

RegenerationStatuses == {"idle", "pending", "processing", "failed"}

NoProgress == -1

(***************************************************************************)
(* `overdue` stands for the two timestamps the claim compares with now():  *)
(* updated_at of a row at a worker stage, and                              *)
(* summary_regeneration_processing_started_at of a done row.  It is TRUE   *)
(* when that timestamp is older than RECOVERY_RECLAIM_INTERVAL.            *)
(***************************************************************************)
Row == [status   : Statuses \union {"absent", "deleted"},
        resume   : Stages \union {"none"},
        progress : -1 .. 100,
        kind     : ErrorKinds \union {"none"},
        failedAt : Stages \union {"none"},
        lang     : Languages,
        detected : Detectable \union {"none"},
        regen    : RegenerationStatuses,
        latest   : Nat,
        overdue  : BOOLEAN]

\* No such row: not inserted yet ("absent") or deleted; ids are random UUIDs, so
\* a deleted meeting never comes back.
NoRow == [status |-> "absent", resume |-> "none", progress |-> NoProgress,
          kind |-> "none", failedAt |-> "none", lang |-> "auto",
          detected |-> "none", regen |-> "idle", latest |-> 0,
          overdue |-> FALSE]

DeletedRow == [NoRow EXCEPT !.status = "deleted"]

Present(r) == r.status \in Statuses

\* The row insertAndNotifyPendingMeeting inserts.
PendingRow(lang) == [NoRow EXCEPT !.status = "pending", !.lang = lang]

\* meetings_detected_language_auto_only_check: a statement whose result breaks
\* it is rejected by Postgres.
SatisfiesCheck(r) == r.detected = "none" \/ r.lang = "auto"

-----------------------------------------------------------------------------
(* Claiming: CLAIM_NEXT_MEETING_SQL.                                        *)

PipelineClaimable(r) ==
  \/ r.status = "pending"
  \/ r.status \in Stages /\ r.overdue

\* Variant: the claim forgets regenerations whose worker died.
RegenerationClaimableOnce(r) == r.status = "done" /\ r.regen = "pending"

RegenerationClaimable(r) ==
  /\ r.status = "done"
  /\ \/ r.regen = "pending"
     \/ r.regen = "processing" /\ r.overdue

\* Variant: the claim returns the row's status without the stage to resume from.
ClaimedStatusUnresumed(r) == r.status

\* The `status` the claim returns: the stage to resume from, else the status
\* the row had, so a first claim returns "pending" for a row it has already
\* moved to "normalizing".
ClaimedStatus(r) ==
  IF r.status = "pending" /\ r.resume # "none" THEN r.resume ELSE r.status

\* Variant: no coalesce around resume_from_stage.
ClaimedWithoutDefault(r) ==
  [r EXCEPT !.status = IF r.status = "pending" THEN r.resume ELSE @,
            !.resume = "none", !.overdue = FALSE]

Claimed(r) ==
  CASE r.status = "pending" ->
         [r EXCEPT !.status = IF r.resume = "none" THEN "normalizing"
                                                   ELSE r.resume,
                   !.resume = "none", !.progress = NoProgress,
                   !.kind = "none", !.failedAt = "none", !.overdue = FALSE]
    [] r.status = "done" ->
         [r EXCEPT !.regen = "processing", !.resume = "none",
                   !.overdue = FALSE]
    [] OTHER -> [r EXCEPT !.resume = "none", !.overdue = FALSE]

-----------------------------------------------------------------------------
(* The worker's status writes.                                              *)

ClearFailure(r) ==
  [r EXCEPT !.resume = "none", !.kind = "none", !.failedAt = "none",
            !.overdue = FALSE]

NormalizationStarted(r) ==
  [ClearFailure(r) EXCEPT !.status = "normalizing", !.progress = NoProgress]

TranscriptionStarted(r) ==
  [ClearFailure(r) EXCEPT !.status = "transcribing", !.progress = 0,
                          !.detected = "none"]

TranscriptionProgressed(r, p) ==
  [r EXCEPT !.progress = p, !.overdue = FALSE]

\* Variant: the wrong next status.
TranscriptionSucceededTooFar(r, detected) ==
  [ClearFailure(r) EXCEPT !.status = "summarizing", !.progress = 100,
                          !.detected = detected]

TranscriptionSucceeded(r, detected) ==
  [ClearFailure(r) EXCEPT !.status = "diarizing", !.progress = 100,
                          !.detected = detected]

DiarizationStarted(r) == [ClearFailure(r) EXCEPT !.status = "diarizing"]

DiarizationSucceeded(r) == [ClearFailure(r) EXCEPT !.status = "summarizing"]

SummarizationStarted(r) == [ClearFailure(r) EXCEPT !.status = "summarizing"]

SummarizationSucceeded(r) ==
  [ClearFailure(r) EXCEPT !.status = "done", !.progress = 100, !.latest = 1]

\* Variant: the new version is not made the latest.
RegenerationSucceededUnlinked(r) ==
  [r EXCEPT !.regen = "idle", !.overdue = FALSE]

RegenerationSucceeded(r) ==
  [r EXCEPT !.latest = r.latest + 1, !.regen = "idle", !.overdue = FALSE]

RegenerationFailed(r) == [r EXCEPT !.regen = "failed", !.overdue = FALSE]

Failed(r, kind, stage) ==
  [r EXCEPT !.status = "error", !.resume = "none", !.kind = kind,
            !.failedAt = stage, !.progress = NoProgress, !.overdue = FALSE]

-----------------------------------------------------------------------------
(* The web app's updates.  A handler reads the row, computes the columns it *)
(* will write from what it read, and writes them in a later statement.      *)

Update == [resume : Stages \union {"none"}, lang : Languages, clear : BOOLEAN]

NoUpdate == [resume |-> "none", lang |-> "auto", clear |-> FALSE]

\* getMeetingFailurePresentation(...).isRetryable and isRetryableFailedStage.
IsRetryable(r) ==
  /\ r.status = "error"
  /\ r.kind \notin {"corrupt_audio", "transcription_empty", "config_missing"}
  /\ r.failedAt \in Stages

\* Variant: a changed language does not send the meeting back to transcription.
RetryUpdateInPlace(r, lang) ==
  [resume |-> r.failedAt, lang |-> lang, clear |-> lang # r.lang]

\* Variant: the detected language is cleared by stage only.
RetryUpdateKeepingDetected(r, lang) ==
  LET resume == IF lang # r.lang /\ r.failedAt # "normalizing"
                THEN "transcribing" ELSE r.failedAt
  IN  [resume |-> resume, lang |-> lang,
       clear  |-> r.failedAt \in {"normalizing", "transcribing"}]

\* createRetryMeetingUpdate
RetryUpdate(r, lang) ==
  LET changed == lang # r.lang
      resume  == IF changed /\ r.failedAt # "normalizing"
                 THEN "transcribing" ELSE r.failedAt
  IN  [resume |-> resume, lang |-> lang,
       clear  |-> changed \/ resume \in {"normalizing", "transcribing"}]

\* createPendingLanguageUpdate
PendingLanguageUpdate(r, lang) ==
  LET changed == lang # r.lang
      resume  == IF changed /\ r.resume \in {"diarizing", "summarizing"}
                 THEN "transcribing" ELSE r.resume
  IN  [resume |-> resume, lang |-> lang,
       clear  |-> changed \/ resume \in {"normalizing", "transcribing"}]

\* The statement of updateLanguageById.
LanguageUpdated(r, u) ==
  [r EXCEPT !.lang = u.lang, !.resume = u.resume,
            !.detected = IF u.clear THEN "none" ELSE @, !.overdue = FALSE]

\* Variant: retry starts over.
RetriedFromScratch(r, u) ==
  [LanguageUpdated(r, u) EXCEPT !.status = "pending", !.resume = "none",
                                !.kind = "none", !.failedAt = "none",
                                !.progress = NoProgress]

\* The statement of retryMeetingById.
Retried(r, u) ==
  [LanguageUpdated(r, u) EXCEPT !.status = "pending", !.kind = "none",
                                !.failedAt = "none", !.progress = NoProgress]

\* The guard and the effect of queueSummaryRegenerationById.
CanQueueRegeneration(r) ==
  /\ r.status = "done"
  /\ r.regen \in {"idle", "failed"}
  /\ r.latest # 0

RegenerationQueued(r) == [r EXCEPT !.regen = "pending", !.overdue = FALSE]

\* updateTitleById: the title itself decides nothing, but updated_at moves,
\* and with it the moment a row at a worker stage may be claimed again.
TitleUpdated(r) ==
  [r EXCEPT !.overdue = @ /\ r.status \notin Stages]

-----------------------------------------------------------------------------
(* transcript_segments of one meeting: nothing, or the segments of one      *)
(* transcription (made for the language requested when the meeting was      *)
(* claimed), with speaker labels once diarized.                             *)

Transcript == [lang : Languages \union {"none"}, diarized : BOOLEAN]

NoTranscript == [lang |-> "none", diarized |-> FALSE]

\* summary_versions of one meeting, a set of these; `of` is the transcript
\* that was summarised.
SummaryVersion == [number : Nat, source : {"initial", "ai_revision"},
                   of : Transcript]
=============================================================================
