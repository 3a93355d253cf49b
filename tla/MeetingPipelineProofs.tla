------------------------ MODULE MeetingPipelineProofs ------------------------
(***************************************************************************)
(* Safety of MeetingPipeline, for any set of meetings, workers, requests   *)
(* in flight and languages: its type correctness; while the advisory lock  *)
(* is kept, no meeting has two workers and what a worker claimed stays     *)
(* true; and summary versions are append-only, lock or no lock.            *)
(*                                                                         *)
(* A worker's or a request's meeting is only read while it is busy, so the *)
(* invariant behind the types adds that it is a meeting then.              *)
(*                                                                         *)
(* The lemmas of the first part say what each statement on a `meetings`    *)
(* row returns: a row again, and the columns that the invariants are       *)
(* about.  They keep the record updates out of the invariant proofs.       *)
(***************************************************************************)
EXTENDS MeetingPipeline, WellFoundedInduction, TLAPS

-----------------------------------------------------------------------------
(* The statements on a row.                                                 *)

\* The values the statements assign are in the types of their columns.
LEMMA ColumnValues ==
  /\ "pending" \in Statuses \union {"absent", "deleted"}
  /\ "normalizing" \in Statuses \union {"absent", "deleted"}
  /\ "transcribing" \in Statuses \union {"absent", "deleted"}
  /\ "diarizing" \in Statuses \union {"absent", "deleted"}
  /\ "summarizing" \in Statuses \union {"absent", "deleted"}
  /\ "done" \in Statuses \union {"absent", "deleted"}
  /\ "error" \in Statuses \union {"absent", "deleted"}
  /\ "absent" \in Statuses \union {"absent", "deleted"}
  /\ "deleted" \in Statuses \union {"absent", "deleted"}
  /\ "none" \in Stages \union {"none"}
  /\ "none" \in ErrorKinds \union {"none"}
  /\ "none" \in Detectable \union {"none"}
  /\ NoProgress \in -1 .. 100 /\ 0 \in -1 .. 100 /\ 100 \in -1 .. 100
  /\ "idle" \in RegenerationStatuses /\ "pending" \in RegenerationStatuses
  /\ "processing" \in RegenerationStatuses
  /\ "failed" \in RegenerationStatuses
  /\ "auto" \in Languages
  /\ 0 \in Nat /\ 1 \in Nat
  /\ TRUE \in BOOLEAN /\ FALSE \in BOOLEAN
  BY SMT DEF Statuses, NonTerminal, Stages, NoProgress, Languages,
             RegenerationStatuses

LEMMA NoRowFacts ==
  /\ NoRow \in Row
  /\ NoRow.status = "absent" /\ NoRow.resume = "none"
  /\ NoRow.kind = "none" /\ NoRow.failedAt = "none"
  /\ NoRow.detected = "none" /\ NoRow.latest = 0 /\ NoRow.regen = "idle"
  BY ColumnValues, Zenon DEF NoRow, Row

LEMMA DeletedRowFacts ==
  /\ DeletedRow \in Row
  /\ DeletedRow.status = "deleted" /\ DeletedRow.resume = "none"
  /\ DeletedRow.kind = "none" /\ DeletedRow.failedAt = "none"
  /\ DeletedRow.detected = "none" /\ DeletedRow.latest = 0
  /\ DeletedRow.regen = "idle"
  BY ColumnValues, Zenon DEF NoRow, DeletedRow, Row

LEMMA PendingRowFacts ==
  ASSUME NEW lang \in Languages
  PROVE  /\ PendingRow(lang) \in Row
         /\ PendingRow(lang).status = "pending"
         /\ PendingRow(lang).resume = "none"
         /\ PendingRow(lang).kind = "none"
         /\ PendingRow(lang).failedAt = "none"
         /\ PendingRow(lang).lang = lang
         /\ PendingRow(lang).detected = "none"
         /\ PendingRow(lang).latest = 0
         /\ PendingRow(lang).regen = "idle"
  BY ColumnValues, Zenon DEF NoRow, PendingRow, Row

\* The status writes of the worker, in the order of the pipeline.
LEMMA NormalizationStartedFacts ==
  ASSUME NEW r \in Row
  PROVE  /\ NormalizationStarted(r) \in Row
         /\ NormalizationStarted(r).resume = "none"
         /\ NormalizationStarted(r).kind = "none"
         /\ NormalizationStarted(r).failedAt = "none"
         /\ NormalizationStarted(r).status = "normalizing"
         /\ NormalizationStarted(r).lang = r.lang
         /\ NormalizationStarted(r).detected = r.detected
         /\ NormalizationStarted(r).regen = r.regen
         /\ NormalizationStarted(r).latest = r.latest
<1>1. NormalizationStarted(r) \in Row
  BY ColumnValues, Zenon DEF Row, NormalizationStarted, ClearFailure
<1>2. QED
  BY <1>1, Zenon DEF Row, NormalizationStarted, ClearFailure

LEMMA TranscriptionStartedFacts ==
  ASSUME NEW r \in Row
  PROVE  /\ TranscriptionStarted(r) \in Row
         /\ TranscriptionStarted(r).resume = "none"
         /\ TranscriptionStarted(r).kind = "none"
         /\ TranscriptionStarted(r).failedAt = "none"
         /\ TranscriptionStarted(r).status = "transcribing"
         /\ TranscriptionStarted(r).detected = "none"
         /\ TranscriptionStarted(r).lang = r.lang
         /\ TranscriptionStarted(r).regen = r.regen
         /\ TranscriptionStarted(r).latest = r.latest
<1>1. TranscriptionStarted(r) \in Row
  BY ColumnValues, Zenon DEF Row, TranscriptionStarted, ClearFailure
<1>2. QED
  BY <1>1, Zenon DEF Row, TranscriptionStarted, ClearFailure

LEMMA TranscriptionProgressedFacts ==
  ASSUME NEW r \in Row,
         NEW p \in -1 .. 100
  PROVE  /\ TranscriptionProgressed(r, p) \in Row
         /\ TranscriptionProgressed(r, p).status = r.status
         /\ TranscriptionProgressed(r, p).resume = r.resume
         /\ TranscriptionProgressed(r, p).kind = r.kind
         /\ TranscriptionProgressed(r, p).failedAt = r.failedAt
         /\ TranscriptionProgressed(r, p).lang = r.lang
         /\ TranscriptionProgressed(r, p).detected = r.detected
         /\ TranscriptionProgressed(r, p).regen = r.regen
         /\ TranscriptionProgressed(r, p).latest = r.latest
<1>1. TranscriptionProgressed(r, p) \in Row
  BY ColumnValues, Zenon DEF Row, TranscriptionProgressed
<1>2. QED
  BY <1>1, Zenon DEF Row, TranscriptionProgressed

LEMMA TranscriptionSucceededFacts ==
  ASSUME NEW r \in Row,
         NEW d \in Detectable \union {"none"}
  PROVE  /\ TranscriptionSucceeded(r, d) \in Row
         /\ TranscriptionSucceeded(r, d).resume = "none"
         /\ TranscriptionSucceeded(r, d).kind = "none"
         /\ TranscriptionSucceeded(r, d).failedAt = "none"
         /\ TranscriptionSucceeded(r, d).status = "diarizing"
         /\ TranscriptionSucceeded(r, d).detected = d
         /\ TranscriptionSucceeded(r, d).lang = r.lang
         /\ TranscriptionSucceeded(r, d).regen = r.regen
         /\ TranscriptionSucceeded(r, d).latest = r.latest
<1>1. TranscriptionSucceeded(r, d) \in Row
  BY ColumnValues, ZenonT(30) DEF Row, TranscriptionSucceeded, ClearFailure
<1>2. QED
  BY <1>1, Zenon DEF Row, TranscriptionSucceeded, ClearFailure

LEMMA DiarizationStartedFacts ==
  ASSUME NEW r \in Row
  PROVE  /\ DiarizationStarted(r) \in Row
         /\ DiarizationStarted(r).resume = "none"
         /\ DiarizationStarted(r).kind = "none"
         /\ DiarizationStarted(r).failedAt = "none"
         /\ DiarizationStarted(r).status = "diarizing"
         /\ DiarizationStarted(r).lang = r.lang
         /\ DiarizationStarted(r).detected = r.detected
         /\ DiarizationStarted(r).regen = r.regen
         /\ DiarizationStarted(r).latest = r.latest
<1>1. DiarizationStarted(r) \in Row
  BY ColumnValues, Zenon DEF Row, DiarizationStarted, ClearFailure
<1>2. QED
  BY <1>1, Zenon DEF Row, DiarizationStarted, ClearFailure

LEMMA DiarizationSucceededFacts ==
  ASSUME NEW r \in Row
  PROVE  /\ DiarizationSucceeded(r) \in Row
         /\ DiarizationSucceeded(r).resume = "none"
         /\ DiarizationSucceeded(r).kind = "none"
         /\ DiarizationSucceeded(r).failedAt = "none"
         /\ DiarizationSucceeded(r).status = "summarizing"
         /\ DiarizationSucceeded(r).lang = r.lang
         /\ DiarizationSucceeded(r).detected = r.detected
         /\ DiarizationSucceeded(r).regen = r.regen
         /\ DiarizationSucceeded(r).latest = r.latest
<1>1. DiarizationSucceeded(r) \in Row
  BY ColumnValues, Zenon DEF Row, DiarizationSucceeded, ClearFailure
<1>2. QED
  BY <1>1, Zenon DEF Row, DiarizationSucceeded, ClearFailure

LEMMA SummarizationStartedFacts ==
  ASSUME NEW r \in Row
  PROVE  /\ SummarizationStarted(r) \in Row
         /\ SummarizationStarted(r).resume = "none"
         /\ SummarizationStarted(r).kind = "none"
         /\ SummarizationStarted(r).failedAt = "none"
         /\ SummarizationStarted(r).status = "summarizing"
         /\ SummarizationStarted(r).lang = r.lang
         /\ SummarizationStarted(r).detected = r.detected
         /\ SummarizationStarted(r).regen = r.regen
         /\ SummarizationStarted(r).latest = r.latest
<1>1. SummarizationStarted(r) \in Row
  BY ColumnValues, Zenon DEF Row, SummarizationStarted, ClearFailure
<1>2. QED
  BY <1>1, Zenon DEF Row, SummarizationStarted, ClearFailure

LEMMA SummarizationSucceededFacts ==
  ASSUME NEW r \in Row
  PROVE  /\ SummarizationSucceeded(r) \in Row
         /\ SummarizationSucceeded(r).resume = "none"
         /\ SummarizationSucceeded(r).kind = "none"
         /\ SummarizationSucceeded(r).failedAt = "none"
         /\ SummarizationSucceeded(r).status = "done"
         /\ SummarizationSucceeded(r).latest = 1
         /\ SummarizationSucceeded(r).lang = r.lang
         /\ SummarizationSucceeded(r).detected = r.detected
         /\ SummarizationSucceeded(r).regen = r.regen
<1>1. SummarizationSucceeded(r) \in Row
  BY ColumnValues, ZenonT(30) DEF Row, SummarizationSucceeded, ClearFailure
<1>2. QED
  BY <1>1, Zenon DEF Row, SummarizationSucceeded, ClearFailure

LEMMA RegenerationSucceededFacts ==
  ASSUME NEW r \in Row
  PROVE  /\ RegenerationSucceeded(r) \in Row
         /\ RegenerationSucceeded(r).regen = "idle"
         /\ RegenerationSucceeded(r).latest = r.latest + 1
         /\ RegenerationSucceeded(r).status = r.status
         /\ RegenerationSucceeded(r).resume = r.resume
         /\ RegenerationSucceeded(r).kind = r.kind
         /\ RegenerationSucceeded(r).failedAt = r.failedAt
         /\ RegenerationSucceeded(r).lang = r.lang
         /\ RegenerationSucceeded(r).detected = r.detected
<1>1. r.latest \in Nat  BY Zenon DEF Row
<1>2. r.latest + 1 \in Nat  BY <1>1, SMT
<1> QED
  BY <1>2, ColumnValues, ZenonT(30) DEF Row, RegenerationSucceeded

LEMMA RegenerationFailedFacts ==
  ASSUME NEW r \in Row
  PROVE  /\ RegenerationFailed(r) \in Row
         /\ RegenerationFailed(r).regen = "failed"
         /\ RegenerationFailed(r).status = r.status
         /\ RegenerationFailed(r).resume = r.resume
         /\ RegenerationFailed(r).kind = r.kind
         /\ RegenerationFailed(r).failedAt = r.failedAt
         /\ RegenerationFailed(r).lang = r.lang
         /\ RegenerationFailed(r).detected = r.detected
         /\ RegenerationFailed(r).latest = r.latest
<1>1. RegenerationFailed(r) \in Row
  BY ColumnValues, Zenon DEF Row, RegenerationFailed
<1>2. QED
  BY <1>1, Zenon DEF Row, RegenerationFailed

LEMMA FailedFacts ==
  ASSUME NEW r \in Row,
         NEW k \in ErrorKinds,
         NEW stage \in Stages
  PROVE  /\ Failed(r, k, stage) \in Row
         /\ Failed(r, k, stage).status = "error"
         /\ Failed(r, k, stage).resume = "none"
         /\ Failed(r, k, stage).kind = k
         /\ Failed(r, k, stage).failedAt = stage
         /\ Failed(r, k, stage).lang = r.lang
         /\ Failed(r, k, stage).detected = r.detected
         /\ Failed(r, k, stage).regen = r.regen
         /\ Failed(r, k, stage).latest = r.latest
<1>1. Failed(r, k, stage) \in Row
  BY ColumnValues, Zenon DEF Row, Failed
<1>2. QED
  BY <1>1, Zenon DEF Row, Failed

\* Claiming, case by case.
LEMMA ClaimedPendingFacts ==
  ASSUME NEW r \in Row, r.status = "pending"
  PROVE  /\ Claimed(r) \in Row
         /\ Claimed(r).status = IF r.resume = "none" THEN "normalizing"
                                                     ELSE r.resume
         /\ Claimed(r).resume = "none" /\ Claimed(r).kind = "none"
         /\ Claimed(r).failedAt = "none" /\ Claimed(r).lang = r.lang
         /\ Claimed(r).detected = r.detected /\ Claimed(r).regen = r.regen
         /\ Claimed(r).latest = r.latest
<1>1. (IF r.resume = "none" THEN "normalizing" ELSE r.resume)
        \in Statuses \union {"absent", "deleted"}
  <2>1. r.resume \in Stages \union {"none"}
    BY Zenon DEF Row
  <2>2. QED
    BY <2>1, SMT DEF Stages, Statuses, NonTerminal
<1>2. QED
  BY <1>1, ColumnValues, Zenon DEF Row, Claimed

LEMMA ClaimedDoneFacts ==
  ASSUME NEW r \in Row, r.status = "done"
  PROVE  /\ Claimed(r) \in Row
         /\ Claimed(r).status = "done" /\ Claimed(r).resume = "none"
         /\ Claimed(r).kind = r.kind /\ Claimed(r).failedAt = r.failedAt
         /\ Claimed(r).lang = r.lang /\ Claimed(r).detected = r.detected
         /\ Claimed(r).regen = "processing" /\ Claimed(r).latest = r.latest
<1>1. Claimed(r) = [r EXCEPT !.regen = "processing", !.resume = "none",
                            !.overdue = FALSE]
  BY SMT DEF Claimed
<1>2. QED
  BY <1>1, ColumnValues, ZenonT(30) DEF Row

LEMMA ClaimedStageFacts ==
  ASSUME NEW r \in Row, r.status \in Stages
  PROVE  /\ Claimed(r) \in Row
         /\ Claimed(r).status = r.status /\ Claimed(r).resume = "none"
         /\ Claimed(r).kind = r.kind /\ Claimed(r).failedAt = r.failedAt
         /\ Claimed(r).lang = r.lang /\ Claimed(r).detected = r.detected
         /\ Claimed(r).regen = r.regen /\ Claimed(r).latest = r.latest
<1>1. Claimed(r) = [r EXCEPT !.resume = "none", !.overdue = FALSE]
  BY SMT DEF Claimed, Stages
<1>2. QED
  BY <1>1, ColumnValues, Zenon DEF Row

\* The updates of the web app.
LEMMA RetryUpdateFacts ==
  ASSUME NEW r \in Row, r.failedAt \in Stages, NEW lang \in Languages
  PROVE  /\ RetryUpdate(r, lang) \in Update
         /\ RetryUpdate(r, lang).lang = lang
         /\ RetryUpdate(r, lang).resume \in Stages
         /\ lang = r.lang => RetryUpdate(r, lang).resume = r.failedAt
         /\ lang # r.lang =>
              /\ RetryUpdate(r, lang).resume \in {"normalizing", "transcribing"}
              /\ RetryUpdate(r, lang).clear
         /\ r.failedAt = "normalizing" =>
              RetryUpdate(r, lang).resume = "normalizing"
         /\ r.failedAt # "normalizing" =>
              RetryUpdate(r, lang).resume \in {r.failedAt, "transcribing"}
<1>1. r.lang \in Languages  BY Zenon DEF Row
<1>2. /\ RetryUpdate(r, lang).lang = lang
      /\ RetryUpdate(r, lang).resume = IF lang # r.lang /\ r.failedAt # "normalizing"
                                       THEN "transcribing" ELSE r.failedAt
      /\ RetryUpdate(r, lang).clear =
           (lang # r.lang \/ RetryUpdate(r, lang).resume
                               \in {"normalizing", "transcribing"})
  BY Zenon DEF RetryUpdate
<1>3. RetryUpdate(r, lang) \in Update
  <2>1. (IF lang # r.lang /\ r.failedAt # "normalizing"
         THEN "transcribing" ELSE r.failedAt) \in Stages \union {"none"}
    BY SMT DEF Stages
  <2>2. QED
    BY <2>1, Zenon DEF RetryUpdate, Update
<1>4. lang # r.lang => RetryUpdate(r, lang).clear
  BY <1>2, Zenon
<1>5. QED
  BY <1>1, <1>2, <1>3, <1>4, SMT DEF Stages

LEMMA PendingLanguageUpdateFacts ==
  ASSUME NEW r \in Row, NEW lang \in Languages
  PROVE  /\ PendingLanguageUpdate(r, lang) \in Update
         /\ PendingLanguageUpdate(r, lang).lang = lang
         /\ lang = r.lang => PendingLanguageUpdate(r, lang).resume = r.resume
         /\ lang # r.lang =>
              /\ PendingLanguageUpdate(r, lang).resume
                   \in {"none", "normalizing", "transcribing"}
              /\ PendingLanguageUpdate(r, lang).clear
         /\ r.resume \in {"none", "normalizing", "transcribing"} =>
              PendingLanguageUpdate(r, lang).resume = r.resume
         /\ r.resume \in {"diarizing", "summarizing"} =>
              PendingLanguageUpdate(r, lang).resume \in {r.resume, "transcribing"}
<1>1. r.lang \in Languages /\ r.resume \in Stages \union {"none"}
  BY Zenon DEF Row
<1>2. /\ PendingLanguageUpdate(r, lang).lang = lang
      /\ PendingLanguageUpdate(r, lang).resume =
           IF lang # r.lang /\ r.resume \in {"diarizing", "summarizing"}
           THEN "transcribing" ELSE r.resume
      /\ PendingLanguageUpdate(r, lang).clear =
           (lang # r.lang \/ PendingLanguageUpdate(r, lang).resume
                               \in {"normalizing", "transcribing"})
  BY Zenon DEF PendingLanguageUpdate
<1>3. PendingLanguageUpdate(r, lang) \in Update
  <2>1. (IF lang # r.lang /\ r.resume \in {"diarizing", "summarizing"}
         THEN "transcribing" ELSE r.resume) \in Stages \union {"none"}
    BY <1>1, SMT DEF Stages
  <2>2. QED
    BY <2>1, Zenon DEF PendingLanguageUpdate, Update
<1>4. lang # r.lang => PendingLanguageUpdate(r, lang).clear
  BY <1>2, Zenon
<1>5. QED
  BY <1>1, <1>2, <1>3, <1>4, SMT DEF Stages

LEMMA LanguageUpdatedFacts ==
  ASSUME NEW r \in Row,
         NEW u \in Update
  PROVE  /\ LanguageUpdated(r, u) \in Row
         /\ LanguageUpdated(r, u).lang = u.lang
         /\ LanguageUpdated(r, u).resume = u.resume
         /\ LanguageUpdated(r, u).detected = (IF u.clear THEN "none" ELSE r.detected)
         /\ LanguageUpdated(r, u).status = r.status
         /\ LanguageUpdated(r, u).kind = r.kind
         /\ LanguageUpdated(r, u).failedAt = r.failedAt
         /\ LanguageUpdated(r, u).regen = r.regen
         /\ LanguageUpdated(r, u).latest = r.latest
<1>1. /\ u.lang \in Languages /\ u.resume \in Stages \union {"none"}
      /\ (IF u.clear THEN "none" ELSE r.detected) \in Detectable \union {"none"}
  BY ColumnValues, Zenon DEF Update, Row
<1>2. PICK d \in Detectable \union {"none"} :
         d = IF u.clear THEN "none" ELSE r.detected
  BY <1>1, Zenon
<1>3. LanguageUpdated(r, u) =
        [r EXCEPT !.lang = u.lang, !.resume = u.resume, !.detected = d,
                   !.overdue = FALSE]
  BY <1>2, SMT DEF LanguageUpdated
<1>4. LanguageUpdated(r, u) \in Row
  BY <1>1, <1>3, ColumnValues, ZenonT(30) DEF Row
<1>5. QED
  BY <1>2, <1>3, <1>4, Zenon DEF Row

LEMMA RetriedFacts ==
  ASSUME NEW r \in Row,
         NEW u \in Update
  PROVE  /\ Retried(r, u) \in Row
         /\ Retried(r, u).lang = u.lang
         /\ Retried(r, u).resume = u.resume
         /\ Retried(r, u).detected = (IF u.clear THEN "none" ELSE r.detected)
         /\ Retried(r, u).status = "pending"
         /\ Retried(r, u).kind = "none"
         /\ Retried(r, u).failedAt = "none"
         /\ Retried(r, u).regen = r.regen
         /\ Retried(r, u).latest = r.latest
<1>1. LanguageUpdated(r, u) \in Row
  BY LanguageUpdatedFacts, Zenon
<1>2. Retried(r, u) \in Row
  BY <1>1, ColumnValues, Zenon DEF Row, Retried
<1>3. /\ Retried(r, u).lang = LanguageUpdated(r, u).lang
      /\ Retried(r, u).resume = LanguageUpdated(r, u).resume
      /\ Retried(r, u).detected = LanguageUpdated(r, u).detected
      /\ Retried(r, u).regen = LanguageUpdated(r, u).regen
      /\ Retried(r, u).latest = LanguageUpdated(r, u).latest
      /\ Retried(r, u).status = "pending"
      /\ Retried(r, u).kind = "none"
      /\ Retried(r, u).failedAt = "none"
  BY <1>1, <1>2, Zenon DEF Row, Retried
<1>4. QED
  BY <1>2, <1>3, LanguageUpdatedFacts, Zenon

LEMMA RegenerationQueuedFacts ==
  ASSUME NEW r \in Row
  PROVE  /\ RegenerationQueued(r) \in Row
         /\ RegenerationQueued(r).regen = "pending"
         /\ RegenerationQueued(r).status = r.status
         /\ RegenerationQueued(r).resume = r.resume
         /\ RegenerationQueued(r).kind = r.kind
         /\ RegenerationQueued(r).failedAt = r.failedAt
         /\ RegenerationQueued(r).lang = r.lang
         /\ RegenerationQueued(r).detected = r.detected
         /\ RegenerationQueued(r).latest = r.latest
<1>1. RegenerationQueued(r) \in Row
  BY ColumnValues, Zenon DEF Row, RegenerationQueued
<1>2. QED
  BY <1>1, Zenon DEF Row, RegenerationQueued

LEMMA TitleUpdatedFacts ==
  ASSUME NEW r \in Row
  PROVE  /\ TitleUpdated(r) \in Row
         /\ TitleUpdated(r).status = r.status
         /\ TitleUpdated(r).resume = r.resume
         /\ TitleUpdated(r).kind = r.kind
         /\ TitleUpdated(r).failedAt = r.failedAt
         /\ TitleUpdated(r).lang = r.lang
         /\ TitleUpdated(r).detected = r.detected
         /\ TitleUpdated(r).regen = r.regen
         /\ TitleUpdated(r).latest = r.latest
<1>1. PICK o \in BOOLEAN : o = (r.overdue /\ r.status \notin Stages)
  OBVIOUS
<1>2. TitleUpdated(r) = [r EXCEPT !.overdue = o]
  BY <1>1, Zenon DEF TitleUpdated
<1>3. TitleUpdated(r) \in Row
  BY <1>2, ZenonT(30) DEF Row
<1>4. QED
  BY <1>2, <1>3, Zenon DEF Row

LEMMA AgedFacts ==
  ASSUME NEW r \in Row
  PROVE  LET s == [r EXCEPT !.overdue = TRUE] IN
         /\ s \in Row
         /\ s.status = r.status /\ s.resume = r.resume
         /\ s.kind = r.kind /\ s.failedAt = r.failedAt /\ s.lang = r.lang
         /\ s.detected = r.detected /\ s.regen = r.regen /\ s.latest = r.latest
  BY ZenonT(30) DEF Row

-----------------------------------------------------------------------------
(* The types.                                                               *)

\* The types, and that a busy worker and a request in flight have a meeting.
TypeInv ==
  /\ TypeOK
  /\ \A w \in Workers : Busy(w) => worker[w].m \in Meetings
  /\ \A h \in Handlers : handler[h].op # "none" => handler[h].m \in Meetings

-----------------------------------------------------------------------------
(* Control points.                                                          *)

LEMMA Points ==
  /\ DOMAIN Accepts = {"markNormalizing", "markTranscribing", "saveTranscript",
                       "markDiarizing", "saveDiarization", "markSummarizing",
                       "summarize"}
  /\ DOMAIN FailureStage = {"convert", "cleanup", "transcribe",
                            "loadForDiarization", "diarize", "loadForSummary",
                            "summarize"}
  /\ DOMAIN AfterLoading = {"loadForDiarization", "loadForSummary",
                            "loadForRegeneration"}
  /\ RegenerationPoints = {"loadForRegeneration", "regenerate"}
  /\ BusyPoints = {"markNormalizing", "markTranscribing", "saveTranscript",
                   "markDiarizing", "saveDiarization", "markSummarizing",
                   "summarize", "convert", "cleanup", "transcribe",
                   "loadForDiarization", "diarize", "loadForSummary",
                   "loadForRegeneration", "regenerate"}
  BY SMT DEF Accepts, FailureStage, AfterLoading, RegenerationPoints, BusyPoints

LEMMA FailuresTyped ==
  ASSUME NEW point \in DOMAIN FailureStage
  PROVE  /\ FailureStage[point] \in Stages
         /\ FailureKinds[point] \subseteq ErrorKinds
<1>1. FailureStage[point] \in Stages
  BY SMT DEF FailureStage, Stages
<1>2. FailureKinds[point] \subseteq ErrorKinds
  BY Points, SMT DEF FailureKinds, ErrorKinds
<1>3. QED
  BY <1>1, <1>2

LEMMA EntryPointBusy ==
  ASSUME NEW status
  PROVE  EntryPoint(status) \in BusyPoints
  BY Points, SMT DEF EntryPoint

LEMMA AfterLoadingBusy ==
  ASSUME NEW point \in DOMAIN AfterLoading
  PROVE  AfterLoading[point] \in BusyPoints
  BY Points, SMT DEF AfterLoading

-----------------------------------------------------------------------------
(* The helpers that change one worker or one row.                           *)

LEMMA GotoFacts ==
  ASSUME worker \in [Workers -> Worker], NEW w \in Workers,
         NEW point \in BusyPoints, Goto(w, point)
  PROVE  /\ worker' \in [Workers -> Worker]
         /\ worker'[w].at = point
         /\ worker'[w].m = worker[w].m
         /\ worker'[w].claimed = worker[w].claimed
         /\ worker'[w].lang = worker[w].lang
         /\ worker'[w].detected = worker[w].detected
         /\ worker'[w].segments = worker[w].segments
         /\ \A v \in Workers : v # w => worker'[v] = worker[v]
<1>1. worker' = [worker EXCEPT ![w].at = point]
  BY DEF Goto
<1>2. worker' \in [Workers -> Worker]
  BY <1>1, ZenonT(30) DEF Worker
<1>3. worker'[w] = [worker[w] EXCEPT !.at = point]
  BY <1>1, Zenon
<1>4. worker[w] \in Worker
  BY Zenon
<1>5. QED
  BY <1>1, <1>2, <1>3, <1>4, Zenon DEF Worker

LEMMA IdleTyped ==
  /\ Off \in Worker /\ Off.at = "off" /\ Off.m = 0 /\ Off.claimed = "none"
  /\ Idle \in Worker /\ Idle.at = "idle" /\ Idle.m = 0 /\ Idle.claimed = "none"
<1>1. NoTranscript \in Transcript
  BY Zenon DEF NoTranscript, Transcript
<1>2. Off \in Worker
  BY <1>1, ColumnValues, Zenon DEF Off, Worker
<1>3. QED
  BY <1>1, <1>2, Zenon DEF Off, Idle, Worker

LEMMA BecomeIdleFacts ==
  ASSUME worker \in [Workers -> Worker], NEW w \in Workers, BecomeIdle(w)
  PROVE  /\ worker' \in [Workers -> Worker]
         /\ worker'[w] = Idle
         /\ worker'[w].at = "idle"
         /\ \A v \in Workers : v # w => worker'[v] = worker[v]
  BY IdleTyped, Zenon DEF BecomeIdle

LEMMA SetRowFacts ==
  ASSUME row \in [Meetings -> Row], NEW m \in Meetings, NEW r \in Row,
         SetRow(m, r)
  PROVE  /\ row' \in [Meetings -> Row]
         /\ row'[m] = r
         /\ \A k \in Meetings : k # m => row'[k] = row[k]
  BY Zenon DEF SetRow

LEMMA BeginFacts ==
  ASSUME handler \in [Handlers -> Handler], NEW h \in Handlers,
         NEW op \in {"retry", "language", "deleteFiles", "deleteRow"},
         NEW m \in Meetings, NEW u \in Update, Begin(h, op, m, u)
  PROVE  /\ handler' \in [Handlers -> Handler]
         /\ handler[h].op = "none"
         /\ handler'[h].op = op /\ handler'[h].m = m /\ handler'[h].update = u
         /\ \A g \in Handlers : g # h => handler'[g] = handler[g]
<1>1. [op |-> op, m |-> m, update |-> u] \in Handler
  BY Zenon DEF Handler
<1>2. QED
  BY <1>1, Zenon DEF Begin

LEMMA FinishFacts ==
  ASSUME handler \in [Handlers -> Handler], NEW h \in Handlers, Finish(h)
  PROVE  /\ handler' \in [Handlers -> Handler]
         /\ handler'[h] = NoRequest /\ handler'[h].op = "none"
         /\ \A g \in Handlers : g # h => handler'[g] = handler[g]
<1>1. NoRequest \in Handler /\ NoRequest.op = "none"
  BY ColumnValues, Zenon DEF NoRequest, NoUpdate, Handler, Update
<1>2. QED
  BY <1>1, Zenon DEF Finish

-----------------------------------------------------------------------------
(* The parts of the invariant that one process can disturb.                 *)

LEMMA WorkersTyped ==
  ASSUME TypeInv, NEW w \in Workers, worker' \in [Workers -> Worker],
         \A v \in Workers : v # w => worker'[v] = worker[v],
         worker'[w].at \in BusyPoints => worker'[w].m \in Meetings
  PROVE  \A v \in Workers : Busy(v)' => worker'[v].m \in Meetings
  BY SMT DEF TypeInv, Busy

LEMMA WorkerMoves ==
  ASSUME TypeInv, NEW w \in Workers, Busy(w), NEW point \in BusyPoints,
         Goto(w, point)
  PROVE  /\ worker' \in [Workers -> Worker]
         /\ \A v \in Workers : Busy(v)' => worker'[v].m \in Meetings
<1>1. worker \in [Workers -> Worker] /\ worker[w].m \in Meetings
  BY DEF TypeInv, TypeOK
<1>2. QED
  BY <1>1, GotoFacts, WorkersTyped

LEMMA WorkerRests ==
  ASSUME TypeInv, NEW w \in Workers, BecomeIdle(w)
  PROVE  /\ worker' \in [Workers -> Worker]
         /\ \A v \in Workers : Busy(v)' => worker'[v].m \in Meetings
<1>1. worker \in [Workers -> Worker]
  BY DEF TypeInv, TypeOK
<1>2. "idle" \notin BusyPoints
  BY Points, SMT
<1>3. QED
  BY <1>1, <1>2, BecomeIdleFacts, WorkersTyped

LEMMA WorkersUnchanged ==
  ASSUME TypeInv, UNCHANGED worker
  PROVE  /\ worker' \in [Workers -> Worker]
         /\ \A v \in Workers : Busy(v)' => worker'[v].m \in Meetings
  BY DEF TypeInv, TypeOK, Busy

LEMMA HandlersUnchanged ==
  ASSUME TypeInv, UNCHANGED handler
  PROVE  /\ handler' \in [Handlers -> Handler]
         /\ \A h \in Handlers : handler'[h].op # "none" => handler'[h].m \in Meetings
  BY DEF TypeInv, TypeOK

LEMMA HandlerFinishes ==
  ASSUME TypeInv, NEW h \in Handlers, Finish(h)
  PROVE  /\ handler' \in [Handlers -> Handler]
         /\ \A g \in Handlers : handler'[g].op # "none" => handler'[g].m \in Meetings
<1>1. handler \in [Handlers -> Handler]
  BY DEF TypeInv, TypeOK
<1>2. QED
  BY <1>1, FinishFacts DEF TypeInv

LEMMA HandlerBegins ==
  ASSUME TypeInv, NEW h \in Handlers,
         NEW op \in {"retry", "language", "deleteFiles", "deleteRow"},
         NEW m \in Meetings, NEW u \in Update, Begin(h, op, m, u)
  PROVE  /\ handler' \in [Handlers -> Handler]
         /\ \A g \in Handlers : handler'[g].op # "none" => handler'[g].m \in Meetings
<1>1. handler \in [Handlers -> Handler]
  BY DEF TypeInv, TypeOK
<1>2. QED
  BY <1>1, BeginFacts DEF TypeInv

\* Who calls it has shown the types of what changed.
LEMMA TypedNext ==
  ASSUME row' \in [Meetings -> Row],
         transcript' \in [Meetings -> Transcript],
         versions' \in [Meetings -> SUBSET SummaryVersion],
         files' \in [Meetings -> SUBSET {"directory", "original", "normalized"}],
         lock' \in Workers \union {"none"},
         /\ worker' \in [Workers -> Worker]
         /\ \A v \in Workers : Busy(v)' => worker'[v].m \in Meetings,
         /\ handler' \in [Handlers -> Handler]
         /\ \A h \in Handlers : handler'[h].op # "none" => handler'[h].m \in Meetings
  PROVE  TypeInv'
  BY DEF TypeInv, TypeOK

LEMMA TypeInit == Init => TypeInv
<1> SUFFICES ASSUME Init PROVE TypeInv
  OBVIOUS
<1>1. NoTranscript \in Transcript
  BY ColumnValues, Zenon DEF NoTranscript, Transcript
<1>2. NoRequest \in Handler /\ NoRequest.op = "none"
  BY ColumnValues, Zenon DEF NoRequest, NoUpdate, Handler, Update
<1>3. "off" \notin BusyPoints
  BY Points, SMT
<1>4. QED
  BY <1>1, <1>2, <1>3, NoRowFacts, IdleTyped DEF Init, TypeInv, TypeOK, Busy

-----------------------------------------------------------------------------
(* The actions.                                                             *)

\* A non-empty set of meetings has an oldest one.
LEMMA OldestIsMember ==
  ASSUME NEW S \in SUBSET Meetings, S # {}
  PROVE  Oldest(S) \in S
<1>1. S \subseteq Nat
  BY PipelineAssumption
<1>2. PICK m \in S : \A k \in S : ~(<<k, m>> \in OpToRel(<, Nat))
  BY <1>1, NatLessThanWellFounded, WFMin
<1>3. \A k \in S : m <= k
  <2> SUFFICES ASSUME NEW k \in S PROVE m <= k
    OBVIOUS
  <2>1. m \in Nat /\ k \in Nat
    BY <1>1
  <2>2. ~(k < m)
    BY <1>2, <2>1 DEF OpToRel
  <2>3. QED
    BY <2>1, <2>2, SMT
<1>4. QED
  BY <1>3 DEF Oldest

\* What a claim does, without the choice of the meeting.
LEMMA ClaimedMeeting ==
  ASSUME NEW w \in Workers, Claim(w)
  PROVE  \E k \in Meetings :
           /\ PipelineClaimable(row[k]) \/ RegenerationClaimable(row[k])
           /\ SetRow(k, Claimed(row[k]))
           /\ worker' = [worker EXCEPT ![w] =
                [Idle EXCEPT !.at      = EntryPoint(ClaimedStatus(row[k])),
                             !.m       = k,
                             !.claimed = ClaimedStatus(row[k]),
                             !.lang    = row[k].lang]]
<1> DEFINE free(skipped)     == Meetings \ skipped
           pipeline(skipped) == {m \in free(skipped) : PipelineClaimable(row[m])}
           waiting(skipped)  ==
             IF pipeline(skipped) # {} THEN pipeline(skipped)
             ELSE {m \in free(skipped) : RegenerationClaimable(row[m])}
<1>1. PICK skipped \in SUBSET {m \in Meetings : MayBeLocked(m)} :
        /\ waiting(skipped) # {}
        /\ SetRow(Oldest(waiting(skipped)), Claimed(row[Oldest(waiting(skipped))]))
        /\ worker' = [worker EXCEPT ![w] =
             [Idle EXCEPT
                !.at      = EntryPoint(ClaimedStatus(row[Oldest(waiting(skipped))])),
                !.m       = Oldest(waiting(skipped)),
                !.claimed = ClaimedStatus(row[Oldest(waiting(skipped))]),
                !.lang    = row[Oldest(waiting(skipped))].lang]]
  BY DEF Claim
<1>2. waiting(skipped) \in SUBSET Meetings
  OBVIOUS
<1>3. \A m \in waiting(skipped) :
        PipelineClaimable(row[m]) \/ RegenerationClaimable(row[m])
  OBVIOUS
<1>4. Oldest(waiting(skipped)) \in waiting(skipped)
  BY <1>1, <1>2, OldestIsMember
<1>5. QED
  BY <1>1, <1>2, <1>3, <1>4

\* ... and the memory the worker starts with.
LEMMA ClaimFacts ==
  ASSUME TypeInv, NEW w \in Workers, Claim(w)
  PROVE  \E k \in Meetings :
           /\ row[k] \in Row
           /\ PipelineClaimable(row[k]) \/ RegenerationClaimable(row[k])
           /\ SetRow(k, Claimed(row[k]))
           /\ worker' \in [Workers -> Worker]
           /\ worker'[w].at = EntryPoint(ClaimedStatus(row[k]))
           /\ worker'[w].m = k
           /\ worker'[w].claimed = ClaimedStatus(row[k])
           /\ worker'[w].lang = row[k].lang
           /\ worker'[w].segments = NoTranscript
           /\ \A v \in Workers : v # w => worker'[v] = worker[v]
<1>1. PICK k \in Meetings :
        /\ PipelineClaimable(row[k]) \/ RegenerationClaimable(row[k])
        /\ SetRow(k, Claimed(row[k]))
        /\ worker' = [worker EXCEPT ![w] =
             [Idle EXCEPT !.at      = EntryPoint(ClaimedStatus(row[k])),
                          !.m       = k,
                          !.claimed = ClaimedStatus(row[k]),
                          !.lang    = row[k].lang]]
  BY ClaimedMeeting
<1>2. worker \in [Workers -> Worker] /\ row[k] \in Row
  BY DEF TypeInv, TypeOK
<1> DEFINE r == row[k]
           at == EntryPoint(ClaimedStatus(r))
           claimed == ClaimedStatus(r)
           lang == r.lang
           new == [Idle EXCEPT !.at = at, !.m = k, !.claimed = claimed,
                               !.lang = lang]
<1>3. at \in BusyPoints \union {"off", "idle"}
  BY EntryPointBusy
<1>4. lang \in Languages /\ r.resume \in Stages \union {"none"}
  BY <1>2, Zenon DEF Row
<1>5. claimed \in NonTerminal \union {"done", "none"}
  BY <1>1, <1>4, SMT DEF ClaimedStatus, PipelineClaimable, RegenerationClaimable,
                         NonTerminal, Stages
<1>6. Idle \in Worker /\ Idle.segments = NoTranscript
  BY IdleTyped, Zenon DEF Idle, Off
<1>7. worker' = [worker EXCEPT ![w] = new]
  BY <1>1, Zenon
<1> HIDE DEF at, claimed, lang
<1>8. new \in Worker
  BY <1>3, <1>4, <1>5, <1>6, Zenon DEF Worker
<1>9. /\ new.at = at /\ new.m = k /\ new.claimed = claimed
      /\ new.lang = lang /\ new.segments = NoTranscript
  BY <1>6, <1>8, Zenon DEF Worker
<1> HIDE DEF new
<1>10. /\ worker' \in [Workers -> Worker] /\ worker'[w] = new
       /\ \A v \in Workers : v # w => worker'[v] = worker[v]
  BY <1>2, <1>7, <1>8, Zenon
<1>11. QED
  BY <1>1, <1>2, <1>9, <1>10, Zenon DEF at, claimed, lang

LEMMA DetectingWorkerFacts ==
  ASSUME worker \in [Workers -> Worker], NEW w \in Workers,
         NEW d \in Detectable \union {"none"},
         worker' = [worker EXCEPT ![w] = [@ EXCEPT !.at = "saveTranscript",
                                                   !.detected = d]]
  PROVE  /\ worker' \in [Workers -> Worker]
         /\ worker'[w].at = "saveTranscript" /\ worker'[w].detected = d
         /\ worker'[w].m = worker[w].m
         /\ worker'[w].claimed = worker[w].claimed
         /\ worker'[w].lang = worker[w].lang
         /\ worker'[w].segments = worker[w].segments
         /\ \A v \in Workers : v # w => worker'[v] = worker[v]
<1>1. "saveTranscript" \in BusyPoints \union {"off", "idle"}
  BY Points, SMT
<1>2. worker[w] \in Worker
  BY Zenon
<1> DEFINE new == [worker[w] EXCEPT !.at = "saveTranscript", !.detected = d]
<1>3. new \in Worker
  BY <1>1, <1>2, Zenon DEF Worker
<1>4. /\ new.at = "saveTranscript" /\ new.detected = d /\ new.m = worker[w].m
      /\ new.claimed = worker[w].claimed /\ new.lang = worker[w].lang
      /\ new.segments = worker[w].segments
  BY <1>2, Zenon DEF Worker
<1>5. worker' = [worker EXCEPT ![w] = new]
  BY Zenon
<1> HIDE DEF new
<1>6. QED
  BY <1>3, <1>4, <1>5, Zenon

LEMMA LoadingWorkerFacts ==
  ASSUME worker \in [Workers -> Worker], NEW w \in Workers,
         NEW point \in BusyPoints, NEW t \in Transcript,
         worker' = [worker EXCEPT ![w] = [@ EXCEPT !.at = point, !.segments = t]]
  PROVE  /\ worker' \in [Workers -> Worker]
         /\ worker'[w].at = point /\ worker'[w].segments = t
         /\ worker'[w].m = worker[w].m
         /\ worker'[w].claimed = worker[w].claimed
         /\ worker'[w].lang = worker[w].lang
         /\ worker'[w].detected = worker[w].detected
         /\ \A v \in Workers : v # w => worker'[v] = worker[v]
<1>1. worker[w] \in Worker
  BY Zenon
<1> DEFINE new == [worker[w] EXCEPT !.at = point, !.segments = t]
<1>2. new \in Worker
  BY <1>1, Zenon DEF Worker
<1>3. /\ new.at = point /\ new.segments = t /\ new.m = worker[w].m
      /\ new.claimed = worker[w].claimed /\ new.lang = worker[w].lang
      /\ new.detected = worker[w].detected
  BY <1>1, Zenon DEF Worker
<1>4. worker' = [worker EXCEPT ![w] = new]
  BY Zenon
<1> HIDE DEF new
<1>5. QED
  BY <1>2, <1>3, <1>4, Zenon

LEMMA DiarizedFacts ==
  ASSUME NEW t \in Transcript
  PROVE  /\ [t EXCEPT !.diarized = TRUE] \in Transcript
         /\ [t EXCEPT !.diarized = TRUE].lang = t.lang
         /\ [t EXCEPT !.diarized = TRUE].diarized = TRUE
  BY Zenon DEF Transcript

LEMMA LatestTyped ==
  ASSUME NEW r \in Row
  PROVE  r.latest + 1 \in Nat
<1>1. r.latest \in Nat
  BY Zenon DEF Row
<1>2. QED
  BY <1>1, SMT

LEMMA WorkerTypeStep ==
  ASSUME TypeInv, NEW w \in Workers, WorkerStep(w) \/ CrashWorker(w) \/ DatabaseError(w)
  PROVE  TypeInv'
<1> DEFINE m == worker[w].m
<1>1. /\ row \in [Meetings -> Row]
      /\ transcript \in [Meetings -> Transcript]
      /\ versions \in [Meetings -> SUBSET SummaryVersion]
      /\ files \in [Meetings -> SUBSET {"directory", "original", "normalized"}]
      /\ lock \in Workers \union {"none"}
      /\ worker \in [Workers -> Worker] /\ worker[w] \in Worker
      /\ handler \in [Handlers -> Handler]
      /\ Busy(w) => m \in Meetings /\ row[m] \in Row
  BY DEF TypeInv, TypeOK
<1>2. /\ worker[w].lang \in Languages
      /\ worker[w].detected \in Detectable \union {"none"}
      /\ worker[w].segments \in Transcript
  BY <1>1, Zenon DEF Worker
<1>3. CASE StartWorker(w)
  BY <1>1, <1>3, WorkerRests, HandlersUnchanged, TypedNext DEF StartWorker, data
<1>4. CASE CrashWorker(w)
  <2>1. /\ worker' \in [Workers -> Worker]
        /\ worker'[w] = Off
        /\ \A v \in Workers : v # w => worker'[v] = worker[v]
    BY <1>1, <1>4, IdleTyped, Zenon DEF CrashWorker
  <2>2. "off" \notin BusyPoints
    BY Points, SMT
  <2>3. QED
    BY <1>1, <1>4, <2>1, <2>2, IdleTyped, WorkersTyped, HandlersUnchanged, TypedNext
       DEF CrashWorker, data
<1>5. CASE DatabaseError(w)
  BY <1>1, <1>5, WorkerRests, HandlersUnchanged, TypedNext DEF DatabaseError, data
<1>6. CASE Claim(w)
  <2>1. PICK k \in Meetings :
          /\ row[k] \in Row
          /\ PipelineClaimable(row[k]) \/ RegenerationClaimable(row[k])
          /\ SetRow(k, Claimed(row[k]))
          /\ worker' \in [Workers -> Worker]
          /\ worker'[w].m = k
          /\ \A v \in Workers : v # w => worker'[v] = worker[v]
    BY ClaimFacts, <1>6
  <2>2. Claimed(row[k]) \in Row
    BY <2>1, ClaimedPendingFacts, ClaimedDoneFacts, ClaimedStageFacts
       DEF PipelineClaimable, RegenerationClaimable
  <2>3. row' \in [Meetings -> Row]
    BY <1>1, <2>1, <2>2, SetRowFacts
  <2>4. QED
    BY <1>1, <1>6, <2>1, <2>3, WorkersTyped, HandlersUnchanged, TypedNext
       DEF Claim, data
<1>7. CASE ReportProgress(w)
  <2>1. Busy(w)
    BY <1>7, Points DEF ReportProgress, Busy
  <2>2. PICK p \in ProgressMarks : SetRow(m, TranscriptionProgressed(row[m], p))
    BY <1>7 DEF ReportProgress
  <2>3. p \in -1 .. 100
    BY PipelineAssumption, SMT
  <2>4. row' \in [Meetings -> Row]
    BY <1>1, <2>1, <2>2, <2>3, TranscriptionProgressedFacts, SetRowFacts
  <2>5. QED
    BY <1>1, <1>7, <2>4, WorkersUnchanged, HandlersUnchanged, TypedNext
       DEF ReportProgress, data
<1>8. CASE MarkNormalizing(w)
  <2>1. Busy(w)
    BY <1>8, Points DEF MarkNormalizing, Writes, Busy
  <2>2. row' \in [Meetings -> Row]
    BY <1>1, <1>8, <2>1, NormalizationStartedFacts, SetRowFacts DEF MarkNormalizing
  <2>3. QED
    BY <1>1, <1>2, <1>8, <2>1, <2>2, WorkerMoves, Points, HandlersUnchanged,
       TypedNext DEF MarkNormalizing, data
<1>9. CASE Convert(w)
  <2>1. Busy(w)
    BY <1>9, Points DEF Convert, Writes, Busy
  <2>2. files' \in [Meetings -> SUBSET {"directory", "original", "normalized"}]
    BY <1>1, <1>9, <2>1 DEF Convert
  <2>3. QED
    BY <1>1, <1>2, <1>9, <2>1, <2>2, WorkerMoves, Points, HandlersUnchanged,
       TypedNext DEF Convert, data
<1>10. CASE Cleanup(w)
  <2>1. Busy(w)
    BY <1>10, Points DEF Cleanup, Writes, Busy
  <2>2. files' \in [Meetings -> SUBSET {"directory", "original", "normalized"}]
    BY <1>1, <1>10, <2>1 DEF Cleanup
  <2>3. QED
    BY <1>1, <1>2, <1>10, <2>1, <2>2, WorkerMoves, Points, HandlersUnchanged,
       TypedNext DEF Cleanup, data
<1>11. CASE MarkTranscribing(w)
  <2>1. Busy(w)
    BY <1>11, Points DEF MarkTranscribing, Writes, Busy
  <2>2. row' \in [Meetings -> Row]
    BY <1>1, <1>11, <2>1, TranscriptionStartedFacts, SetRowFacts DEF MarkTranscribing
  <2>3. NoTranscript \in Transcript
    BY ColumnValues, Zenon DEF NoTranscript, Transcript
  <2>4. transcript' \in [Meetings -> Transcript]
    BY <1>1, <1>11, <2>1, <2>3, Zenon DEF MarkTranscribing
  <2>5. QED
    BY <1>1, <1>2, <1>11, <2>1, <2>2, <2>3, <2>4, WorkerMoves, Points, HandlersUnchanged,
       TypedNext DEF MarkTranscribing, data
<1>12. CASE Transcribe(w)
  <2>1. Busy(w)
    BY <1>12, Points DEF Transcribe, Writes, Busy
  <2>2. /\ worker' \in [Workers -> Worker]
        /\ worker'[w].m = m
        /\ \A v \in Workers : v # w => worker'[v] = worker[v]
    BY <1>1, <1>12, DetectingWorkerFacts DEF Transcribe
  <2>3. QED
    BY <1>1, <1>2, <1>12, <2>1, <2>2, WorkersTyped, HandlersUnchanged,
       TypedNext DEF Transcribe, data
<1>13. CASE SaveTranscript(w)
  <2>1. Busy(w)
    BY <1>13, Points DEF SaveTranscript, Writes, Busy
  <2>2. PICK d \in Detectable \union {"none"} :
          /\ d = IF worker[w].lang = "auto" THEN worker[w].detected ELSE "none"
          /\ SetRow(m, TranscriptionSucceeded(row[m], d))
    BY <1>2, <1>13, ColumnValues DEF SaveTranscript
  <2>3. row' \in [Meetings -> Row]
    BY <1>1, <2>1, <2>2, TranscriptionSucceededFacts, SetRowFacts
  <2>4. [lang |-> worker[w].lang, diarized |-> FALSE] \in Transcript
    BY <1>2, Zenon DEF Transcript
  <2>5. transcript' \in [Meetings -> Transcript]
    BY <1>1, <1>13, <2>1, <2>4, Zenon DEF SaveTranscript
  <2>6. QED
    BY <1>1, <1>2, <1>13, <2>1, <2>2, <2>3, <2>4, <2>5, WorkerMoves, Points, HandlersUnchanged,
       TypedNext DEF SaveTranscript, data
<1>14. CASE LoadSegments(w)
  <2>1. Busy(w)
    BY <1>14, Points DEF LoadSegments, Writes, Busy
  <2>2. transcript[m] \in Transcript
    BY <1>1, <2>1
  <2>3. AfterLoading[worker[w].at] \in BusyPoints
    BY <1>14, AfterLoadingBusy DEF LoadSegments
  <2>4. /\ worker' \in [Workers -> Worker]
        /\ worker'[w].m = m
        /\ \A v \in Workers : v # w => worker'[v] = worker[v]
    BY <1>1, <1>14, <2>2, <2>3, LoadingWorkerFacts DEF LoadSegments
  <2>5. QED
    BY <1>1, <1>2, <1>14, <2>1, <2>2, <2>3, <2>4, WorkersTyped, HandlersUnchanged,
       TypedNext DEF LoadSegments, data
<1>15. CASE MarkDiarizing(w)
  <2>1. Busy(w)
    BY <1>15, Points DEF MarkDiarizing, Writes, Busy
  <2>2. row' \in [Meetings -> Row]
    BY <1>1, <1>15, <2>1, DiarizationStartedFacts, SetRowFacts DEF MarkDiarizing
  <2>3. QED
    BY <1>1, <1>2, <1>15, <2>1, <2>2, WorkerMoves, Points, HandlersUnchanged,
       TypedNext DEF MarkDiarizing, data
<1>16. CASE Diarize(w)
  <2>1. Busy(w)
    BY <1>16, Points DEF Diarize, Writes, Busy
  <2>2. [worker[w].segments EXCEPT !.diarized = TRUE] \in Transcript
    BY <1>2, DiarizedFacts
  <2>3. /\ worker' \in [Workers -> Worker]
        /\ worker'[w].m = m
        /\ \A v \in Workers : v # w => worker'[v] = worker[v]
    BY <1>1, <1>16, <2>2, Points, LoadingWorkerFacts, ZenonT(30) DEF Diarize
  <2>4. QED
    BY <1>1, <1>2, <1>16, <2>1, <2>2, <2>3, WorkersTyped, HandlersUnchanged,
       TypedNext DEF Diarize, data
<1>17. CASE SaveDiarization(w)
  <2>1. Busy(w)
    BY <1>17, Points DEF SaveDiarization, Writes, Busy
  <2>2. row' \in [Meetings -> Row]
    BY <1>1, <1>17, <2>1, DiarizationSucceededFacts, SetRowFacts DEF SaveDiarization
  <2>3. transcript' \in [Meetings -> Transcript]
    BY <1>1, <1>2, <1>17, <2>1, Zenon DEF SaveDiarization
  <2>4. QED
    BY <1>1, <1>2, <1>17, <2>1, <2>2, <2>3, WorkerMoves, Points, HandlersUnchanged,
       TypedNext DEF SaveDiarization, data
<1>18. CASE MarkSummarizing(w)
  <2>1. Busy(w)
    BY <1>18, Points DEF MarkSummarizing, Writes, Busy
  <2>2. row' \in [Meetings -> Row]
    BY <1>1, <1>18, <2>1, SummarizationStartedFacts, SetRowFacts DEF MarkSummarizing
  <2>3. QED
    BY <1>1, <1>2, <1>18, <2>1, <2>2, WorkerMoves, Points, HandlersUnchanged,
       TypedNext DEF MarkSummarizing, data
<1>19. CASE Summarize(w)
  <2>1. Busy(w)
    BY <1>19, Points DEF Summarize, Writes, Busy
  <2>2. row' \in [Meetings -> Row]
    BY <1>1, <1>19, <2>1, SummarizationSucceededFacts, SetRowFacts DEF Summarize
  <2>3. [number |-> 1, source |-> "initial", of |-> worker[w].segments] \in SummaryVersion
    BY <1>2, ColumnValues, Zenon DEF SummaryVersion
  <2>4. versions' \in [Meetings -> SUBSET SummaryVersion]
    BY <1>1, <1>19, <2>1, <2>3 DEF Summarize
  <2>5. QED
    BY <1>1, <1>2, <1>19, <2>1, <2>2, <2>3, <2>4, WorkerRests, HandlersUnchanged,
       TypedNext DEF Summarize, data
<1>20. CASE Regenerate(w)
  <2>1. Busy(w)
    BY <1>20, Points DEF Regenerate, Writes, Busy
  <2>2. row' \in [Meetings -> Row]
    BY <1>1, <1>20, <2>1, RegenerationSucceededFacts, SetRowFacts DEF Regenerate
  <2>3. row[m].latest + 1 \in Nat
    BY <1>1, <2>1, LatestTyped
  <2>4. [number |-> row[m].latest + 1, source |-> "ai_revision",
         of |-> worker[w].segments] \in SummaryVersion
    BY <1>2, <2>3, Zenon DEF SummaryVersion
  <2>5. versions' \in [Meetings -> SUBSET SummaryVersion]
    BY <1>1, <1>20, <2>1, <2>4 DEF Regenerate
  <2>6. QED
    BY <1>1, <1>2, <1>20, <2>1, <2>2, <2>3, <2>4, <2>5, WorkerRests, HandlersUnchanged,
       TypedNext DEF Regenerate, data
<1>21. CASE StageFails(w)
  <2>1. Busy(w)
    BY <1>21, Points DEF StageFails, Busy
  <2>2. ASSUME NEW kind \in FailureKinds[worker[w].at]
        PROVE  Failed(row[m], kind, FailureStage[worker[w].at]) \in Row
    BY <1>1, <1>21, <2>1, FailuresTyped, FailedFacts DEF StageFails
  <2>3. row' \in [Meetings -> Row]
    BY <1>1, <1>21, <2>1, <2>2, SetRowFacts DEF StageFails
  <2>4. QED
    BY <1>1, <1>21, <2>3, WorkerRests, HandlersUnchanged, TypedNext
       DEF StageFails, data
<1>22. CASE RegenerationFails(w)
  <2>1. Busy(w)
    BY <1>22, Points DEF RegenerationFails, Busy
  <2>2. row' \in [Meetings -> Row]
    BY <1>1, <1>22, <2>1, RegenerationFailedFacts, SetRowFacts DEF RegenerationFails
  <2>3. QED
    BY <1>1, <1>22, <2>2, WorkerRests, HandlersUnchanged, TypedNext
       DEF RegenerationFails, data
<1>23. CASE WriteRefused(w)
  BY <1>1, <1>23, WorkerRests, HandlersUnchanged, TypedNext DEF WriteRefused, data
<1>24. QED
  BY <1>3, <1>4, <1>5, <1>6, <1>7, <1>8, <1>9, <1>10, <1>11, <1>12, <1>13, <1>14, <1>15, <1>16, <1>17, <1>18, <1>19, <1>20, <1>21, <1>22, <1>23 DEF WorkerStep, Stage

LEMMA RequestTypeStep ==
  ASSUME TypeInv, NEW h \in Handlers, RequestStep(h) \/ RequestDies(h)
  PROVE  TypeInv'
<1> DEFINE m == handler[h].m
           u == handler[h].update
<1>1. /\ row \in [Meetings -> Row]
      /\ transcript \in [Meetings -> Transcript]
      /\ versions \in [Meetings -> SUBSET SummaryVersion]
      /\ files \in [Meetings -> SUBSET {"directory", "original", "normalized"}]
      /\ lock \in Workers \union {"none"}
      /\ worker \in [Workers -> Worker]
      /\ handler \in [Handlers -> Handler] /\ handler[h] \in Handler
  BY DEF TypeInv, TypeOK
<1>2. u \in Update
  BY <1>1, Zenon DEF Handler
<1>3. m \in Meetings /\ row[m] \in Row
  BY <1>1 DEF TypeInv, RequestStep, RequestDies, RetryWrite, LanguageWrite,
              DeleteFiles, DeleteRow
<1>4. CASE RetryWrite(h)
  <2>1. row' \in [Meetings -> Row]
    BY <1>1, <1>2, <1>3, <1>4, RetriedFacts, SetRowFacts DEF RetryWrite
  <2>2. QED
    BY <1>1, <1>4, <2>1, WorkersUnchanged, HandlerFinishes, TypedNext
       DEF RetryWrite, data
<1>5. CASE LanguageWrite(h)
  <2>1. row' \in [Meetings -> Row]
    BY <1>1, <1>2, <1>3, <1>5, LanguageUpdatedFacts, SetRowFacts DEF LanguageWrite
  <2>2. QED
    BY <1>1, <1>5, <2>1, WorkersUnchanged, HandlerFinishes, TypedNext
       DEF LanguageWrite, data
<1>6. CASE DeleteFiles(h)
  <2>1. files' \in [Meetings -> SUBSET {"directory", "original", "normalized"}]
    BY <1>1, <1>6 DEF DeleteFiles
  <2>2. /\ handler' \in [Handlers -> Handler]
        /\ handler'[h].m = m
        /\ \A g \in Handlers : g # h => handler'[g] = handler[g]
    BY <1>1, <1>6, Zenon DEF DeleteFiles, Handler
  <2>3. \A g \in Handlers : handler'[g].op # "none" => handler'[g].m \in Meetings
    BY <1>3, <2>2 DEF TypeInv
  <2>4. QED
    BY <1>1, <1>6, <2>1, <2>2, <2>3, WorkersUnchanged, TypedNext DEF DeleteFiles
<1>7. CASE DeleteRow(h)
  <2>1. row' \in [Meetings -> Row]
    BY <1>1, <1>3, <1>7, DeletedRowFacts, SetRowFacts DEF DeleteRow
  <2>2. NoTranscript \in Transcript
    BY ColumnValues, Zenon DEF NoTranscript, Transcript
  <2>3. /\ transcript' \in [Meetings -> Transcript]
        /\ versions' \in [Meetings -> SUBSET SummaryVersion]
    BY <1>1, <1>7, <2>2 DEF DeleteRow
  <2>4. QED
    BY <1>1, <1>7, <2>1, <2>3, WorkersUnchanged, HandlerFinishes, TypedNext
       DEF DeleteRow
<1>8. CASE RequestDies(h)
  BY <1>1, <1>8, WorkersUnchanged, HandlerFinishes, TypedNext DEF RequestDies, data
<1>9. QED
  BY <1>4, <1>5, <1>6, <1>7, <1>8 DEF RequestStep

LEMMA MeetingTypeStep ==
  ASSUME TypeInv, NEW m \in Meetings,
         Upload(m) \/ RegenerateSummary(m) \/ UpdateTitle(m) \/ Age(m)
  PROVE  TypeInv'
<1>1. /\ row \in [Meetings -> Row] /\ row[m] \in Row
      /\ transcript \in [Meetings -> Transcript]
      /\ versions \in [Meetings -> SUBSET SummaryVersion]
      /\ files \in [Meetings -> SUBSET {"directory", "original", "normalized"}]
      /\ lock \in Workers \union {"none"}
  BY DEF TypeInv, TypeOK
<1>2. CASE Upload(m)
  <2>1. row' \in [Meetings -> Row]
    BY <1>1, <1>2, PendingRowFacts, SetRowFacts DEF Upload
  <2>2. files' \in [Meetings -> SUBSET {"directory", "original", "normalized"}]
    BY <1>1, <1>2 DEF Upload
  <2>3. QED
    BY <1>1, <1>2, <2>1, <2>2, WorkersUnchanged, HandlersUnchanged, TypedNext
       DEF Upload
<1>3. CASE RegenerateSummary(m)
  <2>1. row' \in [Meetings -> Row]
    BY <1>1, <1>3, RegenerationQueuedFacts, SetRowFacts DEF RegenerateSummary
  <2>2. QED
    BY <1>1, <1>3, <2>1, WorkersUnchanged, HandlersUnchanged, TypedNext
       DEF RegenerateSummary, data
<1>4. CASE UpdateTitle(m)
  <2>1. row' \in [Meetings -> Row]
    BY <1>1, <1>4, TitleUpdatedFacts, SetRowFacts DEF UpdateTitle
  <2>2. QED
    BY <1>1, <1>4, <2>1, WorkersUnchanged, HandlersUnchanged, TypedNext
       DEF UpdateTitle, data
<1>5. CASE Age(m)
  <2>1. row' = [row EXCEPT ![m] = [row[m] EXCEPT !.overdue = TRUE]]
    BY <1>5, Zenon DEF Age
  <2>2. row' \in [Meetings -> Row]
    BY <1>1, <2>1, AgedFacts, Zenon
  <2>3. QED
    BY <1>1, <1>5, <2>2, WorkersUnchanged, HandlersUnchanged, TypedNext DEF Age, data
<1>6. QED
  BY <1>2, <1>3, <1>4, <1>5

LEMMA ReadTypeStep ==
  ASSUME TypeInv, NEW h \in Handlers, NEW m \in Meetings,
         RetryRead(h, m) \/ LanguageRead(h, m) \/ DeleteFind(h, m)
  PROVE  TypeInv'
<1>1. /\ row \in [Meetings -> Row] /\ row[m] \in Row
      /\ transcript \in [Meetings -> Transcript]
      /\ versions \in [Meetings -> SUBSET SummaryVersion]
      /\ files \in [Meetings -> SUBSET {"directory", "original", "normalized"}]
      /\ lock \in Workers \union {"none"}
  BY DEF TypeInv, TypeOK
<1>2. CASE RetryRead(h, m)
  <2>1. PICK lang \in Languages : Begin(h, "retry", m, RetryUpdate(row[m], lang))
    BY <1>2 DEF RetryRead
  <2>2. RetryUpdate(row[m], lang) \in Update
    BY <1>1, <1>2, RetryUpdateFacts DEF RetryRead, IsRetryable
  <2>3. QED
    BY <1>1, <1>2, <2>1, <2>2, WorkersUnchanged, HandlerBegins, TypedNext
       DEF RetryRead, data
<1>3. CASE LanguageRead(h, m)
  <2>1. PICK lang \in Languages :
          Begin(h, "language", m, PendingLanguageUpdate(row[m], lang))
    BY <1>3 DEF LanguageRead
  <2>2. PendingLanguageUpdate(row[m], lang) \in Update
    BY <1>1, PendingLanguageUpdateFacts
  <2>3. QED
    BY <1>1, <1>3, <2>1, <2>2, WorkersUnchanged, HandlerBegins, TypedNext
       DEF LanguageRead, data
<1>4. CASE DeleteFind(h, m)
  <2>1. NoUpdate \in Update
    BY ColumnValues, Zenon DEF NoUpdate, Update
  <2>2. QED
    BY <1>1, <1>4, <2>1, WorkersUnchanged, HandlerBegins, TypedNext
       DEF DeleteFind, data
<1>5. QED
  BY <1>2, <1>3, <1>4

LEMMA TypeStep ==
  ASSUME TypeInv, [Next \/ LockSessionLost]_vars
  PROVE  TypeInv'
<1>1. ASSUME NEW w \in Workers, WorkerStep(w) \/ CrashWorker(w) \/ DatabaseError(w)
      PROVE  TypeInv'
  BY <1>1, WorkerTypeStep
<1>2. ASSUME NEW h \in Handlers, RequestStep(h) \/ RequestDies(h)
      PROVE  TypeInv'
  BY <1>2, RequestTypeStep
<1>3. ASSUME NEW m \in Meetings,
             Upload(m) \/ RegenerateSummary(m) \/ UpdateTitle(m) \/ Age(m)
      PROVE  TypeInv'
  BY <1>3, MeetingTypeStep
<1>4. ASSUME NEW h \in Handlers, NEW m \in Meetings,
             RetryRead(h, m) \/ LanguageRead(h, m) \/ DeleteFind(h, m)
      PROVE  TypeInv'
  BY <1>4, ReadTypeStep
<1>5. CASE LockSessionLost
  BY <1>5, WorkersUnchanged, HandlersUnchanged, TypedNext
     DEF LockSessionLost, data, TypeInv, TypeOK
<1>6. CASE UNCHANGED vars
  BY <1>6 DEF vars, TypeInv, TypeOK, Busy
<1>7. QED
  BY <1>1, <1>2, <1>3, <1>4, <1>5, <1>6 DEF Next, Request, Fault

\* Every variable keeps its type, whatever the number of workers, requests and
\* meetings, and even when the advisory lock is lost: no column of a meetings row,
\* no worker's memory and no request ever holds a value its code cannot handle.
THEOREM LockLossTypeCorrect == LockLossSpec => []TypeOK
<1>1. Init => TypeInv
  BY TypeInit
<1>2. TypeInv /\ [Next \/ LockSessionLost]_vars => TypeInv'
  BY TypeStep
<1>3. TypeInv => TypeOK
  BY DEF TypeInv
<1>4. QED
  BY <1>1, <1>2, <1>3, PTL DEF LockLossSpec

\* The same of the system that keeps its lock, and busy workers and requests
\* always have a meeting; later proofs start from this.
THEOREM TypeCorrect == Spec => [](TypeOK /\ TypeInv)
<1>1. Init => TypeInv
  BY TypeInit
<1>2. TypeInv /\ [Next]_vars => TypeInv'
  BY TypeStep
<1>3. TypeInv => TypeOK
  BY DEF TypeInv
<1>4. QED
  BY <1>1, <1>2, <1>3, PTL DEF Spec

-----------------------------------------------------------------------------
(* One worker per meeting.                                                  *)

\* A process that runs holds the lock.
LockHeld == \A w \in Workers : worker[w].at # "off" => lock = w

LEMMA OneWorkerHolds ==
  ASSUME LockHeld
  PROVE  OneWorkerPerMeeting
<1>1. "off" \notin BusyPoints
  BY Points, SMT
<1>2. QED
  BY <1>1 DEF LockHeld, OneWorkerPerMeeting, Busy

\* What a running process does to other processes and to the lock: nothing.
LEMMA RunningStep ==
  ASSUME TypeInv, NEW w \in Workers,
         Claim(w) \/ Stage(w) \/ ReportProgress(w) \/ DatabaseError(w)
  PROVE  /\ worker[w].at # "off"
         /\ UNCHANGED lock
         /\ \A v \in Workers : v # w => worker'[v] = worker[v]
<1>1. worker \in [Workers -> Worker]
  BY DEF TypeInv, TypeOK
<1>2. UNCHANGED lock
  BY DEF Claim, Stage, ReportProgress, DatabaseError, MarkNormalizing, Convert,
         Cleanup, MarkTranscribing, Transcribe, SaveTranscript, LoadSegments,
         MarkDiarizing, Diarize, SaveDiarization, MarkSummarizing, Summarize,
         Regenerate, StageFails, RegenerationFails, WriteRefused
<1>3. worker[w].at = "idle" \/ Busy(w)
  BY Points
     DEF Claim, Stage, ReportProgress, DatabaseError, MarkNormalizing, Convert,
         Cleanup, MarkTranscribing, Transcribe, SaveTranscript, LoadSegments,
         MarkDiarizing, Diarize, SaveDiarization, MarkSummarizing, Summarize,
         Regenerate, StageFails, RegenerationFails, WriteRefused, Writes, Busy
<1>4. "off" \notin BusyPoints
  BY Points, SMT
<1>5. UNCHANGED worker \/ \E record : worker' = [worker EXCEPT ![w] = record]
  <2>1. ASSUME NEW point, Goto(w, point)
        PROVE  \E record : worker' = [worker EXCEPT ![w] = record]
    BY <2>1, Zenon DEF Goto
  <2>2. ASSUME BecomeIdle(w)
        PROVE  \E record : worker' = [worker EXCEPT ![w] = record]
    BY <2>2, Zenon DEF BecomeIdle
  <2>3. CASE Claim(w)
    BY <2>3, Zenon DEF Claim
  <2>4. CASE Transcribe(w) \/ LoadSegments(w) \/ Diarize(w)
    BY <2>4, Zenon DEF Transcribe, LoadSegments, Diarize
  <2>5. CASE ReportProgress(w)
    BY <2>5 DEF ReportProgress
  <2>6. CASE \/ MarkNormalizing(w) \/ Convert(w) \/ Cleanup(w)
             \/ MarkTranscribing(w) \/ SaveTranscript(w) \/ MarkDiarizing(w)
             \/ SaveDiarization(w) \/ MarkSummarizing(w)
    BY <2>1, <2>6, Zenon
       DEF MarkNormalizing, Convert, Cleanup, MarkTranscribing, SaveTranscript,
           MarkDiarizing, SaveDiarization, MarkSummarizing
  <2>7. CASE \/ Summarize(w) \/ Regenerate(w) \/ StageFails(w)
             \/ RegenerationFails(w) \/ WriteRefused(w) \/ DatabaseError(w)
    BY <2>2, <2>7, Zenon
       DEF Summarize, Regenerate, StageFails, RegenerationFails, WriteRefused,
           DatabaseError
  <2>8. QED
    BY <2>3, <2>4, <2>5, <2>6, <2>7 DEF Stage
<1>6. \A v \in Workers : v # w => worker'[v] = worker[v]
  BY <1>1, <1>5, Zenon
<1>7. QED
  BY <1>2, <1>3, <1>4, <1>6 DEF Busy

LEMMA LockHeldStep ==
  ASSUME TypeInv, LockHeld, [Next]_vars
  PROVE  LockHeld'
<1>1. worker \in [Workers -> Worker]
  BY DEF TypeInv, TypeOK
<1>2. ASSUME NEW w \in Workers,
             Claim(w) \/ Stage(w) \/ ReportProgress(w) \/ DatabaseError(w)
      PROVE  LockHeld'
  BY <1>2, RunningStep DEF LockHeld
<1>3. ASSUME NEW w \in Workers, StartWorker(w)
      PROVE  LockHeld'
  <2>1. \A v \in Workers : v # w => worker'[v] = worker[v]
    BY <1>1, <1>3, BecomeIdleFacts DEF StartWorker
  <2>2. \A v \in Workers : worker[v].at = "off"
    BY <1>3, PipelineAssumption DEF StartWorker, LockHeld
  <2>3. QED
    BY <1>3, <2>1, <2>2 DEF StartWorker, LockHeld
<1>4. ASSUME NEW w \in Workers, CrashWorker(w)
      PROVE  LockHeld'
  <2>1. worker'[w].at = "off" /\ \A v \in Workers : v # w => worker'[v] = worker[v]
    BY <1>1, <1>4, IdleTyped DEF CrashWorker
  <2>2. QED
    BY <1>4, <2>1 DEF CrashWorker, LockHeld
<1>5. CASE UNCHANGED <<worker, lock>>
  BY <1>5 DEF LockHeld
<1>6. ASSUME NEW h \in Handlers, RequestStep(h) \/ RequestDies(h)
      PROVE  UNCHANGED <<worker, lock>>
  BY <1>6 DEF RequestStep, RequestDies, RetryWrite, LanguageWrite, DeleteFiles,
              DeleteRow
<1>7. ASSUME NEW m \in Meetings,
             Upload(m) \/ RegenerateSummary(m) \/ UpdateTitle(m) \/ Age(m)
      PROVE  UNCHANGED <<worker, lock>>
  BY <1>7 DEF Upload, RegenerateSummary, UpdateTitle, Age
<1>8. ASSUME NEW h \in Handlers, NEW m \in Meetings,
             RetryRead(h, m) \/ LanguageRead(h, m) \/ DeleteFind(h, m)
      PROVE  UNCHANGED <<worker, lock>>
  BY <1>8 DEF RetryRead, LanguageRead, DeleteFind
<1>9. CASE UNCHANGED vars
  BY <1>5, <1>9 DEF vars
<1>10. QED
  BY <1>2, <1>3, <1>4, <1>5, <1>6, <1>7, <1>8, <1>9
     DEF Next, WorkerStep, Request, Fault

\* Two workers never process the same meeting, however many processes are started
\* and however they crash: main.worker_singleton_lock does what it is for as long
\* as its session lasts (run lock_lost_race shows the system without it).
THEOREM OneWorkerCorrect == Spec => []OneWorkerPerMeeting
<1>1. Init => LockHeld
  BY IdleTyped DEF Init, LockHeld
<1>2. TypeInv /\ LockHeld /\ [Next]_vars => LockHeld'
  BY LockHeldStep
<1>3. LockHeld => OneWorkerPerMeeting
  BY OneWorkerHolds
<1>4. Init => TypeInv
  BY TypeInit
<1>5. TypeInv /\ [Next]_vars => TypeInv'
  BY TypeStep
<1>6. QED
  BY <1>1, <1>2, <1>3, <1>4, <1>5, PTL DEF Spec

-----------------------------------------------------------------------------
(* Summary versions are append-only.                                        *)

\* mark_summarization_succeeded may overwrite version 1; it never does, because a
\* meeting has no version until it is done.
SummarisedOnce == \A m \in Meetings : row[m].status # "done" => versions[m] = {}

\* What VersionsAreKept says of one step.
KeepsVersions ==
  \A m \in Meetings :
    versions[m] \subseteq versions'[m] \/ row'[m].status = "deleted"

\* A statement that writes no version and takes no meeting out of `done`.
LEMMA VersionsUntouched ==
  ASSUME SummarisedOnce, UNCHANGED versions,
         \A m \in Meetings : row[m].status = "done" => row'[m].status = "done"
  PROVE  SummarisedOnce' /\ KeepsVersions
  BY Zenon DEF SummarisedOnce, KeepsVersions

LEMMA RowWrite ==
  ASSUME TypeInv, SummarisedOnce, UNCHANGED versions,
         NEW m \in Meetings, NEW r \in Row, SetRow(m, r),
         row[m].status = "done" => r.status = "done"
  PROVE  SummarisedOnce' /\ KeepsVersions
<1>1. row \in [Meetings -> Row]
  BY DEF TypeInv, TypeOK
<1>2. QED
  BY <1>1, SetRowFacts, VersionsUntouched

LEMMA RowsUnchanged ==
  ASSUME SummarisedOnce, UNCHANGED <<row, versions>>
  PROVE  SummarisedOnce' /\ KeepsVersions
  BY VersionsUntouched

LEMMA WorkerVersionsStep ==
  ASSUME TypeInv, SummarisedOnce, NEW w \in Workers,
         WorkerStep(w) \/ CrashWorker(w) \/ DatabaseError(w)
  PROVE  SummarisedOnce' /\ KeepsVersions
<1> DEFINE m == worker[w].m
<1>1. /\ row \in [Meetings -> Row] /\ worker[w] \in Worker
      /\ versions \in [Meetings -> SUBSET SummaryVersion]
      /\ Busy(w) => m \in Meetings /\ row[m] \in Row
  BY DEF TypeInv, TypeOK
<1>2. CASE \/ StartWorker(w) \/ CrashWorker(w) \/ DatabaseError(w) \/ Convert(w)
           \/ Cleanup(w) \/ Transcribe(w) \/ LoadSegments(w) \/ Diarize(w)
           \/ WriteRefused(w)
  BY <1>2, RowsUnchanged
     DEF StartWorker, CrashWorker, DatabaseError, Convert, Cleanup, Transcribe,
         LoadSegments, Diarize, WriteRefused, data
<1>3. CASE Claim(w)
  <2>1. PICK k \in Meetings :
          /\ PipelineClaimable(row[k]) \/ RegenerationClaimable(row[k])
          /\ SetRow(k, Claimed(row[k]))
    BY ClaimedMeeting, <1>1, <1>3
  <2>2. /\ Claimed(row[k]) \in Row
        /\ row[k].status = "done" => Claimed(row[k]).status = "done"
    BY <1>1, <2>1, ClaimedPendingFacts, ClaimedDoneFacts, ClaimedStageFacts
       DEF PipelineClaimable, RegenerationClaimable
  <2>3. QED
    BY <1>3, <2>1, <2>2, RowWrite DEF Claim, data
<1>4. CASE ReportProgress(w)
  <2>1. Busy(w) /\ row[m].status = "transcribing" /\ UNCHANGED versions
    BY <1>4, Points DEF ReportProgress, Busy, data
  <2>2. PICK p \in ProgressMarks : SetRow(m, TranscriptionProgressed(row[m], p))
    BY <1>4 DEF ReportProgress
  <2>3. p \in -1 .. 100
    BY PipelineAssumption, SMT
  <2>4. QED
    BY <1>1, <2>1, <2>2, <2>3, TranscriptionProgressedFacts, RowWrite
<1>5. CASE MarkNormalizing(w) \/ MarkTranscribing(w)
  <2>1. Busy(w) /\ row[m].status # "done" /\ UNCHANGED versions
    BY <1>5, Points DEF MarkNormalizing, MarkTranscribing, Writes, Busy, Accepts, data
  <2>2. QED
    BY <1>1, <1>5, <2>1, NormalizationStartedFacts, TranscriptionStartedFacts, RowWrite
       DEF MarkNormalizing, MarkTranscribing
<1>6. CASE SaveTranscript(w)
  <2>1. Busy(w) /\ row[m].status # "done" /\ UNCHANGED versions
    BY <1>6, Points DEF SaveTranscript, Writes, Busy, Accepts
  <2>2. PICK d \in Detectable \union {"none"} :
          SetRow(m, TranscriptionSucceeded(row[m], d))
    BY <1>1, <1>6, ColumnValues, Zenon DEF SaveTranscript, Worker
  <2>3. QED
    BY <1>1, <2>1, <2>2, TranscriptionSucceededFacts, RowWrite
<1>7. CASE MarkDiarizing(w) \/ SaveDiarization(w) \/ MarkSummarizing(w)
  <2>1. Busy(w) /\ row[m].status # "done" /\ UNCHANGED versions
    BY <1>7, Points
       DEF MarkDiarizing, SaveDiarization, MarkSummarizing, Writes, Busy, Accepts, data
  <2>2. QED
    BY <1>1, <1>7, <2>1, DiarizationStartedFacts, DiarizationSucceededFacts,
       SummarizationStartedFacts, RowWrite
       DEF MarkDiarizing, SaveDiarization, MarkSummarizing
<1>8. CASE Summarize(w)
  <2>1. m \in Meetings /\ row[m] \in Row /\ row[m].status # "done"
    BY <1>1, <1>8, Points DEF Summarize, Writes, Busy, Accepts
  <2>2. /\ row'[m].status = "done"
        /\ \A k \in Meetings : k # m => row'[k] = row[k]
    BY <1>1, <1>8, <2>1, SummarizationSucceededFacts, SetRowFacts DEF Summarize
  <2>3. /\ versions[m] = {}
        /\ \A k \in Meetings : k # m => versions'[k] = versions[k]
    BY <1>1, <1>8, <2>1, Zenon DEF Summarize, SummarisedOnce
  <2>4. QED
    BY <2>2, <2>3 DEF SummarisedOnce, KeepsVersions
<1>9. CASE Regenerate(w)
  <2>1. m \in Meetings /\ row[m] \in Row /\ row[m].status = "done"
    BY <1>1, <1>9, Points DEF Regenerate, Busy
  <2>2. /\ row'[m].status = "done"
        /\ \A k \in Meetings : k # m => row'[k] = row[k]
    BY <1>1, <1>9, <2>1, RegenerationSucceededFacts, SetRowFacts DEF Regenerate
  <2>3. /\ versions[m] \subseteq versions'[m]
        /\ \A k \in Meetings : k # m => versions'[k] = versions[k]
    BY <1>1, <1>9, <2>1 DEF Regenerate
  <2>4. QED
    BY <2>2, <2>3 DEF SummarisedOnce, KeepsVersions
<1>10. CASE StageFails(w)
  <2>1. Busy(w) /\ UNCHANGED versions
    BY <1>10, Points DEF StageFails, Busy, data
  <2>2. CASE row[m].status \in NonTerminal
    <3>1. PICK kind \in FailureKinds[worker[w].at] :
            SetRow(m, Failed(row[m], kind, FailureStage[worker[w].at]))
      BY <1>10, <2>2 DEF StageFails
    <3>2. Failed(row[m], kind, FailureStage[worker[w].at]) \in Row
      BY <1>1, <1>10, <2>1, <3>1, FailuresTyped, FailedFacts DEF StageFails
    <3>3. row[m].status # "done"
      BY <2>2, SMT DEF NonTerminal, Stages
    <3>4. QED
      BY <1>1, <2>1, <3>1, <3>2, <3>3, RowWrite
  <2>3. CASE row[m].status \notin NonTerminal
    BY <1>10, <2>1, <2>3, RowsUnchanged DEF StageFails
  <2>4. QED
    BY <2>2, <2>3
<1>11. CASE RegenerationFails(w)
  <2>1. Busy(w) /\ UNCHANGED versions
    BY <1>11, Points DEF RegenerationFails, Busy, data
  <2>2. CASE row[m].status = "done" /\ row[m].regen = "processing"
    BY <1>1, <1>11, <2>1, <2>2, RegenerationFailedFacts, RowWrite DEF RegenerationFails
  <2>3. CASE ~(row[m].status = "done" /\ row[m].regen = "processing")
    BY <1>11, <2>1, <2>3, RowsUnchanged DEF RegenerationFails
  <2>4. QED
    BY <2>2, <2>3
<1>12. QED
  BY <1>2, <1>3, <1>4, <1>5, <1>6, <1>7, <1>8, <1>9, <1>10, <1>11
     DEF WorkerStep, Stage

LEMMA RequestVersionsStep ==
  ASSUME TypeInv, SummarisedOnce, NEW h \in Handlers, RequestStep(h)
  PROVE  SummarisedOnce' /\ KeepsVersions
<1> DEFINE m == handler[h].m
           u == handler[h].update
<1>1. /\ row \in [Meetings -> Row] /\ u \in Update
      /\ versions \in [Meetings -> SUBSET SummaryVersion]
  BY Zenon DEF TypeInv, TypeOK, Handler
<1>2. m \in Meetings /\ row[m] \in Row
  BY <1>1 DEF TypeInv, RequestStep, RetryWrite, LanguageWrite, DeleteFiles, DeleteRow
<1>3. CASE RetryWrite(h)
  BY <1>1, <1>2, <1>3, RetriedFacts, RowWrite, RowsUnchanged DEF RetryWrite, data
<1>4. CASE LanguageWrite(h)
  BY <1>1, <1>2, <1>4, LanguageUpdatedFacts, RowWrite, RowsUnchanged
     DEF LanguageWrite, data
<1>5. CASE DeleteFiles(h)
  BY <1>5, RowsUnchanged DEF DeleteFiles
<1>6. CASE DeleteRow(h)
  <2>1. /\ row'[m].status = "deleted"
        /\ \A k \in Meetings : k # m => row'[k] = row[k]
    BY <1>1, <1>2, <1>6, DeletedRowFacts, SetRowFacts DEF DeleteRow
  <2>2. versions'[m] = {} /\ \A k \in Meetings : k # m => versions'[k] = versions[k]
    BY <1>1, <1>2, <1>6 DEF DeleteRow
  <2>3. QED
    BY <2>1, <2>2 DEF SummarisedOnce, KeepsVersions
<1>7. QED
  BY <1>3, <1>4, <1>5, <1>6 DEF RequestStep

LEMMA MeetingVersionsStep ==
  ASSUME TypeInv, SummarisedOnce, NEW m \in Meetings,
         Upload(m) \/ RegenerateSummary(m) \/ UpdateTitle(m) \/ Age(m)
  PROVE  SummarisedOnce' /\ KeepsVersions
<1>1. row \in [Meetings -> Row] /\ row[m] \in Row
  BY DEF TypeInv, TypeOK
<1>2. CASE Upload(m)
  BY <1>1, <1>2, PendingRowFacts, RowWrite DEF Upload
<1>3. CASE RegenerateSummary(m)
  BY <1>1, <1>3, RegenerationQueuedFacts, RowWrite DEF RegenerateSummary, data
<1>4. CASE UpdateTitle(m)
  BY <1>1, <1>4, TitleUpdatedFacts, RowWrite DEF UpdateTitle, data
<1>5. CASE Age(m)
  <2>1. SetRow(m, [row[m] EXCEPT !.overdue = TRUE])
    BY <1>5, Zenon DEF Age, SetRow
  <2>2. QED
    BY <1>1, <1>5, <2>1, AgedFacts, RowWrite DEF Age, data
<1>6. QED
  BY <1>2, <1>3, <1>4, <1>5

LEMMA VersionsStep ==
  ASSUME TypeInv, SummarisedOnce, [Next \/ LockSessionLost]_vars
  PROVE  SummarisedOnce' /\ KeepsVersions
<1>1. ASSUME NEW w \in Workers, WorkerStep(w) \/ CrashWorker(w) \/ DatabaseError(w)
      PROVE  SummarisedOnce' /\ KeepsVersions
  BY <1>1, WorkerVersionsStep
<1>2. ASSUME NEW h \in Handlers, RequestStep(h)
      PROVE  SummarisedOnce' /\ KeepsVersions
  BY <1>2, RequestVersionsStep
<1>3. ASSUME NEW m \in Meetings,
             Upload(m) \/ RegenerateSummary(m) \/ UpdateTitle(m) \/ Age(m)
      PROVE  SummarisedOnce' /\ KeepsVersions
  BY <1>3, MeetingVersionsStep
<1>4. ASSUME NEW h \in Handlers, NEW m \in Meetings,
             RetryRead(h, m) \/ LanguageRead(h, m) \/ DeleteFind(h, m)
      PROVE  UNCHANGED <<row, versions>>
  BY <1>4 DEF RetryRead, LanguageRead, DeleteFind, data
<1>5. ASSUME NEW h \in Handlers, RequestDies(h)
      PROVE  UNCHANGED <<row, versions>>
  BY <1>5 DEF RequestDies, data
<1>6. CASE LockSessionLost \/ UNCHANGED vars
  BY <1>6, RowsUnchanged DEF LockSessionLost, vars, data
<1>7. QED
  BY <1>1, <1>2, <1>3, <1>4, <1>5, <1>6, RowsUnchanged DEF Next, Request, Fault

\* Summary versions are append-only until the meeting is deleted, for any number of
\* workers at once and of requests in flight: neither a second summarization nor a
\* revision ever replaces a version.
THEOREM VersionsKept == LockLossSpec => VersionsAreKept
<1>1. Init => TypeInv
  BY TypeInit
<1>2. TypeInv /\ [Next \/ LockSessionLost]_vars => TypeInv'
  BY TypeStep
<1>3. Init => SummarisedOnce
  BY DEF Init, SummarisedOnce
<1>4. TypeInv /\ SummarisedOnce /\ [Next \/ LockSessionLost]_vars
        => SummarisedOnce' /\ KeepsVersions
  BY VersionsStep
<1>5. KeepsVersions =>
        [\A m \in Meetings :
           versions[m] \subseteq versions'[m] \/ row'[m].status = "deleted"]_vars
  BY DEF KeepsVersions
<1>6. QED
  BY <1>1, <1>2, <1>3, <1>4, <1>5, PTL DEF LockLossSpec, VersionsAreKept

-----------------------------------------------------------------------------
(* A claim stays valid.                                                     *)

\* The statuses of the meeting a worker is busy with, by what it does next: unless
\* the meeting is deleted, the row shows where the worker is.
Expected ==
  [markNormalizing     |-> {"normalizing"},
   convert             |-> {"normalizing"},
   cleanup             |-> {"normalizing"},
   markTranscribing    |-> {"normalizing", "transcribing"},
   transcribe          |-> {"transcribing"},
   saveTranscript      |-> {"transcribing"},
   loadForDiarization  |-> {"diarizing"},
   markDiarizing       |-> {"diarizing"},
   diarize             |-> {"diarizing"},
   saveDiarization     |-> {"diarizing"},
   loadForSummary      |-> {"summarizing"},
   markSummarizing     |-> {"summarizing"},
   summarize           |-> {"summarizing"},
   loadForRegeneration |-> {"done"},
   regenerate          |-> {"done"}]

\* Row r is what worker record x takes it to be.
Fits(x, r) ==
  /\ r.status \in Expected[x.at]
  /\ r.lang = x.lang
  /\ r.status = "done" => r.regen = "processing"

ClaimKept ==
  \A w \in Workers :
    Busy(w) => \/ row[worker[w].m].status = "deleted"
               \/ Fits(worker[w], row[worker[w].m])

LEMMA ExpectedFacts ==
  /\ DOMAIN Expected = BusyPoints
  /\ \A point \in DOMAIN Accepts : Expected[point] \subseteq Accepts[point]
  /\ \A point \in DOMAIN AfterLoading :
       Expected[AfterLoading[point]] = Expected[point]
  /\ \A point \in BusyPoints : Expected[point] \subseteq Stages \union {"done"}
<1>1. DOMAIN Expected = BusyPoints
  BY Points, SMT DEF Expected
<1>2. \A point \in DOMAIN Accepts : Expected[point] \subseteq Accepts[point]
  BY Points, SMT DEF Expected, Accepts
<1>3. \A point \in DOMAIN AfterLoading :
        Expected[AfterLoading[point]] = Expected[point]
  BY Points, SMT DEF Expected, AfterLoading
<1>4. \A point \in BusyPoints : Expected[point] \subseteq Stages \union {"done"}
  BY Points, SMT DEF Expected, Stages
<1>5. QED
  BY <1>1, <1>2, <1>3, <1>4

LEMMA ClaimKeptHolds ==
  ASSUME ClaimKept
  PROVE  ClaimStaysValid
<1> SUFFICES ASSUME NEW w \in Workers
             PROVE  LET r == row[worker[w].m] IN
                    /\ worker[w].at \in DOMAIN Accepts =>
                         r.status \in Accepts[worker[w].at] \union {"deleted"}
                    /\ worker[w].at \in RegenerationPoints =>
                         \/ r.status = "deleted"
                         \/ r.status = "done" /\ r.regen = "processing"
                    /\ Busy(w) => r.status = "deleted" \/ r.lang = worker[w].lang
  BY Zenon DEF ClaimStaysValid
<1>1. \/ ~Busy(w)
      \/ row[worker[w].m].status = "deleted"
      \/ Fits(worker[w], row[worker[w].m])
  BY DEF ClaimKept
<1>2. \A point \in RegenerationPoints : Expected[point] = {"done"}
  BY Points, SMT DEF Expected
<1>3. QED
  BY <1>1, <1>2, ExpectedFacts DEF Busy, BusyPoints, Fits

\* A request, or time, changes one row: it leaves the columns a claim depends on,
\* or nobody has claimed the row.
LEMMA ClaimKeptByRow ==
  ASSUME TypeInv, ClaimKept, UNCHANGED worker,
         NEW m \in Meetings, NEW r \in Row, SetRow(m, r),
         \/ /\ r.status = row[m].status /\ r.lang = row[m].lang
            /\ r.regen = row[m].regen
         \/ r.status = "deleted"
         \/ row[m].status \in {"pending", "error", "absent"}
         \/ row[m].status = "done" /\ row[m].regen # "processing"
  PROVE  ClaimKept'
<1>1. /\ row'[m] = r
      /\ \A k \in Meetings : k # m => row'[k] = row[k]
  BY SetRowFacts DEF TypeInv, TypeOK
<1> SUFFICES ASSUME NEW w \in Workers, Busy(w), row'[worker[w].m].status # "deleted"
             PROVE  Fits(worker[w], row'[worker[w].m])
  BY Zenon DEF ClaimKept, Busy
<1>2. worker[w].m \in Meetings
  BY DEF TypeInv
<1>3. CASE worker[w].m # m
  BY <1>1, <1>2, <1>3 DEF ClaimKept
<1>4. CASE worker[w].m = m
  <2>1. row[m].status = "deleted" \/ Fits(worker[w], row[m])
    BY <1>4 DEF ClaimKept
  <2>2. Expected[worker[w].at] \subseteq Stages \union {"done"}
    BY ExpectedFacts DEF Busy
  <2>3. /\ r.status = row[m].status /\ r.lang = row[m].lang
        /\ r.regen = row[m].regen
    BY <1>1, <1>4, <2>1, <2>2, SMT DEF Fits, Stages
  <2>4. QED
    BY <1>1, <1>4, <2>1, <2>3 DEF Fits
<1>5. QED
  BY <1>3, <1>4

LEMMA RestUnchanged ==
  ASSUME ClaimKept, UNCHANGED <<row, worker>>
  PROVE  ClaimKept'
  BY DEF ClaimKept, Busy

\* The process that holds the lock is the only one that can be busy.
LEMMA ClaimKeptByWorker ==
  ASSUME LockHeld, NEW w \in Workers, worker[w].at # "off",
         \A v \in Workers : v # w => worker'[v] = worker[v],
         /\ worker'[w].at \in BusyPoints
         /\ row'[worker'[w].m].status # "deleted"
         => Fits(worker'[w], row'[worker'[w].m])
  PROVE  ClaimKept'
<1>1. "off" \notin BusyPoints
  BY Points, SMT
<1>2. ASSUME NEW v \in Workers, v # w
      PROVE  worker'[v].at \notin BusyPoints
  BY <1>1, <1>2 DEF LockHeld
<1>3. QED
  BY <1>2 DEF ClaimKept, Busy

LEMMA ClaimKeptByIdle ==
  ASSUME TypeInv, LockHeld, NEW w \in Workers, worker[w].at # "off", BecomeIdle(w)
  PROVE  ClaimKept'
<1>1. "idle" \notin BusyPoints
  BY Points, SMT
<1>2. /\ worker'[w].at = "idle"
      /\ \A v \in Workers : v # w => worker'[v] = worker[v]
  BY BecomeIdleFacts DEF TypeInv, TypeOK
<1>3. QED
  BY <1>1, <1>2, ClaimKeptByWorker

\* The worker moves on and leaves the row alone.
LEMMA ClaimKeptByMove ==
  ASSUME TypeInv, LockHeld, ClaimKept, UNCHANGED row,
         NEW w \in Workers, Busy(w),
         \A v \in Workers : v # w => worker'[v] = worker[v],
         worker'[w].m = worker[w].m, worker'[w].lang = worker[w].lang,
         Expected[worker[w].at] \subseteq Expected[worker'[w].at]
  PROVE  ClaimKept'
<1>1. worker[w].at # "off"
  BY Points, SMT DEF Busy
<1>2. row[worker[w].m].status = "deleted" \/ Fits(worker[w], row[worker[w].m])
  BY DEF ClaimKept
<1>3. QED
  BY <1>1, <1>2, ClaimKeptByWorker DEF Fits

\* The worker writes the status it moves on with.
LEMMA ClaimKeptByWrite ==
  ASSUME TypeInv, LockHeld, ClaimKept,
         NEW w \in Workers, Busy(w), row[worker[w].m].status # "deleted",
         NEW point \in BusyPoints, Goto(w, point),
         NEW r \in Row, SetRow(worker[w].m, r), r.lang = row[worker[w].m].lang,
         r.status \in Expected[point], r.status # "done"
  PROVE  ClaimKept'
<1>1. /\ worker[w].m \in Meetings /\ worker[w].at # "off"
      /\ row \in [Meetings -> Row] /\ worker \in [Workers -> Worker]
  BY Points, SMT DEF TypeInv, TypeOK, Busy
<1>2. row'[worker[w].m] = r
  BY <1>1, SetRowFacts
<1>3. /\ worker'[w].at = point /\ worker'[w].m = worker[w].m
      /\ worker'[w].lang = worker[w].lang
      /\ \A v \in Workers : v # w => worker'[v] = worker[v]
  BY <1>1, GotoFacts
<1>4. r.lang = worker[w].lang
  BY DEF ClaimKept, Fits
<1>5. QED
  BY <1>1, <1>2, <1>3, <1>4, ClaimKeptByWorker DEF Fits

\* What the claim returns to the worker and what it writes to the row agree.
LEMMA ClaimAgrees ==
  ASSUME NEW r \in Row, PipelineClaimable(r) \/ RegenerationClaimable(r)
  PROVE  /\ Claimed(r) \in Row /\ Claimed(r).lang = r.lang
         /\ Claimed(r).status \in Expected[EntryPoint(ClaimedStatus(r))]
         /\ Claimed(r).status = "done" => Claimed(r).regen = "processing"
<1>1. r.resume \in Stages \union {"none"}
  BY Zenon DEF Row
<1>2. CASE r.status = "pending"
  <2>1. /\ Claimed(r) \in Row /\ Claimed(r).lang = r.lang
        /\ Claimed(r).status = IF r.resume = "none" THEN "normalizing" ELSE r.resume
    BY <1>2, ClaimedPendingFacts
  <2>2. QED
    BY <1>1, <1>2, <2>1, SMT DEF ClaimedStatus, EntryPoint, Expected, Stages
<1>3. CASE r.status = "done"
  <2>1. /\ Claimed(r) \in Row /\ Claimed(r).lang = r.lang
        /\ Claimed(r).status = "done" /\ Claimed(r).regen = "processing"
    BY <1>3, ClaimedDoneFacts
  <2>2. QED
    BY <1>3, <2>1, SMT DEF ClaimedStatus, EntryPoint, Expected
<1>4. CASE r.status \in Stages
  <2>1. /\ Claimed(r) \in Row /\ Claimed(r).lang = r.lang
        /\ Claimed(r).status = r.status
    BY <1>4, ClaimedStageFacts
  <2>2. QED
    BY <1>4, <2>1, SMT DEF ClaimedStatus, EntryPoint, Expected, Stages
<1>5. QED
  BY <1>2, <1>3, <1>4 DEF PipelineClaimable, RegenerationClaimable

LEMMA WorkerClaimStep ==
  ASSUME TypeInv, LockHeld, ClaimKept, NEW w \in Workers,
         Claim(w) \/ Stage(w) \/ ReportProgress(w) \/ DatabaseError(w)
  PROVE  ClaimKept'
<1> DEFINE m == worker[w].m
<1>1. /\ row \in [Meetings -> Row] /\ worker \in [Workers -> Worker]
      /\ worker[w] \in Worker
      /\ transcript \in [Meetings -> Transcript]
      /\ Busy(w) => m \in Meetings /\ row[m] \in Row
  BY DEF TypeInv, TypeOK
<1>2. /\ worker[w].at # "off"
      /\ \A v \in Workers : v # w => worker'[v] = worker[v]
  BY RunningStep
<1>3. CASE \/ Summarize(w) \/ Regenerate(w) \/ StageFails(w) \/ RegenerationFails(w)
           \/ WriteRefused(w) \/ DatabaseError(w)
  BY <1>2, <1>3, ClaimKeptByIdle
     DEF Summarize, Regenerate, StageFails, RegenerationFails, WriteRefused,
         DatabaseError
<1>4. CASE Claim(w)
  <2>1. PICK k \in Meetings :
          /\ row[k] \in Row
          /\ PipelineClaimable(row[k]) \/ RegenerationClaimable(row[k])
          /\ SetRow(k, Claimed(row[k]))
          /\ worker'[w].at = EntryPoint(ClaimedStatus(row[k]))
          /\ worker'[w].m = k /\ worker'[w].lang = row[k].lang
    BY ClaimFacts, <1>4, Zenon
  <2>2. row'[k] = Claimed(row[k])
    BY <1>1, <2>1, ClaimAgrees, SetRowFacts
  <2>3. Fits(worker'[w], row'[worker'[w].m])
    BY <2>1, <2>2, ClaimAgrees DEF Fits
  <2>4. QED
    BY <1>2, <2>3, ClaimKeptByWorker
<1>5. CASE Convert(w)
  <2>1. Busy(w) /\ Expected[worker[w].at] = {"normalizing"}
    BY <1>5, Points, SMT DEF Convert, Busy, Expected
  <2>2. PICK point \in {"cleanup", "markTranscribing"} : Goto(w, point)
    BY <1>5 DEF Convert
  <2>3. worker'[w].at = point /\ worker'[w].m = m /\ worker'[w].lang = worker[w].lang
    BY <1>1, <2>2, Points, GotoFacts
  <2>4. Expected[worker[w].at] \subseteq Expected[worker'[w].at]
    BY <2>1, <2>3, SMT DEF Expected
  <2>5. QED
    BY <1>2, <1>5, <2>1, <2>3, <2>4, ClaimKeptByMove DEF Convert
<1>6. CASE Cleanup(w)
  <2>1. Busy(w) /\ Expected[worker[w].at] = {"normalizing"}
    BY <1>6, Points, SMT DEF Cleanup, Busy, Expected
  <2>2. /\ worker'[w].at = "markTranscribing" /\ worker'[w].m = m
        /\ worker'[w].lang = worker[w].lang
    BY <1>1, <1>6, Points, GotoFacts DEF Cleanup
  <2>3. Expected[worker[w].at] \subseteq Expected[worker'[w].at]
    BY <2>1, <2>2, SMT DEF Expected
  <2>4. QED
    BY <1>2, <1>6, <2>1, <2>2, <2>3, ClaimKeptByMove DEF Cleanup
<1>7. CASE Transcribe(w)
  <2>1. Busy(w) /\ Expected[worker[w].at] = {"transcribing"}
    BY <1>7, Points, SMT DEF Transcribe, Busy, Expected
  <2>2. /\ worker'[w].at = "saveTranscript" /\ worker'[w].m = m
        /\ worker'[w].lang = worker[w].lang
    BY <1>1, <1>7, DetectingWorkerFacts DEF Transcribe
  <2>3. Expected[worker[w].at] \subseteq Expected[worker'[w].at]
    BY <2>1, <2>2, SMT DEF Expected
  <2>4. QED
    BY <1>2, <1>7, <2>1, <2>2, <2>3, ClaimKeptByMove DEF Transcribe
<1>8. CASE LoadSegments(w)
  <2>1. Busy(w) /\ m \in Meetings /\ transcript[m] \in Transcript
    BY <1>1, <1>8, Points DEF LoadSegments, Busy
  <2>2. AfterLoading[worker[w].at] \in BusyPoints
    BY <1>8, AfterLoadingBusy DEF LoadSegments
  <2>3. /\ worker'[w].at = AfterLoading[worker[w].at] /\ worker'[w].m = m
        /\ worker'[w].lang = worker[w].lang
    BY <1>1, <1>8, <2>1, <2>2, LoadingWorkerFacts DEF LoadSegments
  <2>4. Expected[worker[w].at] \subseteq Expected[worker'[w].at]
    BY <1>8, <2>3, ExpectedFacts DEF LoadSegments
  <2>5. QED
    BY <1>2, <1>8, <2>1, <2>3, <2>4, ClaimKeptByMove DEF LoadSegments
<1>9. CASE Diarize(w)
  <2>1. Busy(w) /\ Expected[worker[w].at] = {"diarizing"}
    BY <1>9, Points, SMT DEF Diarize, Busy, Expected
  <2>2. [worker[w].segments EXCEPT !.diarized = TRUE] \in Transcript
    BY <1>1, DiarizedFacts, Zenon DEF Worker
  <2>3. /\ worker'[w].at = "saveDiarization" /\ worker'[w].m = m
        /\ worker'[w].lang = worker[w].lang
    BY <1>1, <1>9, <2>2, Points, LoadingWorkerFacts, ZenonT(30) DEF Diarize
  <2>4. Expected[worker[w].at] \subseteq Expected[worker'[w].at]
    BY <2>1, <2>3, SMT DEF Expected
  <2>5. QED
    BY <1>2, <1>9, <2>1, <2>3, <2>4, ClaimKeptByMove DEF Diarize
<1>10. CASE ReportProgress(w)
  <2>1. Busy(w) /\ row[m].status = "transcribing"
    BY <1>10, Points DEF ReportProgress, Busy
  <2>2. PICK p \in ProgressMarks : SetRow(m, TranscriptionProgressed(row[m], p))
    BY <1>10 DEF ReportProgress
  <2>3. p \in -1 .. 100
    BY PipelineAssumption, SMT
  <2>4. QED
    BY <1>1, <1>10, <2>1, <2>2, <2>3, TranscriptionProgressedFacts, ClaimKeptByRow
       DEF ReportProgress
<1>11. CASE MarkNormalizing(w)
  <2>1. Busy(w) /\ row[m].status # "deleted" /\ "normalizing" \in Expected["convert"]
    BY <1>11, Points, SMT DEF MarkNormalizing, Writes, Busy, Accepts, Expected
  <2>2. QED
    BY <1>1, <1>11, <2>1, Points, NormalizationStartedFacts, ClaimKeptByWrite
       DEF MarkNormalizing
<1>12. CASE MarkTranscribing(w)
  <2>1. /\ Busy(w) /\ row[m].status # "deleted"
        /\ "transcribing" \in Expected["transcribe"]
    BY <1>12, Points, SMT DEF MarkTranscribing, Writes, Busy, Accepts, Expected
  <2>2. QED
    BY <1>1, <1>12, <2>1, Points, TranscriptionStartedFacts, ClaimKeptByWrite,
       SMTT(30) DEF MarkTranscribing
<1>13. CASE SaveTranscript(w)
  <2>1. /\ Busy(w) /\ row[m].status # "deleted"
        /\ "diarizing" \in Expected["loadForDiarization"]
    BY <1>13, Points, SMT DEF SaveTranscript, Writes, Busy, Accepts, Expected
  <2>2. PICK d \in Detectable \union {"none"} :
          SetRow(m, TranscriptionSucceeded(row[m], d))
    BY <1>1, <1>13, ColumnValues, Zenon DEF SaveTranscript, Worker
  <2>3. QED
    BY <1>1, <1>13, <2>1, <2>2, Points, TranscriptionSucceededFacts, ClaimKeptByWrite,
       SMTT(30) DEF SaveTranscript
<1>14. CASE MarkDiarizing(w)
  <2>1. /\ Busy(w) /\ row[m].status # "deleted"
        /\ "diarizing" \in Expected["diarize"]
    BY <1>14, Points, SMT DEF MarkDiarizing, Writes, Busy, Accepts, Expected
  <2>2. QED
    BY <1>1, <1>14, <2>1, Points, DiarizationStartedFacts, ClaimKeptByWrite
       DEF MarkDiarizing
<1>15. CASE SaveDiarization(w)
  <2>1. /\ Busy(w) /\ row[m].status # "deleted"
        /\ "summarizing" \in Expected["markSummarizing"]
    BY <1>15, Points, SMT DEF SaveDiarization, Writes, Busy, Accepts, Expected
  <2>2. QED
    BY <1>1, <1>15, <2>1, Points, DiarizationSucceededFacts, ClaimKeptByWrite
       DEF SaveDiarization
<1>16. CASE MarkSummarizing(w)
  <2>1. /\ Busy(w) /\ row[m].status # "deleted"
        /\ "summarizing" \in Expected["summarize"]
    BY <1>16, Points, SMT DEF MarkSummarizing, Writes, Busy, Accepts, Expected
  <2>2. QED
    BY <1>1, <1>16, <2>1, Points, SummarizationStartedFacts, ClaimKeptByWrite
       DEF MarkSummarizing
<1>17. QED
  BY <1>3, <1>4, <1>5, <1>6, <1>7, <1>8, <1>9, <1>10, <1>11, <1>12, <1>13, <1>14,
     <1>15, <1>16 DEF Stage

LEMMA RequestClaimStep ==
  ASSUME TypeInv, ClaimKept, NEW h \in Handlers, RequestStep(h)
  PROVE  ClaimKept'
<1> DEFINE m == handler[h].m
           u == handler[h].update
<1>1. row \in [Meetings -> Row] /\ u \in Update
  BY Zenon DEF TypeInv, TypeOK, Handler
<1>2. m \in Meetings /\ row[m] \in Row
  BY <1>1 DEF TypeInv, RequestStep, RetryWrite, LanguageWrite, DeleteFiles, DeleteRow
<1>3. CASE RetryWrite(h)
  BY <1>1, <1>2, <1>3, RetriedFacts, ClaimKeptByRow, RestUnchanged DEF RetryWrite
<1>4. CASE LanguageWrite(h)
  BY <1>1, <1>2, <1>4, LanguageUpdatedFacts, ClaimKeptByRow, RestUnchanged
     DEF LanguageWrite
<1>5. CASE DeleteFiles(h)
  BY <1>5, RestUnchanged DEF DeleteFiles
<1>6. CASE DeleteRow(h)
  BY <1>1, <1>2, <1>6, DeletedRowFacts, ClaimKeptByRow DEF DeleteRow
<1>7. QED
  BY <1>3, <1>4, <1>5, <1>6 DEF RequestStep

LEMMA MeetingClaimStep ==
  ASSUME TypeInv, ClaimKept, NEW m \in Meetings,
         Upload(m) \/ RegenerateSummary(m) \/ UpdateTitle(m) \/ Age(m)
  PROVE  ClaimKept'
<1>1. row \in [Meetings -> Row] /\ row[m] \in Row
  BY DEF TypeInv, TypeOK
<1>2. CASE Upload(m)
  BY <1>1, <1>2, PendingRowFacts, ClaimKeptByRow DEF Upload
<1>3. CASE RegenerateSummary(m)
  BY <1>1, <1>3, RegenerationQueuedFacts, ClaimKeptByRow
     DEF RegenerateSummary, CanQueueRegeneration
<1>4. CASE UpdateTitle(m)
  BY <1>1, <1>4, TitleUpdatedFacts, ClaimKeptByRow DEF UpdateTitle
<1>5. CASE Age(m)
  <2>1. SetRow(m, [row[m] EXCEPT !.overdue = TRUE])
    BY <1>5, Zenon DEF Age, SetRow
  <2>2. QED
    BY <1>1, <1>5, <2>1, AgedFacts, ClaimKeptByRow DEF Age
<1>6. QED
  BY <1>2, <1>3, <1>4, <1>5

LEMMA ClaimKeptStep ==
  ASSUME TypeInv, LockHeld, ClaimKept, [Next]_vars
  PROVE  ClaimKept'
<1>1. ASSUME NEW w \in Workers,
             Claim(w) \/ Stage(w) \/ ReportProgress(w) \/ DatabaseError(w)
      PROVE  ClaimKept'
  BY <1>1, WorkerClaimStep
<1>2. ASSUME NEW w \in Workers, StartWorker(w) \/ CrashWorker(w)
      PROVE  ClaimKept'
  <2>1. worker'[w] \in {Off, Idle} /\ \A v \in Workers : v # w => worker'[v] = worker[v]
    BY <1>2, Zenon DEF StartWorker, CrashWorker, BecomeIdle, TypeInv, TypeOK
  <2>2. worker'[w].at \notin BusyPoints
    BY <2>1, IdleTyped, Points, SMT
  <2>3. QED
    BY <1>2, <2>1, <2>2 DEF ClaimKept, Busy, StartWorker, CrashWorker
<1>3. ASSUME NEW h \in Handlers, RequestStep(h)
      PROVE  ClaimKept'
  BY <1>3, RequestClaimStep
<1>4. ASSUME NEW m \in Meetings,
             Upload(m) \/ RegenerateSummary(m) \/ UpdateTitle(m) \/ Age(m)
      PROVE  ClaimKept'
  BY <1>4, MeetingClaimStep
<1>5. ASSUME NEW h \in Handlers, NEW m \in Meetings,
             RetryRead(h, m) \/ LanguageRead(h, m) \/ DeleteFind(h, m)
      PROVE  UNCHANGED <<row, worker>>
  BY <1>5 DEF RetryRead, LanguageRead, DeleteFind
<1>6. ASSUME NEW h \in Handlers, RequestDies(h)
      PROVE  UNCHANGED <<row, worker>>
  BY <1>6 DEF RequestDies
<1>7. CASE UNCHANGED vars
  BY <1>7, RestUnchanged DEF vars
<1>8. QED
  BY <1>1, <1>2, <1>3, <1>4, <1>5, <1>6, <1>7, RestUnchanged
     DEF Next, WorkerStep, Request, Fault

\* What a worker claimed stays true although it never reads the row again, for any
\* number of meetings, processes and requests in flight.  The guards of the web
\* app's writes (error, pending, done and not processing) and the lock are both
\* needed: the inductive invariant says that the row of a busy worker is at a
\* status that no request but a deletion changes.
THEOREM ClaimValid == Spec => []ClaimStaysValid
<1>1. Init => TypeInv
  BY TypeInit
<1>2. TypeInv /\ [Next]_vars => TypeInv'
  BY TypeStep
<1>3. Init => LockHeld
  BY IdleTyped DEF Init, LockHeld
<1>4. TypeInv /\ LockHeld /\ [Next]_vars => LockHeld'
  BY LockHeldStep
<1>5. Init => ClaimKept
  BY IdleTyped, Points, SMT DEF Init, ClaimKept, Busy
<1>6. TypeInv /\ LockHeld /\ ClaimKept /\ [Next]_vars => ClaimKept'
  BY ClaimKeptStep
<1>7. ClaimKept => ClaimStaysValid
  BY ClaimKeptHolds
<1>8. QED
  BY <1>1, <1>2, <1>3, <1>4, <1>5, <1>6, <1>7, PTL DEF Spec
-----------------------------------------------------------------------------
(* The recording, whatever overlaps.                                        *)

LaterStages == {"transcribing", "diarizing", "summarizing"}

\* However updates of one meeting overtake each other: until its deletion begins, a
\* meeting has its upload or normalized.wav, and normalized.wav if it is done or is
\* going to be entered after normalization.
RecordingSurvives ==
  \A m \in Meetings :
    Present(row[m]) /\ ~DeletionBegun(m) =>
      /\ files[m] \intersect {"original", "normalized"} # {}
      /\ NextStage(row[m]) \in LaterStages \union {"done"} => "normalized" \in files[m]

HasAudio(m) ==
  "directory" \in files[m] => "original" \in files[m] \/ "normalized" \in files[m]

HasNormalized(m) == "directory" \in files[m] => "normalized" \in files[m]

\* A column that says that the meeting was normalized.
PastNormalization(r) ==
  \/ r.resume \in LaterStages
  \/ r.status \in LaterStages \union {"done"}
  \/ r.failedAt \in LaterStages

Normalizing == {"markNormalizing", "convert", "cleanup"}

WorkerHasAudio(w) ==
  Busy(w) => /\ row[worker[w].m].status # "absent"
             /\ worker[w].at \notin Normalizing => HasNormalized(worker[w].m)

RequestHasAudio(h) ==
  handler[h].op # "none" =>
    /\ row[handler[h].m].status # "absent"
    /\ handler[h].update.resume \in LaterStages => HasNormalized(handler[h].m)

\* Whoever says that a meeting was normalized is right: its row, a worker by where it
\* is, a request by the update it computed, however long ago.
RecordingInv ==
  /\ \A m \in Meetings :
       /\ HasAudio(m)
       /\ PastNormalization(row[m]) => HasNormalized(m)
  /\ \A w \in Workers : WorkerHasAudio(w)
  /\ \A h \in Handlers : RequestHasAudio(h)

\* normalized.wav goes only with the directory, and no meeting is uploaded twice.
AudioStays ==
  \A m \in Meetings :
    /\ HasAudio(m) => HasAudio(m)'
    /\ HasNormalized(m) => HasNormalized(m)'
    /\ row[m].status # "absent" => row'[m].status # "absent"

LEMMA RecordingByParts ==
  ASSUME TypeInv, RecordingInv, AudioStays,
         \A m \in Meetings :
           PastNormalization(row'[m]) => PastNormalization(row[m]) \/ HasNormalized(m)',
         \A w \in Workers : worker'[w] = worker[w] \/ WorkerHasAudio(w)',
         \A h \in Handlers : handler'[h] = handler[h] \/ RequestHasAudio(h)'
  PROVE  RecordingInv'
<1>1. ASSUME NEW m \in Meetings
      PROVE  HasAudio(m)' /\ (PastNormalization(row'[m]) => HasNormalized(m)')
  BY Zenon DEF RecordingInv, AudioStays
<1>2. ASSUME NEW w \in Workers, worker'[w] = worker[w]
      PROVE  WorkerHasAudio(w)'
  <2> SUFFICES ASSUME worker'[w].at \in BusyPoints
               PROVE  /\ row'[worker'[w].m].status # "absent"
                      /\ worker'[w].at \notin Normalizing => HasNormalized(worker[w].m)'
    BY <1>2, Zenon DEF WorkerHasAudio, HasNormalized, Busy
  <2>1. worker[w].m \in Meetings
    BY <1>2 DEF TypeInv, Busy
  <2>2. /\ row[worker[w].m].status # "absent"
        /\ worker[w].at \notin Normalizing => HasNormalized(worker[w].m)
    BY <1>2, Zenon DEF RecordingInv, WorkerHasAudio, Busy
  <2>3. QED
    BY <1>2, <2>1, <2>2, Zenon DEF AudioStays
<1>3. ASSUME NEW h \in Handlers, handler'[h] = handler[h]
      PROVE  RequestHasAudio(h)'
  <2> SUFFICES ASSUME handler'[h].op # "none"
               PROVE  /\ row'[handler'[h].m].status # "absent"
                      /\ handler'[h].update.resume \in LaterStages
                           => HasNormalized(handler[h].m)'
    BY <1>3, Zenon DEF RequestHasAudio, HasNormalized
  <2>1. handler[h].m \in Meetings
    BY <1>3 DEF TypeInv
  <2>2. /\ row[handler[h].m].status # "absent"
        /\ handler[h].update.resume \in LaterStages => HasNormalized(handler[h].m)
    BY <1>3, Zenon DEF RecordingInv, RequestHasAudio
  <2>3. QED
    BY <1>3, <2>1, <2>2, Zenon DEF AudioStays
<1>4. QED
  BY <1>1, <1>2, <1>3, Zenon DEF RecordingInv

\* A statement that writes one row and leaves the files alone.
LEMMA RecordingByRow ==
  ASSUME TypeInv, RecordingInv, UNCHANGED files,
         NEW m \in Meetings, NEW r \in Row,
         row'[m] = r, \A k \in Meetings : k # m => row'[k] = row[k],
         r.status # "absent",
         PastNormalization(r) => PastNormalization(row[m]) \/ HasNormalized(m),
         \A w \in Workers : worker'[w] = worker[w] \/ WorkerHasAudio(w)',
         \A h \in Handlers : handler'[h] = handler[h] \/ RequestHasAudio(h)'
  PROVE  RecordingInv'
<1>1. \A k \in Meetings : /\ HasAudio(k)' = HasAudio(k)
                          /\ HasNormalized(k)' = HasNormalized(k)
  BY Zenon DEF HasAudio, HasNormalized
<1>2. AudioStays
  BY <1>1, Zenon DEF AudioStays
<1>3. \A k \in Meetings :
        PastNormalization(row'[k]) => PastNormalization(row[k]) \/ HasNormalized(k)'
  BY <1>1, Zenon
<1>4. QED
  BY <1>2, <1>3, RecordingByParts

\* A step that leaves rows and files alone.
LEMMA RecordingByMemory ==
  ASSUME TypeInv, RecordingInv, UNCHANGED <<row, files>>,
         \A w \in Workers : worker'[w] = worker[w] \/ WorkerHasAudio(w)',
         \A h \in Handlers : handler'[h] = handler[h] \/ RequestHasAudio(h)'
  PROVE  RecordingInv'
<1>1. \A k \in Meetings : /\ HasAudio(k)' = HasAudio(k)
                          /\ HasNormalized(k)' = HasNormalized(k)
  BY Zenon DEF HasAudio, HasNormalized
<1>2. AudioStays
  BY <1>1, Zenon DEF AudioStays
<1>3. QED
  BY <1>2, RecordingByParts, Zenon

\* A worker's write: it goes on with the same meeting, or rests.
LEMMA RecordingByWorker ==
  ASSUME TypeInv, RecordingInv, UNCHANGED <<files, handler>>,
         NEW w \in Workers, Busy(w),
         NEW r \in Row,
         row'[worker[w].m] = r,
         \A k \in Meetings : k # worker[w].m => row'[k] = row[k],
         r.status # "absent",
         PastNormalization(r)
           => PastNormalization(row[worker[w].m]) \/ HasNormalized(worker[w].m),
         \A v \in Workers : v # w => worker'[v] = worker[v],
         worker'[w].at \in BusyPoints =>
           /\ worker'[w].m = worker[w].m
           /\ worker'[w].at \notin Normalizing => HasNormalized(worker[w].m)
  PROVE  RecordingInv'
<1>1. worker[w].m \in Meetings
  BY DEF TypeInv
<1>2. WorkerHasAudio(w)'
  <2> SUFFICES ASSUME worker'[w].at \in BusyPoints
               PROVE  /\ row'[worker'[w].m].status # "absent"
                      /\ worker'[w].at \notin Normalizing => HasNormalized(worker[w].m)'
    BY Zenon DEF WorkerHasAudio, HasNormalized, Busy
  <2>1. worker'[w].m = worker[w].m
    OBVIOUS
  <2>2. HasNormalized(worker[w].m)' <=> HasNormalized(worker[w].m)
    BY <2>1, Zenon DEF HasNormalized
  <2>3. QED
    BY <2>1, <2>2, Zenon
<1>3. \A v \in Workers : worker'[v] = worker[v] \/ WorkerHasAudio(v)'
  BY <1>2, Zenon
<1>4. QED
  BY <1>1, <1>3, RecordingByRow, Zenon

\* The claim: its row loses nothing, and the worker starts past normalization only
\* if the row said so.
LEMMA ClaimRecordingStep ==
  ASSUME TypeInv, RecordingInv, NEW w \in Workers, Claim(w)
  PROVE  RecordingInv'
<1>1. PICK k \in Meetings :
        /\ row[k] \in Row
        /\ PipelineClaimable(row[k]) \/ RegenerationClaimable(row[k])
        /\ SetRow(k, Claimed(row[k]))
        /\ worker'[w].at = EntryPoint(ClaimedStatus(row[k]))
        /\ worker'[w].m = k
        /\ \A v \in Workers : v # w => worker'[v] = worker[v]
  BY ClaimFacts, Zenon
<1> DEFINE r == row[k]
<1>2. r.resume \in Stages \union {"none"} /\ row \in [Meetings -> Row]
  BY <1>1, Zenon DEF Row, TypeInv, TypeOK
<1>3. /\ Claimed(r) \in Row /\ Claimed(r).status # "absent"
      /\ PastNormalization(Claimed(r)) => PastNormalization(r)
      /\ r.status # "absent"
      /\ EntryPoint(ClaimedStatus(r)) \notin Normalizing => PastNormalization(r)
  <2>1. CASE r.status = "pending"
    <3>1. /\ Claimed(r) \in Row
          /\ Claimed(r).status = IF r.resume = "none" THEN "normalizing" ELSE r.resume
          /\ Claimed(r).resume = "none" /\ Claimed(r).failedAt = "none"
      BY <1>1, <2>1, ClaimedPendingFacts
    <3>2. QED
      BY <1>2, <2>1, <3>1, SMT
         DEF PastNormalization, LaterStages, Stages, EntryPoint, ClaimedStatus, Normalizing
  <2>2. CASE r.status = "done"
    <3>1. /\ Claimed(r) \in Row /\ Claimed(r).status = "done"
      BY <1>1, <2>2, ClaimedDoneFacts
    <3>2. QED
      BY <2>2, <3>1, SMT DEF PastNormalization
  <2>3. CASE r.status \in Stages
    <3>1. /\ Claimed(r) \in Row /\ Claimed(r).status = r.status
          /\ Claimed(r).resume = "none" /\ Claimed(r).failedAt = r.failedAt
      BY <1>1, <2>3, ClaimedStageFacts
    <3>2. QED
      BY <2>3, <3>1, SMT
         DEF PastNormalization, LaterStages, Stages, EntryPoint, ClaimedStatus, Normalizing
  <2>4. QED
    BY <1>1, <2>1, <2>2, <2>3 DEF PipelineClaimable, RegenerationClaimable
<1>4. /\ row'[k] = Claimed(r)
      /\ \A m \in Meetings : m # k => row'[m] = row[m]
  BY <1>1, <1>2, <1>3, SetRowFacts
<1>5. UNCHANGED <<files, handler>>
  BY DEF Claim, data
<1>6. PastNormalization(r) => HasNormalized(k)
  BY DEF RecordingInv
<1>7. WorkerHasAudio(w)'
  <2>1. HasNormalized(worker[w].m)' <=> HasNormalized(k)
    BY <1>1, <1>5, Zenon DEF HasNormalized
  <2>2. QED
    BY <1>1, <1>3, <1>4, <1>6, <2>1, Zenon DEF WorkerHasAudio
<1>8. QED
  BY <1>1, <1>3, <1>4, <1>5, <1>7, RecordingByRow, Zenon

\* The normalizer's two steps, the only ones of a worker that touch the files.
LEMMA NormalizerRecordingStep ==
  ASSUME TypeInv, RecordingInv, NEW w \in Workers, Convert(w) \/ Cleanup(w)
  PROVE  RecordingInv'
<1> DEFINE m == worker[w].m
<1>1. /\ Busy(w) /\ m \in Meetings
      /\ worker \in [Workers -> Worker]
      /\ files \in [Meetings -> SUBSET {"directory", "original", "normalized"}]
  BY Points, SMT DEF Convert, Cleanup, Busy, TypeInv, TypeOK
<1>2. UNCHANGED <<row, handler>>
  BY DEF Convert, Cleanup
<1>3. PICK point \in {"cleanup", "markTranscribing"} : Goto(w, point)
  BY DEF Convert, Cleanup
<1>4. /\ worker'[w].at = point /\ worker'[w].m = m
      /\ \A v \in Workers : v # w => worker'[v] = worker[v]
  BY <1>1, <1>3, Points, GotoFacts
<1>5. /\ \A k \in Meetings : k # m => files'[k] = files[k]
      /\ "normalized" \in files'[m]
  BY <1>1, Zenon DEF Convert, Cleanup
<1>6. AudioStays
  <2> SUFFICES ASSUME NEW k \in Meetings
               PROVE  /\ HasAudio(k) => HasAudio(k)'
                      /\ HasNormalized(k) => HasNormalized(k)'
    BY <1>2, Zenon DEF AudioStays
  <2>1. CASE k = m
    BY <1>5, <2>1, Zenon DEF HasAudio, HasNormalized
  <2>2. CASE k # m
    BY <1>5, <2>2, Zenon DEF HasAudio, HasNormalized
  <2>3. QED
    BY <2>1, <2>2
<1>7. WorkerHasAudio(w)'
  <2>1. HasNormalized(worker[w].m)'
    BY <1>4, <1>5, Zenon DEF HasNormalized
  <2>2. row[m].status # "absent"
    BY <1>1, Zenon DEF RecordingInv, WorkerHasAudio
  <2>3. QED
    BY <1>2, <1>4, <2>1, <2>2, Zenon DEF WorkerHasAudio
<1>8. QED
  BY <1>2, <1>4, <1>6, <1>7, RecordingByParts, Zenon

\* A worker's other steps.
LEMMA WorkerRecordingStep ==
  ASSUME TypeInv, RecordingInv, NEW w \in Workers,
         WorkerStep(w) \/ CrashWorker(w) \/ DatabaseError(w)
  PROVE  RecordingInv'
<1> DEFINE m == worker[w].m
<1>1. /\ row \in [Meetings -> Row] /\ worker \in [Workers -> Worker]
      /\ worker[w] \in Worker
      /\ transcript \in [Meetings -> Transcript]
      /\ Busy(w) => /\ m \in Meetings /\ row[m] \in Row /\ row[m].status # "absent"
                    /\ worker[w].at \notin Normalizing => HasNormalized(m)
  <2>1. /\ row \in [Meetings -> Row] /\ worker \in [Workers -> Worker]
        /\ transcript \in [Meetings -> Transcript]
        /\ Busy(w) => m \in Meetings
    BY DEF TypeInv, TypeOK
  <2>2. Busy(w) => /\ row[m].status # "absent"
                   /\ worker[w].at \notin Normalizing => HasNormalized(m)
    BY Zenon DEF RecordingInv, WorkerHasAudio
  <2>3. QED
    BY <2>1, <2>2, Zenon
<1>2. CASE StartWorker(w) \/ CrashWorker(w) \/ DatabaseError(w) \/ WriteRefused(w)
  <2>1. worker'[w] \in {Off, Idle} /\ \A v \in Workers : v # w => worker'[v] = worker[v]
    BY <1>1, <1>2, Zenon
       DEF StartWorker, CrashWorker, DatabaseError, WriteRefused, BecomeIdle
  <2>2. ~Busy(w)'
    BY <2>1, IdleTyped, Points, SMT DEF Busy
  <2>3. \A v \in Workers : worker'[v] = worker[v] \/ WorkerHasAudio(v)'
    BY <2>1, <2>2, Zenon DEF WorkerHasAudio
  <2>4. UNCHANGED <<row, files, handler>>
    BY <1>2 DEF StartWorker, CrashWorker, DatabaseError, WriteRefused, data
  <2>5. QED
    BY <2>3, <2>4, RecordingByMemory, Zenon
<1>3. CASE Claim(w)
  BY <1>3, ClaimRecordingStep
<1>4. CASE Convert(w) \/ Cleanup(w)
  BY <1>4, NormalizerRecordingStep
<1>5. CASE Transcribe(w) \/ LoadSegments(w) \/ Diarize(w)
  <2>1. /\ Busy(w) /\ worker[w].at \notin Normalizing
        /\ UNCHANGED <<row, files, handler>>
    <3>1. CASE Transcribe(w)
      BY <3>1, Points DEF Transcribe, Busy, Normalizing, data
    <3>2. CASE LoadSegments(w)
      <4>1. /\ worker[w].at \in DOMAIN AfterLoading
            /\ UNCHANGED <<row, files, handler>>
        BY <3>2, Zenon DEF LoadSegments, data
      <4>2. QED
        BY <4>1, Points DEF Busy, Normalizing
    <3>3. CASE Diarize(w)
      <4>1. worker[w].at = "diarize" /\ UNCHANGED <<row, files, handler>>
        BY <3>3, Zenon DEF Diarize, data
      <4>2. QED
        BY <4>1, Points DEF Busy, Normalizing
    <3>4. QED
      BY <1>5, <3>1, <3>2, <3>3
  <2>2. worker'[w].m = m /\ \A v \in Workers : v # w => worker'[v] = worker[v]
    <3>1. CASE Transcribe(w)
      <4>1. PICK d \in Detectable \union {"none"} :
              worker' = [worker EXCEPT ![w] = [@ EXCEPT !.at = "saveTranscript",
                                                        !.detected = d]]
        BY <3>1, Zenon DEF Transcribe
      <4>2. QED
        BY <1>1, <4>1, DetectingWorkerFacts, Zenon
    <3>2. CASE LoadSegments(w)
      <4>1. transcript[m] \in Transcript /\ AfterLoading[worker[w].at] \in BusyPoints
        BY <1>1, <2>1, <3>2, AfterLoadingBusy DEF LoadSegments
      <4>2. QED
        BY <1>1, <3>2, <4>1, LoadingWorkerFacts, Zenon DEF LoadSegments
    <3>3. CASE Diarize(w)
      <4>1. [worker[w].segments EXCEPT !.diarized = TRUE] \in Transcript
        BY <1>1, DiarizedFacts, Zenon DEF Worker
      <4>2. QED
        BY <1>1, <3>3, <4>1, Points, LoadingWorkerFacts, ZenonT(30) DEF Diarize
    <3>4. QED
      BY <1>5, <3>1, <3>2, <3>3
  <2>3. WorkerHasAudio(w)'
    <3>1. HasNormalized(worker[w].m)' <=> HasNormalized(m)
      BY <2>1, <2>2, Zenon DEF HasNormalized
    <3>2. QED
      BY <1>1, <2>1, <2>2, <3>1, Zenon DEF WorkerHasAudio
  <2>4. \A v \in Workers : worker'[v] = worker[v] \/ WorkerHasAudio(v)'
    BY <2>2, <2>3, Zenon
  <2>5. QED
    BY <2>1, <2>4, RecordingByMemory, Zenon
<1>6. CASE ReportProgress(w)
  <2>1. Busy(w) /\ UNCHANGED <<files, worker, handler>> /\ worker[w].at \notin Normalizing
    BY <1>6, Points, SMT DEF ReportProgress, Busy, Normalizing, data
  <2>2. PICK p \in ProgressMarks : SetRow(m, TranscriptionProgressed(row[m], p))
    BY <1>6 DEF ReportProgress
  <2>3. p \in -1 .. 100
    BY PipelineAssumption, SMT
  <2> DEFINE r == TranscriptionProgressed(row[m], p)
  <2>4. r \in Row /\ r.status # "absent"
    BY <1>1, <2>1, <2>3, TranscriptionProgressedFacts
  <2>5. row'[m] = r /\ \A k \in Meetings : k # m => row'[k] = row[k]
    BY <1>1, <2>1, <2>2, <2>4, SetRowFacts
  <2> HIDE DEF r
  <2>6. QED
    BY <1>1, <2>1, <2>4, <2>5, RecordingByWorker, Zenon
<1>7. CASE MarkNormalizing(w)
  <2> DEFINE r == NormalizationStarted(row[m])
  <2>1. /\ Busy(w) /\ UNCHANGED <<files, handler>> /\ SetRow(m, r) /\ Goto(w, "convert")
        /\ "convert" \in BusyPoints \intersect Normalizing
    BY <1>7, Points, SMT DEF MarkNormalizing, Writes, Busy, Normalizing, data
  <2>2. r \in Row /\ r.status # "absent" /\ ~PastNormalization(r)
    BY <1>1, <2>1, NormalizationStartedFacts DEF PastNormalization, LaterStages
  <2>3. row'[m] = r /\ \A k \in Meetings : k # m => row'[k] = row[k]
    BY <1>1, <2>1, <2>2, SetRowFacts
  <2>4. /\ worker'[w].at = "convert" /\ worker'[w].m = m
        /\ \A v \in Workers : v # w => worker'[v] = worker[v]
    BY <1>1, <2>1, GotoFacts
  <2> HIDE DEF r
  <2>5. QED
    BY <2>1, <2>2, <2>3, <2>4, RecordingByWorker, Zenon
<1>8. CASE \/ MarkTranscribing(w) \/ SaveTranscript(w) \/ MarkDiarizing(w)
           \/ SaveDiarization(w) \/ MarkSummarizing(w)
  <2>1. /\ Busy(w) /\ UNCHANGED <<files, handler>> /\ worker[w].at \notin Normalizing
    BY <1>8, Points, SMT
       DEF MarkTranscribing, SaveTranscript, MarkDiarizing, SaveDiarization,
           MarkSummarizing, Writes, Busy, Normalizing, data
  <2>2. PICK r \in Row : SetRow(m, r) /\ r.status # "absent"
    <3>1. CASE MarkTranscribing(w)
      BY <1>1, <2>1, <3>1, TranscriptionStartedFacts DEF MarkTranscribing
    <3>2. CASE SaveTranscript(w)
      <4>1. PICK d \in Detectable \union {"none"} :
              SetRow(m, TranscriptionSucceeded(row[m], d))
        BY <1>1, <3>2, ColumnValues, Zenon DEF SaveTranscript, Worker
      <4>2. QED
        BY <1>1, <2>1, <4>1, TranscriptionSucceededFacts
    <3>3. CASE MarkDiarizing(w)
      BY <1>1, <2>1, <3>3, DiarizationStartedFacts DEF MarkDiarizing
    <3>4. CASE SaveDiarization(w)
      BY <1>1, <2>1, <3>4, DiarizationSucceededFacts DEF SaveDiarization
    <3>5. CASE MarkSummarizing(w)
      BY <1>1, <2>1, <3>5, SummarizationStartedFacts DEF MarkSummarizing
    <3>6. QED
      BY <1>8, <3>1, <3>2, <3>3, <3>4, <3>5
  <2>3. PICK point \in BusyPoints : Goto(w, point)
    BY <1>8, Points
       DEF MarkTranscribing, SaveTranscript, MarkDiarizing, SaveDiarization,
           MarkSummarizing
  <2>4. row'[m] = r /\ \A k \in Meetings : k # m => row'[k] = row[k]
    BY <1>1, <2>1, <2>2, SetRowFacts
  <2>5. worker'[w].m = m /\ \A v \in Workers : v # w => worker'[v] = worker[v]
    BY <1>1, <2>3, GotoFacts
  <2>6. HasNormalized(m)
    BY <1>1, <2>1
  <2>7. QED
    BY <2>1, <2>2, <2>4, <2>5, <2>6, RecordingByWorker, Zenon
<1>9. CASE Summarize(w) \/ Regenerate(w) \/ StageFails(w) \/ RegenerationFails(w)
  <2>1. /\ Busy(w) /\ UNCHANGED <<files, handler>> /\ BecomeIdle(w)
    BY <1>9, Points, SMT
       DEF Summarize, Regenerate, StageFails, RegenerationFails, Writes, Busy, data
  <2>2. /\ worker'[w].at \notin BusyPoints
        /\ \A v \in Workers : v # w => worker'[v] = worker[v]
    BY <1>1, <2>1, BecomeIdleFacts, Points, SMT
  <2>3. PICK r \in Row :
          /\ row'[m] = r /\ \A k \in Meetings : k # m => row'[k] = row[k]
          /\ r.status # "absent"
          /\ PastNormalization(r) => PastNormalization(row[m]) \/ HasNormalized(m)
    <3>1. CASE Summarize(w)
      <4>1. worker[w].at \notin Normalizing
        BY <3>1, SMT DEF Summarize, Writes, Normalizing
      <4>2. /\ SummarizationSucceeded(row[m]) \in Row
            /\ SummarizationSucceeded(row[m]).status = "done"
        BY <1>1, <2>1, SummarizationSucceededFacts
      <4>3. QED
        BY <1>1, <2>1, <3>1, <4>1, <4>2, SetRowFacts DEF Summarize
    <3>2. CASE Regenerate(w)
      <4>1. worker[w].at \notin Normalizing
        BY <3>2, SMT DEF Regenerate, Normalizing
      <4>2. /\ RegenerationSucceeded(row[m]) \in Row
            /\ RegenerationSucceeded(row[m]).status = row[m].status
        BY <1>1, <2>1, RegenerationSucceededFacts
      <4>3. QED
        BY <1>1, <2>1, <3>2, <4>1, <4>2, SetRowFacts DEF Regenerate
    <3>3. CASE StageFails(w)
      <4>1. CASE row[m].status \in NonTerminal
        <5> DEFINE stage == FailureStage[worker[w].at]
        <5>1. PICK kind \in FailureKinds[worker[w].at] : SetRow(m, Failed(row[m], kind, stage))
          BY <3>3, <4>1 DEF StageFails
        <5>2. /\ Failed(row[m], kind, stage) \in Row
              /\ Failed(row[m], kind, stage).status = "error"
              /\ Failed(row[m], kind, stage).resume = "none"
              /\ Failed(row[m], kind, stage).failedAt = stage
          BY <1>1, <2>1, <3>3, <5>1, FailuresTyped, FailedFacts DEF StageFails
        <5>3. worker[w].at \in Normalizing => stage = "normalizing"
          BY <3>3, Points, SMT DEF StageFails, Normalizing, FailureStage
        <5> HIDE DEF stage
        <5>4. PastNormalization(Failed(row[m], kind, stage)) => HasNormalized(m)
          BY <1>1, <2>1, <5>2, <5>3 DEF PastNormalization, LaterStages
        <5>5. QED
          BY <1>1, <2>1, <5>1, <5>2, <5>4, SetRowFacts
      <4>2. CASE row[m].status \notin NonTerminal
        BY <1>1, <2>1, <3>3, <4>2 DEF StageFails
      <4>3. QED
        BY <4>1, <4>2
    <3>4. CASE RegenerationFails(w)
      <4>1. worker[w].at \notin Normalizing
        BY <3>4, SMT DEF RegenerationFails, RegenerationPoints, Normalizing
      <4>2. /\ RegenerationFailed(row[m]) \in Row
            /\ RegenerationFailed(row[m]).status = row[m].status
        BY <1>1, <2>1, RegenerationFailedFacts
      <4>3. QED
        BY <1>1, <2>1, <3>4, <4>1, <4>2, SetRowFacts DEF RegenerationFails
    <3>5. QED
      BY <1>9, <3>1, <3>2, <3>3, <3>4
  <2>4. QED
    BY <2>1, <2>2, <2>3, RecordingByWorker, Zenon
<1>10. QED
  BY <1>2, <1>3, <1>4, <1>5, <1>6, <1>7, <1>8, <1>9 DEF WorkerStep, Stage

LEMMA RequestRecordingStep ==
  ASSUME TypeInv, RecordingInv, NEW h \in Handlers, RequestStep(h) \/ RequestDies(h)
  PROVE  RecordingInv'
<1> DEFINE m == handler[h].m
           u == handler[h].update
<1>1. /\ row \in [Meetings -> Row] /\ handler \in [Handlers -> Handler] /\ u \in Update
      /\ files \in [Meetings -> SUBSET {"directory", "original", "normalized"}]
  BY Zenon DEF TypeInv, TypeOK, Handler
<1>2. handler[h].op # "none" /\ UNCHANGED worker
  BY DEF RequestStep, RetryWrite, LanguageWrite, DeleteFiles, DeleteRow, RequestDies
<1>3. /\ m \in Meetings /\ row[m] \in Row /\ row[m].status # "absent"
      /\ u.resume \in LaterStages => HasNormalized(m)
  BY <1>1, <1>2, Zenon DEF TypeInv, RecordingInv, RequestHasAudio
<1>4. ASSUME Finish(h)
      PROVE  \A g \in Handlers : handler'[g] = handler[g] \/ RequestHasAudio(g)'
  BY <1>1, <1>4, FinishFacts, Zenon DEF RequestHasAudio
<1>5. ASSUME Finish(h), UNCHANGED <<row, files>>
      PROVE  RecordingInv'
  BY <1>2, <1>4, <1>5, RecordingByMemory, Zenon
<1>6. CASE RetryWrite(h)
  <2>1. Finish(h) /\ UNCHANGED files
    BY <1>6 DEF RetryWrite, data
  <2>2. CASE row[m].status = "error" /\ SatisfiesCheck(Retried(row[m], u))
    <3> DEFINE r == Retried(row[m], u)
    <3>1. /\ r \in Row /\ r.status = "pending" /\ r.resume = u.resume
          /\ r.failedAt = "none"
      BY <1>1, <1>3, RetriedFacts
    <3>2. SetRow(m, r)
      BY <1>6, <2>2 DEF RetryWrite
    <3> HIDE DEF r
    <3>3. PastNormalization(r) => HasNormalized(m)
      BY <1>3, <3>1 DEF PastNormalization, LaterStages
    <3>4. row'[m] = r /\ \A k \in Meetings : k # m => row'[k] = row[k]
      BY <1>1, <1>3, <3>1, <3>2, SetRowFacts
    <3>5. r.status # "absent"
      BY <3>1
    <3>6. QED
      BY <1>2, <1>3, <1>4, <2>1, <3>1, <3>3, <3>4, <3>5, RecordingByRow, Zenon
  <2>3. CASE ~(row[m].status = "error" /\ SatisfiesCheck(Retried(row[m], u)))
    <3>1. UNCHANGED row
      BY <1>6, <2>3, Zenon DEF RetryWrite
    <3>2. QED
      BY <1>5, <2>1, <3>1
  <2>4. QED
    BY <2>2, <2>3
<1>7. CASE LanguageWrite(h)
  <2>1. Finish(h) /\ UNCHANGED files
    BY <1>7 DEF LanguageWrite, data
  <2>2. CASE row[m].status = "pending" /\ SatisfiesCheck(LanguageUpdated(row[m], u))
    <3> DEFINE r == LanguageUpdated(row[m], u)
    <3>1. /\ r \in Row /\ r.status = row[m].status /\ r.resume = u.resume
          /\ r.failedAt = row[m].failedAt
      BY <1>1, <1>3, LanguageUpdatedFacts
    <3>2. SetRow(m, r)
      BY <1>7, <2>2 DEF LanguageWrite
    <3> HIDE DEF r
    <3>3. PastNormalization(r) => PastNormalization(row[m]) \/ HasNormalized(m)
      BY <1>3, <3>1, Zenon DEF PastNormalization
    <3>4. row'[m] = r /\ \A k \in Meetings : k # m => row'[k] = row[k]
      BY <1>1, <1>3, <3>1, <3>2, SetRowFacts
    <3>5. r.status # "absent"
      BY <1>3, <3>1
    <3>6. QED
      BY <1>2, <1>3, <1>4, <2>1, <3>1, <3>3, <3>4, <3>5, RecordingByRow, Zenon
  <2>3. CASE ~(row[m].status = "pending" /\ SatisfiesCheck(LanguageUpdated(row[m], u)))
    <3>1. UNCHANGED row
      BY <1>7, <2>3, Zenon DEF LanguageWrite
    <3>2. QED
      BY <1>5, <2>1, <3>1
  <2>4. QED
    BY <2>2, <2>3
<1>8. CASE DeleteFiles(h)
  <2>1. /\ files'[m] = {} /\ \A k \in Meetings : k # m => files'[k] = files[k]
        /\ UNCHANGED row
    BY <1>1, <1>3, <1>8, Zenon DEF DeleteFiles
  <2>2. AudioStays
    <3> SUFFICES ASSUME NEW k \in Meetings
                 PROVE  /\ HasAudio(k) => HasAudio(k)'
                        /\ HasNormalized(k) => HasNormalized(k)'
      BY <2>1, Zenon DEF AudioStays
    <3>1. CASE k = m
      BY <2>1, <3>1 DEF HasAudio, HasNormalized
    <3>2. CASE k # m
      BY <2>1, <3>2, Zenon DEF HasAudio, HasNormalized
    <3>3. QED
      BY <3>1, <3>2
  <2>3. RequestHasAudio(h)'
    <3>1. handler'[h].m = m
      BY <1>1, <1>8, Zenon DEF DeleteFiles, Handler
    <3>2. HasNormalized(handler[h].m)'
      BY <2>1, <3>1 DEF HasNormalized
    <3>3. QED
      BY <1>3, <2>1, <3>1, <3>2, Zenon DEF RequestHasAudio
  <2>4. \A g \in Handlers : g # h => handler'[g] = handler[g]
    BY <1>1, <1>8, Zenon DEF DeleteFiles
  <2>5. QED
    BY <1>2, <2>1, <2>2, <2>3, <2>4, RecordingByParts, Zenon
<1>9. CASE DeleteRow(h)
  <2>1. SetRow(m, DeletedRow) /\ Finish(h) /\ UNCHANGED files
    BY <1>9 DEF DeleteRow
  <2>2. /\ DeletedRow \in Row /\ DeletedRow.status # "absent"
        /\ ~PastNormalization(DeletedRow)
    BY DeletedRowFacts, SMT DEF PastNormalization, LaterStages
  <2>3. row'[m] = DeletedRow /\ \A k \in Meetings : k # m => row'[k] = row[k]
    BY <1>1, <1>3, <2>1, <2>2, SetRowFacts
  <2>4. QED
    BY <1>2, <1>3, <1>4, <2>1, <2>2, <2>3, RecordingByRow, Zenon
<1>10. CASE RequestDies(h)
  BY <1>5, <1>10 DEF RequestDies, data
<1>11. QED
  BY <1>6, <1>7, <1>8, <1>9, <1>10 DEF RequestStep

\* A request reads a row that says what the meeting has.
LEMMA ReadRecordingStep ==
  ASSUME TypeInv, RecordingInv, NEW h \in Handlers, NEW m \in Meetings,
         RetryRead(h, m) \/ LanguageRead(h, m) \/ DeleteFind(h, m)
  PROVE  RecordingInv'
<1>1. /\ row[m] \in Row /\ handler \in [Handlers -> Handler]
      /\ PastNormalization(row[m]) => HasNormalized(m)
  BY DEF TypeInv, TypeOK, RecordingInv
<1>2. UNCHANGED <<row, files, worker>> /\ row[m].status # "absent"
  BY SMT DEF RetryRead, LanguageRead, DeleteFind, data, IsRetryable, Present, Statuses,
             NonTerminal, Stages
<1>3. PICK op \in {"retry", "language", "deleteFiles", "deleteRow"}, u \in Update :
        Begin(h, op, m, u) /\ (u.resume \in LaterStages => HasNormalized(m))
  <2>1. CASE RetryRead(h, m)
    <3>1. PICK lang \in Languages : Begin(h, "retry", m, RetryUpdate(row[m], lang))
      BY <2>1 DEF RetryRead
    <3>2. row[m].failedAt \in Stages
      BY <2>1 DEF RetryRead, IsRetryable
    <3>3. /\ RetryUpdate(row[m], lang) \in Update
          /\ row[m].failedAt = "normalizing" =>
               RetryUpdate(row[m], lang).resume = "normalizing"
      BY <1>1, <3>2, RetryUpdateFacts
    <3>4. RetryUpdate(row[m], lang).resume \in LaterStages => HasNormalized(m)
      <4>1. row[m].failedAt = "normalizing" \/ row[m].failedAt \in LaterStages
        BY <3>2 DEF Stages, LaterStages
      <4>2. QED
        BY <1>1, <3>3, <4>1 DEF PastNormalization, LaterStages
    <3>5. QED
      BY <3>1, <3>3, <3>4
  <2>2. CASE LanguageRead(h, m)
    <3>1. PICK lang \in Languages :
            Begin(h, "language", m, PendingLanguageUpdate(row[m], lang))
      BY <2>2 DEF LanguageRead
    <3>2. /\ PendingLanguageUpdate(row[m], lang) \in Update
          /\ row[m].resume \in {"none", "normalizing", "transcribing"} =>
               PendingLanguageUpdate(row[m], lang).resume = row[m].resume
          /\ row[m].resume \in Stages \union {"none"}
      BY <1>1, PendingLanguageUpdateFacts, Zenon DEF Row
    <3>3. PendingLanguageUpdate(row[m], lang).resume \in LaterStages => HasNormalized(m)
      BY <1>1, <3>2 DEF PastNormalization, LaterStages, Stages
    <3>4. QED
      BY <3>1, <3>2, <3>3
  <2>3. CASE DeleteFind(h, m)
    <3>1. NoUpdate \in Update /\ NoUpdate.resume \notin LaterStages
      BY ColumnValues, SMT DEF NoUpdate, Update, LaterStages
    <3>2. QED
      BY <2>3, <3>1 DEF DeleteFind
  <2>4. QED
    BY <2>1, <2>2, <2>3
<1>4. /\ handler'[h].op = op /\ handler'[h].m = m /\ handler'[h].update = u
      /\ \A g \in Handlers : g # h => handler'[g] = handler[g]
  BY <1>1, <1>3, BeginFacts
<1>5. RequestHasAudio(h)'
  <2>1. HasNormalized(handler[h].m)' <=> HasNormalized(m)
    BY <1>2, <1>4, Zenon DEF HasNormalized
  <2>2. QED
    BY <1>2, <1>3, <1>4, <2>1, Zenon DEF RequestHasAudio
<1>6. QED
  BY <1>2, <1>4, <1>5, RecordingByMemory, Zenon

LEMMA MeetingRecordingStep ==
  ASSUME TypeInv, RecordingInv, NEW m \in Meetings,
         Upload(m) \/ RegenerateSummary(m) \/ UpdateTitle(m) \/ Age(m)
  PROVE  RecordingInv'
<1>1. /\ row \in [Meetings -> Row] /\ row[m] \in Row
      /\ files \in [Meetings -> SUBSET {"directory", "original", "normalized"}]
  BY DEF TypeInv, TypeOK
<1>2. UNCHANGED <<worker, handler>>
  BY DEF Upload, RegenerateSummary, UpdateTitle, Age
<1>3. CASE Upload(m)
  <2>1. PICK lang \in Languages : SetRow(m, PendingRow(lang))
    BY <1>3 DEF Upload
  <2>2. /\ row[m].status = "absent"
        /\ files'[m] = {"directory", "original"}
        /\ \A k \in Meetings : k # m => files'[k] = files[k]
    BY <1>1, <1>3 DEF Upload
  <2>3. /\ PendingRow(lang) \in Row /\ PendingRow(lang).status = "pending"
        /\ ~PastNormalization(PendingRow(lang))
    BY PendingRowFacts, SMT DEF PastNormalization, LaterStages
  <2>4. /\ row'[m] = PendingRow(lang)
        /\ \A k \in Meetings : k # m => row'[k] = row[k]
    BY <1>1, <2>1, <2>3, SetRowFacts
  <2>5. ASSUME NEW k \in Meetings
        PROVE  HasAudio(k)' /\ (PastNormalization(row'[k]) => HasNormalized(k)')
    <3>1. CASE k = m
      BY <2>2, <2>3, <2>4, <3>1 DEF HasAudio
    <3>2. CASE k # m
      BY <2>2, <2>4, <3>2, Zenon DEF RecordingInv, HasAudio, HasNormalized
    <3>3. QED
      BY <3>1, <3>2
  <2>6. ASSUME NEW w \in Workers
        PROVE  WorkerHasAudio(w)'
    <3> SUFFICES ASSUME Busy(w)
                 PROVE  /\ row'[worker[w].m].status # "absent"
                        /\ worker[w].at \notin Normalizing => HasNormalized(worker[w].m)'
      BY <1>2, Zenon DEF WorkerHasAudio, Busy, HasNormalized
    <3>1. /\ worker[w].m \in Meetings /\ row[worker[w].m].status # "absent"
          /\ worker[w].at \notin Normalizing => HasNormalized(worker[w].m)
      BY Zenon DEF TypeInv, RecordingInv, WorkerHasAudio
    <3>2. worker[w].m # m
      BY <2>2, <3>1
    <3>3. QED
      BY <1>2, <2>2, <2>4, <3>1, <3>2, Zenon DEF HasNormalized
  <2>7. ASSUME NEW h \in Handlers
        PROVE  RequestHasAudio(h)'
    <3> SUFFICES ASSUME handler[h].op # "none"
                 PROVE  /\ row'[handler[h].m].status # "absent"
                        /\ handler[h].update.resume \in LaterStages
                             => HasNormalized(handler[h].m)'
      BY <1>2, Zenon DEF RequestHasAudio, HasNormalized
    <3>1. /\ handler[h].m \in Meetings /\ row[handler[h].m].status # "absent"
          /\ handler[h].update.resume \in LaterStages => HasNormalized(handler[h].m)
      BY Zenon DEF TypeInv, RecordingInv, RequestHasAudio
    <3>2. handler[h].m # m
      BY <2>2, <3>1
    <3>3. QED
      BY <1>2, <2>2, <2>4, <3>1, <3>2, Zenon DEF HasNormalized
  <2>8. QED
    BY <2>5, <2>6, <2>7, Zenon DEF RecordingInv
<1>4. CASE RegenerateSummary(m) \/ UpdateTitle(m) \/ Age(m)
  <2>1. PICK r \in Row :
          /\ SetRow(m, r) /\ r.status = row[m].status /\ r.resume = row[m].resume
          /\ r.failedAt = row[m].failedAt
    <3>1. CASE RegenerateSummary(m)
      BY <1>1, <3>1, RegenerationQueuedFacts DEF RegenerateSummary
    <3>2. CASE UpdateTitle(m)
      BY <1>1, <3>2, TitleUpdatedFacts DEF UpdateTitle
    <3>3. CASE Age(m)
      <4>1. SetRow(m, [row[m] EXCEPT !.overdue = TRUE])
        BY <3>3, Zenon DEF Age, SetRow
      <4>2. QED
        BY <1>1, <4>1, AgedFacts
    <3>4. QED
      BY <1>4, <3>1, <3>2, <3>3
  <2>2. row[m].status # "absent" /\ UNCHANGED files
    BY <1>4, SMT DEF RegenerateSummary, CanQueueRegeneration, UpdateTitle, Age, Present,
                     Statuses, NonTerminal, Stages, data
  <2>3. row'[m] = r /\ \A k \in Meetings : k # m => row'[k] = row[k]
    BY <1>1, <2>1, SetRowFacts
  <2>4. PastNormalization(r) => PastNormalization(row[m])
    BY <2>1, Zenon DEF PastNormalization
  <2>5. QED
    BY <1>2, <2>1, <2>2, <2>3, <2>4, RecordingByRow, Zenon
<1>5. QED
  BY <1>3, <1>4

LEMMA RecordingStep ==
  ASSUME TypeInv, RecordingInv, [Next]_vars
  PROVE  RecordingInv'
<1>1. ASSUME NEW w \in Workers, WorkerStep(w) \/ CrashWorker(w) \/ DatabaseError(w)
      PROVE  RecordingInv'
  BY <1>1, WorkerRecordingStep
<1>2. ASSUME NEW h \in Handlers, RequestStep(h) \/ RequestDies(h)
      PROVE  RecordingInv'
  BY <1>2, RequestRecordingStep
<1>3. ASSUME NEW m \in Meetings,
             Upload(m) \/ RegenerateSummary(m) \/ UpdateTitle(m) \/ Age(m)
      PROVE  RecordingInv'
  BY <1>3, MeetingRecordingStep
<1>4. ASSUME NEW h \in Handlers, NEW m \in Meetings,
             RetryRead(h, m) \/ LanguageRead(h, m) \/ DeleteFind(h, m)
      PROVE  RecordingInv'
  BY <1>4, ReadRecordingStep
<1>5. CASE UNCHANGED vars
  BY <1>5, RecordingByMemory, Zenon DEF vars, data
<1>6. QED
  BY <1>1, <1>2, <1>3, <1>4, <1>5 DEF Next, Request, Fault

\* No recording is lost before its meeting is deleted, and nothing is queued behind
\* normalization without normalized.wav, however many requests overlap, also those
\* whose updates overtake each other: what one of them was computed from may be out of
\* date, but that a meeting was normalized stays true.
THEOREM RecordingKept == Spec => []RecordingSurvives
<1>1. Init => TypeInv
  BY TypeInit
<1>2. TypeInv /\ [Next]_vars => TypeInv'
  BY TypeStep
<1>3. Init => RecordingInv
  <2> SUFFICES ASSUME Init PROVE RecordingInv
    OBVIOUS
  <2>1. /\ \A m \in Meetings : row[m] = NoRow /\ files[m] = {}
        /\ \A w \in Workers : worker[w] = Off
        /\ \A h \in Handlers : handler[h] = NoRequest
    BY DEF Init
  <2>2. NoRequest.op = "none" /\ Off.at \notin BusyPoints
    BY IdleTyped, Points, SMT DEF NoRequest
  <2>3. ~PastNormalization(NoRow)
    BY NoRowFacts, SMT DEF PastNormalization, LaterStages
  <2>4. QED
    BY <2>1, <2>2, <2>3
       DEF RecordingInv, HasAudio, WorkerHasAudio, RequestHasAudio, Busy
<1>4. TypeInv /\ RecordingInv /\ [Next]_vars => RecordingInv'
  BY RecordingStep
<1>5. TypeInv /\ RecordingInv => RecordingSurvives
  <2> SUFFICES ASSUME TypeInv, RecordingInv, NEW m \in Meetings, "directory" \in files[m]
               PROVE  /\ files[m] \intersect {"original", "normalized"} # {}
                      /\ NextStage(row[m]) \in LaterStages \union {"done"}
                           => "normalized" \in files[m]
    BY DEF RecordingSurvives, DeletionBegun
  <2>1. /\ "original" \in files[m] \/ "normalized" \in files[m]
        /\ PastNormalization(row[m]) => "normalized" \in files[m]
    BY DEF RecordingInv, HasAudio, HasNormalized
  <2>2. NextStage(row[m]) \in LaterStages \union {"done"} => PastNormalization(row[m])
    <3>1. /\ row[m].failedAt \in Stages \union {"none"}
          /\ row[m].resume \in Stages \union {"none"}
      BY Zenon DEF TypeInv, TypeOK, Row
    <3>2. QED
      BY <3>1, SMT DEF NextStage, PastNormalization, LaterStages, Stages
  <2>3. QED
    BY <2>1, <2>2
<1>6. QED
  BY <1>1, <1>2, <1>3, <1>4, <1>5, PTL DEF Spec
=============================================================================
