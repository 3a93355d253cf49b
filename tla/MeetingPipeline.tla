--------------------------- MODULE MeetingPipeline ---------------------------
(***************************************************************************)
(* The meeting pipeline: worker processes that claim meetings and take     *)
(* them stage by stage to `done` or `error`, and the web requests that     *)
(* retry, re-language, regenerate, rename and delete the same meetings.    *)
(*                                                                         *)
(* Everything the processes share is here: the `meetings` rows, the        *)
(* transcript and summary rows that hang off them, the audio files, and    *)
(* the advisory lock that makes the worker a singleton.  A worker keeps    *)
(* what it claimed in memory and never reads the row again, so each of its *)
(* writes relies on nothing having changed behind its back.                *)
(*                                                                         *)
(* An operator introduced as a "variant" is wrong on purpose: see          *)
(* MeetingRows.                                                            *)
(***************************************************************************)
EXTENDS MeetingRows, FiniteSets

CONSTANTS Meetings,       \* meetings, numbered in created_at order
          Workers,        \* worker processes that may be started
          Handlers,       \* web requests that may be in flight at once
          ProgressMarks,  \* progress values the transcriber reports
          MaxVersions     \* bound: summary versions of one meeting

ASSUME PipelineAssumption ==
  /\ Meetings \subseteq Nat
  /\ "none" \notin Workers
  /\ ProgressMarks \subseteq 0 .. 99
  /\ MaxVersions \in Nat

VARIABLES row,         \* meetings: the row of each meeting
          transcript,  \* transcript_segments of each meeting
          versions,    \* summary_versions of each meeting
          files,       \* each meeting's storage directory and the audio in it
          lock,        \* holder of the singleton advisory lock
          worker,      \* control state and memory of each worker process
          handler      \* in-flight web requests

data == <<transcript, versions, files>>
vars == <<row, transcript, versions, files, lock, worker, handler>>

-----------------------------------------------------------------------------
(* Control points of a worker: what it does next.                           *)

\* The next step is a status write that checks it changed exactly one row; the
\* statuses its WHERE clause accepts.
Accepts ==
  [markNormalizing  |-> {"pending", "normalizing"},
   markTranscribing |-> {"normalizing", "transcribing"},
   saveTranscript   |-> {"transcribing"},
   markDiarizing    |-> {"diarizing"},
   saveDiarization  |-> {"diarizing"},
   markSummarizing  |-> {"summarizing"},
   summarize        |-> {"summarizing"}]

\* The next step runs inside a try block of the processor: the stage its failure
\* is recorded at, and the error kinds it may be recorded with.
\* (FailureStageLate is a variant: a transcription failure is recorded one stage
\* too late.)
FailureStageLate ==
  [convert            |-> "normalizing",
   cleanup            |-> "normalizing",
   transcribe         |-> "diarizing",
   loadForDiarization |-> "diarizing",
   diarize            |-> "diarizing",
   loadForSummary     |-> "summarizing",
   summarize          |-> "summarizing"]

FailureStage ==
  [convert            |-> "normalizing",
   cleanup            |-> "normalizing",
   transcribe         |-> "transcribing",
   loadForDiarization |-> "diarizing",
   diarize            |-> "diarizing",
   loadForSummary     |-> "summarizing",
   summarize          |-> "summarizing"]

FailureKinds ==
  [convert            |-> {"normalization_failed", "corrupt_audio",
                           "config_missing", "unknown"},
   cleanup            |-> {"normalization_failed", "corrupt_audio",
                           "config_missing", "unknown"},
   transcribe         |-> {"transcription_failed", "transcription_empty",
                           "unknown"},
   loadForDiarization |-> {"unknown"},
   diarize            |-> {"diarization_failed", "config_missing", "unknown"},
   loadForSummary     |-> {"unknown"},
   summarize          |-> {"summarization_failed", "config_missing", "unknown"}]

RegenerationPoints == {"loadForRegeneration", "regenerate"}

\* load_transcript_segments, and what the caller does with the segments.
AfterLoading == [loadForDiarization  |-> "markDiarizing",
                 loadForSummary      |-> "markSummarizing",
                 loadForRegeneration |-> "regenerate"]

BusyPoints == DOMAIN Accepts \union DOMAIN FailureStage \union RegenerationPoints

\* Where PipelineProcessor.process starts, by the status the claim returned.
EntryPoint(status) ==
  CASE status = "done"         -> "loadForRegeneration"
    [] status = "transcribing" -> "markTranscribing"
    [] status = "diarizing"    -> "loadForDiarization"
    [] status = "summarizing"  -> "loadForSummary"
    [] OTHER                   -> "markNormalizing"

\* The worker's memory: the claimed snapshot (meeting, status, language), the
\* language the transcriber detected and the segments in hand.
Worker == [at       : BusyPoints \union {"off", "idle"},
           m        : Meetings \union {0},
           claimed  : NonTerminal \union {"done", "none"},
           lang     : Languages,
           detected : Detectable \union {"none"},
           segments : Transcript]

Off == [at |-> "off", m |-> 0, claimed |-> "none", lang |-> "auto",
        detected |-> "none", segments |-> NoTranscript]

Idle == [Off EXCEPT !.at = "idle"]

Handler == [op     : {"none", "retry", "language", "deleteFiles", "deleteRow"},
            m      : Meetings \union {0},
            update : Update]

NoRequest == [op |-> "none", m |-> 0, update |-> NoUpdate]

TypeOK ==
  /\ row \in [Meetings -> Row]
  /\ transcript \in [Meetings -> Transcript]
  /\ versions \in [Meetings -> SUBSET SummaryVersion]
  /\ files \in [Meetings -> SUBSET {"directory", "original", "normalized"}]
  /\ lock \in Workers \union {"none"}
  /\ worker \in [Workers -> Worker]
  /\ handler \in [Handlers -> Handler]

Init ==
  /\ row = [m \in Meetings |-> NoRow]
  /\ transcript = [m \in Meetings |-> NoTranscript]
  /\ versions = [m \in Meetings |-> {}]
  /\ files = [m \in Meetings |-> {}]
  /\ lock = "none"
  /\ worker = [w \in Workers |-> Off]
  /\ handler = [h \in Handlers |-> NoRequest]

-----------------------------------------------------------------------------
(* The worker process.                                                      *)

Goto(w, point) == worker' = [worker EXCEPT ![w].at = point]

BecomeIdle(w) == worker' = [worker EXCEPT ![w] = Idle]

SetRow(m, r) == row' = [row EXCEPT ![m] = r]

\* Variant: a process does not wait for the lock.
StartWorkerUnlocked(w) ==
  /\ worker[w].at = "off"
  /\ lock' = w
  /\ BecomeIdle(w)
  /\ UNCHANGED <<row, data, handler>>

\* main.run: a process runs only once it holds the advisory lock.
StartWorker(w) ==
  /\ worker[w].at = "off"
  /\ lock = "none"
  /\ lock' = w
  /\ BecomeIdle(w)
  /\ UNCHANGED <<row, data, handler>>

\* The process dies at any point: its memory is gone, its database session ends
\* and the advisory lock with it.
CrashWorker(w) ==
  /\ worker[w].at # "off"
  /\ worker' = [worker EXCEPT ![w] = Off]
  /\ lock' = IF lock = w THEN "none" ELSE lock
  /\ UNCHANGED <<row, data, handler>>

\* Postgres (or the network) drops the session that holds the lock.  The worker
\* uses other connections for its work and never looks at this one again.
LockSessionLost ==
  /\ lock # "none"
  /\ lock' = "none"
  /\ UNCHANGED <<row, data, worker, handler>>

\* A web statement about to commit may hold the row lock: SKIP LOCKED passes it by.
MayBeLocked(m) == \E h \in Handlers : handler[h].op # "none" /\ handler[h].m = m

Oldest(S) == CHOOSE m \in S : \A k \in S : m <= k

\* claim_next: the oldest claimable meeting, one waiting for the pipeline before
\* one waiting for regeneration.
Claim(w) ==
  /\ worker[w].at = "idle"
  /\ \E skipped \in SUBSET {m \in Meetings : MayBeLocked(m)} :
       LET free     == Meetings \ skipped
           pipeline == {m \in free : PipelineClaimable(row[m])}
           waiting  == IF pipeline # {} THEN pipeline
                       ELSE {m \in free : RegenerationClaimable(row[m])}
           m        == Oldest(waiting)
       IN  /\ waiting # {}
           /\ SetRow(m, Claimed(row[m]))
           /\ worker' = [worker EXCEPT ![w] =
                [Idle EXCEPT !.at      = EntryPoint(ClaimedStatus(row[m])),
                             !.m       = m,
                             !.claimed = ClaimedStatus(row[m]),
                             !.lang    = row[m].lang]]
  /\ UNCHANGED <<data, lock, handler>>

\* A status write that finds the row at a status it accepts.
Writes(w, point) ==
  /\ worker[w].at = point
  /\ row[worker[w].m].status \in Accepts[point]

\* One that does not: rowcount is not 1, RuntimeError rolls the transaction back
\* and leaves the processor; QueueLoop.drain_queue backs off.
WriteRefused(w) ==
  /\ worker[w].at \in DOMAIN Accepts
  /\ row[worker[w].m].status \notin Accepts[worker[w].at]
  /\ BecomeIdle(w)
  /\ UNCHANGED <<row, data, lock, handler>>

\* Any statement outside the processor's try blocks raises (or the failure write
\* itself does): nothing is written, the row keeps its status.
DatabaseError(w) ==
  /\ worker[w].at \in BusyPoints
  /\ BecomeIdle(w)
  /\ UNCHANGED <<row, data, lock, handler>>

\* mark_failure after an exception inside a stage.
StageFails(w) ==
  /\ worker[w].at \in DOMAIN FailureStage
  /\ LET m == worker[w].m
         stage == FailureStage[worker[w].at]
     IN  IF row[m].status \in NonTerminal
         THEN \E kind \in FailureKinds[worker[w].at] :
                SetRow(m, Failed(row[m], kind, stage))
         ELSE UNCHANGED row
  /\ BecomeIdle(w)
  /\ UNCHANGED <<data, lock, handler>>

MarkNormalizing(w) ==
  LET m == worker[w].m IN
  /\ Writes(w, "markNormalizing")
  /\ SetRow(m, NormalizationStarted(row[m]))
  /\ Goto(w, "convert")
  /\ UNCHANGED <<data, lock, handler>>

\* AudioNormalizer.normalize up to the rename of normalized.wav into place.  A
\* meeting claimed at "normalizing" may find that an earlier run had got past it.
Convert(w) ==
  LET m == worker[w].m IN
  /\ worker[w].at = "convert"
  /\ \/ /\ "original" \in files[m]
        /\ files' = [files EXCEPT ![m] = @ \union {"normalized"}]
        /\ Goto(w, "cleanup")
     \/ /\ "original" \notin files[m]
        /\ "normalized" \in files[m]
        /\ worker[w].claimed = "normalizing"
        /\ Goto(w, "markTranscribing")
        /\ UNCHANGED files
  /\ UNCHANGED <<row, transcript, versions, lock, handler>>

\* Variant: the pattern of the files to delete matches normalized.wav too.
CleanupOfEverything(w) ==
  LET m == worker[w].m IN
  /\ worker[w].at = "cleanup"
  /\ "normalized" \in files[m]
  /\ files' = [files EXCEPT ![m] = @ \ {"original", "normalized"}]
  /\ Goto(w, "markTranscribing")
  /\ UNCHANGED <<row, transcript, versions, lock, handler>>

\* ... and from there: probe normalized.wav, then delete the upload.
Cleanup(w) ==
  LET m == worker[w].m IN
  /\ worker[w].at = "cleanup"
  /\ "normalized" \in files[m]
  /\ files' = [files EXCEPT ![m] = @ \ {"original"}]
  /\ Goto(w, "markTranscribing")
  /\ UNCHANGED <<row, transcript, versions, lock, handler>>

MarkTranscribing(w) ==
  LET m == worker[w].m IN
  /\ Writes(w, "markTranscribing")
  /\ SetRow(m, TranscriptionStarted(row[m]))
  /\ transcript' = [transcript EXCEPT ![m] = NoTranscript]
  /\ Goto(w, "transcribe")
  /\ UNCHANGED <<versions, files, lock, handler>>

\* The progress callback; a write that matches no row, or raises, is ignored.
ReportProgress(w) ==
  LET m == worker[w].m IN
  /\ worker[w].at = "transcribe"
  /\ row[m].status = "transcribing"
  /\ \E p \in ProgressMarks :
       /\ row[m].progress < p
       /\ SetRow(m, TranscriptionProgressed(row[m], p))
  /\ UNCHANGED <<data, lock, worker, handler>>

Transcribe(w) ==
  /\ worker[w].at = "transcribe"
  /\ "normalized" \in files[worker[w].m]
  /\ \E d \in Detectable \union {"none"} :
       worker' = [worker EXCEPT ![w] = [@ EXCEPT !.at = "saveTranscript",
                                                 !.detected = d]]
  /\ UNCHANGED <<row, data, lock, handler>>

\* mark_transcription_succeeded: the detected language is kept only when the
\* claimed snapshot asked for auto-detection.
SaveTranscript(w) ==
  LET m == worker[w].m
      d == IF worker[w].lang = "auto" THEN worker[w].detected ELSE "none"
      r == TranscriptionSucceeded(row[m], d)
  IN
  /\ Writes(w, "saveTranscript")
  /\ SatisfiesCheck(r)
  /\ SetRow(m, r)
  /\ transcript' = [transcript EXCEPT ![m] = [lang |-> worker[w].lang,
                                              diarized |-> FALSE]]
  /\ Goto(w, "loadForDiarization")
  /\ UNCHANGED <<versions, files, lock, handler>>

LoadSegments(w) ==
  /\ worker[w].at \in DOMAIN AfterLoading
  /\ worker' = [worker EXCEPT ![w] = [@ EXCEPT !.at = AfterLoading[worker[w].at],
                                              !.segments = transcript[worker[w].m]]]
  /\ UNCHANGED <<row, data, lock, handler>>

MarkDiarizing(w) ==
  LET m == worker[w].m IN
  /\ Writes(w, "markDiarizing")
  /\ SetRow(m, DiarizationStarted(row[m]))
  /\ Goto(w, "diarize")
  /\ UNCHANGED <<data, lock, handler>>

\* The diarizer refuses a missing normalized.wav and an empty transcript.
Diarize(w) ==
  /\ worker[w].at = "diarize"
  /\ "normalized" \in files[worker[w].m]
  /\ worker[w].segments # NoTranscript
  /\ worker' = [worker EXCEPT ![w] =
                 [@ EXCEPT !.at = "saveDiarization",
                           !.segments = [worker[w].segments EXCEPT
                                           !.diarized = TRUE]]]
  /\ UNCHANGED <<row, data, lock, handler>>

SaveDiarization(w) ==
  LET m == worker[w].m IN
  /\ Writes(w, "saveDiarization")
  /\ SetRow(m, DiarizationSucceeded(row[m]))
  /\ transcript' = [transcript EXCEPT ![m] = worker[w].segments]
  /\ Goto(w, "markSummarizing")
  /\ UNCHANGED <<versions, files, lock, handler>>

MarkSummarizing(w) ==
  LET m == worker[w].m IN
  /\ Writes(w, "markSummarizing")
  /\ SetRow(m, SummarizationStarted(row[m]))
  /\ Goto(w, "summarize")
  /\ UNCHANGED <<data, lock, handler>>

\* The summarizer answers (it refuses an empty transcript) and
\* mark_summarization_succeeded upserts version 1.
Summarize(w) ==
  LET m == worker[w].m IN
  /\ Writes(w, "summarize")
  /\ worker[w].segments # NoTranscript
  /\ SetRow(m, SummarizationSucceeded(row[m]))
  /\ versions' = [versions EXCEPT ![m] =
       {v \in @ : v.number # 1}
         \union {[number |-> 1, source |-> "initial", of |-> worker[w].segments]}]
  /\ BecomeIdle(w)
  /\ UNCHANGED <<transcript, files, lock, handler>>

\* Variant: the revision takes the place of the version it revises.
RegenerateInPlace(w) ==
  LET m == worker[w].m
      v == [number |-> row[m].latest + 1, source |-> "ai_revision",
            of |-> worker[w].segments]
  IN
  /\ worker[w].at = "regenerate"
  /\ worker[w].segments # NoTranscript
  /\ row[m].status = "done"
  /\ row[m].regen = "processing"
  /\ SetRow(m, RegenerationSucceeded(row[m]))
  /\ versions' = [versions EXCEPT ![m] =
                    {other \in @ : other.number # row[m].latest} \union {v}]
  /\ BecomeIdle(w)
  /\ UNCHANGED <<transcript, files, lock, handler>>

\* mark_summary_regeneration_succeeded; (meeting_id, version_number) is unique, so
\* an insert that repeats a number is a DatabaseError.
Regenerate(w) ==
  LET m == worker[w].m
      v == [number |-> row[m].latest + 1, source |-> "ai_revision",
            of |-> worker[w].segments]
  IN
  /\ worker[w].at = "regenerate"
  /\ worker[w].segments # NoTranscript
  /\ row[m].status = "done"
  /\ row[m].regen = "processing"
  /\ \E latest \in versions[m] : latest.number = row[m].latest
  /\ \A other \in versions[m] : other.number # v.number
  /\ SetRow(m, RegenerationSucceeded(row[m]))
  /\ versions' = [versions EXCEPT ![m] = @ \union {v}]
  /\ BecomeIdle(w)
  /\ UNCHANGED <<transcript, files, lock, handler>>

\* mark_summary_regeneration_failed: after an exception, an answer without
\* sections, or a success write that matched no row.  Nobody checks its rowcount.
RegenerationFails(w) ==
  LET m == worker[w].m IN
  /\ worker[w].at \in RegenerationPoints
  /\ IF row[m].status = "done" /\ row[m].regen = "processing"
     THEN SetRow(m, RegenerationFailed(row[m]))
     ELSE UNCHANGED row
  /\ BecomeIdle(w)
  /\ UNCHANGED <<data, lock, handler>>

-----------------------------------------------------------------------------
(* The web app.                                                             *)

\* createPendingMeetingFromUpload: the recording is on disk before the row is
\* inserted.  Meetings are numbered in the order their rows appear.
Upload(m) ==
  /\ row[m].status = "absent"
  /\ \A k \in Meetings : k < m => row[k].status # "absent"
  /\ \E lang \in Languages : SetRow(m, PendingRow(lang))
  /\ files' = [files EXCEPT ![m] = {"directory", "original"}]
  /\ UNCHANGED <<transcript, versions, lock, worker, handler>>

Begin(h, op, m, update) ==
  /\ handler[h].op = "none"
  /\ handler' = [handler EXCEPT ![h] = [op |-> op, m |-> m, update |-> update]]

Finish(h) == handler' = [handler EXCEPT ![h] = NoRequest]

\* retryMeeting, up to the call of retryMeetingById: read the failure, refuse
\* what is not retryable, compute the update.
RetryRead(h, m) ==
  /\ IsRetryable(row[m])
  /\ \E lang \in Languages : Begin(h, "retry", m, RetryUpdate(row[m], lang))
  /\ UNCHANGED <<row, data, lock, worker>>

\* retryMeetingById: `where status = 'error'` is all that is checked again.
RetryWrite(h) ==
  LET m == handler[h].m
      r == Retried(row[m], handler[h].update)
  IN
  /\ handler[h].op = "retry"
  /\ IF row[m].status = "error" /\ SatisfiesCheck(r)
     THEN SetRow(m, r) ELSE UNCHANGED row
  /\ Finish(h)
  /\ UNCHANGED <<data, lock, worker>>

\* updateMeetingLanguage, likewise in two steps.
LanguageRead(h, m) ==
  /\ row[m].status = "pending"
  /\ \E lang \in Languages :
       Begin(h, "language", m, PendingLanguageUpdate(row[m], lang))
  /\ UNCHANGED <<row, data, lock, worker>>

\* (LanguageWriteUnguarded is a variant: the write does not check the status.)
LanguageWriteUnguarded(h) ==
  LET m == handler[h].m
      r == LanguageUpdated(row[m], handler[h].update)
  IN
  /\ handler[h].op = "language"
  /\ IF Present(row[m]) /\ SatisfiesCheck(r)
     THEN SetRow(m, r) ELSE UNCHANGED row
  /\ Finish(h)
  /\ UNCHANGED <<data, lock, worker>>

LanguageWrite(h) ==
  LET m == handler[h].m
      r == LanguageUpdated(row[m], handler[h].update)
  IN
  /\ handler[h].op = "language"
  /\ IF row[m].status = "pending" /\ SatisfiesCheck(r)
     THEN SetRow(m, r) ELSE UNCHANGED row
  /\ Finish(h)
  /\ UNCHANGED <<data, lock, worker>>

\* deleteMeetingAndArtifacts: find, remove the directory, delete the row (its
\* segments and versions go with it by cascade).
DeleteFind(h, m) ==
  /\ Present(row[m])
  /\ Begin(h, "deleteFiles", m, NoUpdate)
  /\ UNCHANGED <<row, data, lock, worker>>

DeleteFiles(h) ==
  /\ handler[h].op = "deleteFiles"
  /\ files' = [files EXCEPT ![handler[h].m] = {}]
  /\ handler' = [handler EXCEPT ![h].op = "deleteRow"]
  /\ UNCHANGED <<row, transcript, versions, lock, worker>>

DeleteRow(h) ==
  LET m == handler[h].m IN
  /\ handler[h].op = "deleteRow"
  /\ SetRow(m, DeletedRow)
  /\ transcript' = [transcript EXCEPT ![m] = NoTranscript]
  /\ versions' = [versions EXCEPT ![m] = {}]
  /\ Finish(h)
  /\ UNCHANGED <<files, lock, worker>>

\* The web process dies, or a statement or the removal of the directory raises,
\* between two steps of a request.
RequestDies(h) ==
  /\ handler[h].op # "none"
  /\ Finish(h)
  /\ UNCHANGED <<row, data, lock, worker>>

\* regenerateSummary: the statement repeats every condition the handler read, so
\* read and write are one step.
RegenerateSummary(m) ==
  /\ CanQueueRegeneration(row[m])
  /\ row[m].latest < MaxVersions
  /\ SetRow(m, RegenerationQueued(row[m]))
  /\ UNCHANGED <<data, lock, worker, handler>>

UpdateTitle(m) ==
  /\ Present(row[m])
  /\ SetRow(m, TitleUpdated(row[m]))
  /\ UNCHANGED <<data, lock, worker, handler>>

\* Five minutes pass without a write to the timestamp the claim looks at.
Age(m) ==
  /\ \/ row[m].status \in Stages
     \/ row[m].status = "done" /\ row[m].regen = "processing"
  /\ ~row[m].overdue
  /\ row' = [row EXCEPT ![m].overdue = TRUE]
  /\ UNCHANGED <<data, lock, worker, handler>>

-----------------------------------------------------------------------------
Stage(w) ==
  \/ MarkNormalizing(w) \/ Convert(w) \/ Cleanup(w)
  \/ MarkTranscribing(w) \/ Transcribe(w) \/ SaveTranscript(w)
  \/ LoadSegments(w)
  \/ MarkDiarizing(w) \/ Diarize(w) \/ SaveDiarization(w)
  \/ MarkSummarizing(w) \/ Summarize(w)
  \/ Regenerate(w)
  \/ StageFails(w) \/ RegenerationFails(w) \/ WriteRefused(w)

WorkerStep(w) == StartWorker(w) \/ Claim(w) \/ Stage(w) \/ ReportProgress(w)

\* Things that go wrong.
Fault ==
  \/ \E w \in Workers : CrashWorker(w) \/ DatabaseError(w)
  \/ \E h \in Handlers : RequestDies(h)

\* What users ask for.
Request ==
  \/ \E m \in Meetings : Upload(m) \/ RegenerateSummary(m) \/ UpdateTitle(m)
  \/ \E h \in Handlers, m \in Meetings :
       RetryRead(h, m) \/ LanguageRead(h, m) \/ DeleteFind(h, m)

RequestStep(h) ==
  RetryWrite(h) \/ LanguageWrite(h) \/ DeleteFiles(h) \/ DeleteRow(h)

Next ==
  \/ \E w \in Workers : WorkerStep(w)
  \/ \E h \in Handlers : RequestStep(h)
  \/ \E m \in Meetings : Age(m)
  \/ Request
  \/ Fault

Spec == Init /\ [][Next]_vars

\* The same system when the session of the advisory lock may be lost.
LockLossSpec == Init /\ [][Next \/ LockSessionLost]_vars

(***************************************************************************)
(* Fairness.  The queue loop claims again after every meeting, on every    *)
(* notification and at the latest every poll interval; every stage ends    *)
(* (with a result or an exception); a started request runs on; the service *)
(* manager restarts a dead worker; time passes.  Nothing makes a user act. *)
(* Meetings drain once faults and requests cease: unbounded crashing,      *)
(* retrying or renaming can postpone any meeting for ever.                 *)
(***************************************************************************)
Fairness ==
  /\ WF_vars(\E w \in Workers : StartWorker(w))
  /\ \A w \in Workers : WF_vars(Claim(w)) /\ WF_vars(Stage(w))
  /\ \A h \in Handlers : WF_vars(RequestStep(h))
  /\ \A m \in Meetings : WF_vars(Age(m))

FairSpec == Spec /\ Fairness /\ <>[][~(Fault \/ Request)]_vars

-----------------------------------------------------------------------------
(* Safety.                                                                  *)

\* Only deleteMeetingAndArtifacts removes the directory.
DeletionBegun(m) == "directory" \notin files[m]

\* A row that still has the pipeline ahead of it: the stage it will be entered at.
NextStage(r) ==
  CASE r.status = "error"   -> r.failedAt
    [] r.status = "pending" -> IF r.resume = "none" THEN "normalizing" ELSE r.resume
    [] OTHER                -> r.status

Unfinished(r) == Present(r) /\ r.status # "done"

\* Every meeting still to be processed has the audio its next stages read, unless
\* its deletion has begun; one to be summarised too, since a retry in another
\* language sends it back to transcription.  A meeting nobody has normalized yet
\* still has its upload: only a claim of "normalizing" accepts a missing one.
AudioIsNeverLost ==
  \A m \in Meetings :
    Unfinished(row[m]) /\ ~DeletionBegun(m) =>
      /\ row[m].status = "pending" /\ row[m].resume = "none" =>
           "original" \in files[m]
      /\ NextStage(row[m]) = "normalizing" =>
           files[m] \intersect {"original", "normalized"} # {}
      /\ NextStage(row[m]) \in {"transcribing", "diarizing", "summarizing"} =>
           "normalized" \in files[m]

\* A meeting to be diarized or summarised next has a transcript, and one to be
\* summarised a diarized one: resuming never skips a stage.
StageHasItsInput ==
  \A m \in Meetings :
    /\ Unfinished(row[m]) /\ NextStage(row[m]) \in {"diarizing", "summarizing"}
         => transcript[m] # NoTranscript
    /\ Unfinished(row[m]) /\ NextStage(row[m]) = "summarizing"
         => transcript[m].diarized

\* A transcript that will be used as it is was made for the language the row asks
\* for, through every retry and change of language.
TranscriptMatchesLanguage ==
  \A m \in Meetings :
    \/ row[m].status = "done"
    \/ Unfinished(row[m]) /\ NextStage(row[m]) \in {"diarizing", "summarizing"}
    => transcript[m].lang = row[m].lang

\* `done` and the first summary arrive together and stay together; the latest
\* summary is the highest version and every version summarises the transcript the
\* meeting page shows.
DoneIsComplete ==
  \A m \in Meetings :
    /\ row[m].status = "done" <=> versions[m] # {}
    /\ \A v \in versions[m] :
         /\ v.number \in 1 .. row[m].latest
         /\ v.of = transcript[m]
         /\ v.source = "initial" <=> v.number = 1
    /\ row[m].latest # 0 => \E v \in versions[m] : v.number = row[m].latest
    /\ row[m].status = "done" => transcript[m].diarized

\* ADR 0006: the upload is removed in the transactional step that advances the
\* status, so a meeting that is still being normalized has it.
UploadRemovedWithStatus ==
  \A m \in Meetings :
    row[m].status = "normalizing" /\ ~DeletionBegun(m) => "original" \in files[m]

Busy(w) == worker[w].at \in BusyPoints

\* Two workers never process the same meeting.
OneWorkerPerMeeting ==
  \A v, w \in Workers :
    Busy(v) /\ Busy(w) /\ worker[v].m = worker[w].m => v = w

\* What a worker claimed stays true while it works: a write of its own is refused
\* only because the meeting was deleted, and the language it transcribes for is
\* the row's.
ClaimStaysValid ==
  \A w \in Workers :
    /\ worker[w].at \in DOMAIN Accepts =>
         row[worker[w].m].status \in Accepts[worker[w].at] \union {"deleted"}
    /\ worker[w].at \in RegenerationPoints =>
         \/ row[worker[w].m].status = "deleted"
         \/ row[worker[w].m].status = "done" /\ row[worker[w].m].regen = "processing"
    /\ Busy(w) => \/ row[worker[w].m].status = "deleted"
                  \/ row[worker[w].m].lang = worker[w].lang

\* No statement of the worker or of a web request is ever one that Postgres would
\* reject for setting a detected language beside a requested one.
CheckIsNeverViolated ==
  /\ \A m \in Meetings : SatisfiesCheck(row[m])
  /\ \A w \in Workers :
       LET r == row[worker[w].m] IN
       worker[w].at = "saveTranscript" /\ r.status = "transcribing"
         /\ worker[w].lang = "auto" => r.lang = "auto"
  /\ \A h \in Handlers :
       LET r == row[handler[h].m] IN
       \/ handler[h].op = "retry" /\ r.status = "error"
       \/ handler[h].op = "language" /\ r.status = "pending"
       => SatisfiesCheck(LanguageUpdated(r, handler[h].update))

-----------------------------------------------------------------------------
(* Action properties and liveness.                                          *)

\* Retry puts a failed meeting back at the stage it failed at, or at transcription
\* when the language was changed too.
RetryResumesFailedStage ==
  [][\A m \in Meetings :
       row[m].status = "error" /\ row'[m].status = "pending" =>
         \/ row'[m].resume = row[m].failedAt
         \/ row'[m].resume = "transcribing" /\ row'[m].lang # row[m].lang]_vars

\* Summary versions are append-only until the meeting is deleted.
VersionsAreKept ==
  [][\A m \in Meetings :
       versions[m] \subseteq versions'[m] \/ row'[m].status = "deleted"]_vars

\* Seen through the four columns a user can observe, the pipeline is the state
\* machine of ADR 0007: crashes, refused writes, reclaimed rows and requests that
\* overlap the worker show up as nothing or as a step of that machine.
Lifecycle == INSTANCE MeetingLifecycle WITH
  status    <- [m \in Meetings |-> row[m].status],
  resume    <- [m \in Meetings |-> row[m].resume],
  failedAt  <- [m \in Meetings |-> row[m].failedAt],
  summaries <- [m \in Meetings |-> row[m].latest]

ImplementsLifecycle == Lifecycle!LifecycleSpec

\* Whatever happened before, and wherever it left a meeting, every meeting ends up
\* done, failed or deleted, and no regeneration stays queued or half done.
EverythingSettles ==
  <>[](\A m \in Meetings :
         /\ row[m].status \notin NonTerminal
         /\ row[m].regen \notin {"pending", "processing"})
=============================================================================
