------------------------ MODULE MeetingLifecycleProofs ------------------------
(***************************************************************************)
(* The pipeline is the state machine of ADR 0007: MeetingPipeline          *)
(* implements MeetingLifecycle.  Every step of a worker, of a request or   *)
(* of time either leaves the four columns a user can observe as they are,  *)
(* or moves one meeting along one transition of the lifecycle.             *)
(***************************************************************************)
EXTENDS MeetingDataProofs

\* What a step may do to the row r of one meeting, s being the row it leaves: the
\* transitions of MeetingLifecycle, said of a row, and where its regeneration is.
SameSummaries(r, s) == s.latest = r.latest /\ s.regen = r.regen

Stays(r, s) ==
  /\ s.status = r.status /\ s.resume = r.resume
  /\ s.failedAt = r.failedAt /\ s.latest = r.latest
  /\ s.regen = r.regen \/ s.status = "deleted"

\* A regeneration is asked for, taken up or given up: nothing else shows.
Regenerating(r, s) ==
  /\ r.status = "done" /\ s.status = "done" /\ s.resume = r.resume
  /\ s.failedAt = r.failedAt /\ s.latest = r.latest
  /\ \/ r.regen \in {"idle", "failed"} /\ s.regen = "pending" /\ r.latest < MaxVersions
     \/ r.regen \in {"pending", "processing"} /\ s.regen = "processing"
     \/ r.regen = "processing" /\ s.regen = "failed"

Submitted(r, s) ==
  /\ r.status = "absent" /\ s.status = "pending"
  /\ s.resume = r.resume /\ s.failedAt = r.failedAt /\ s.latest = r.latest
  /\ s.regen = "idle"

Entered(r, s) ==
  /\ r.status = "pending"
  /\ s.status = IF r.resume = "none" THEN "normalizing" ELSE r.resume
  /\ s.resume = "none" /\ s.failedAt = r.failedAt /\ SameSummaries(r, s)

Advanced(r, s) ==
  /\ s.resume = r.resume /\ s.failedAt = r.failedAt /\ s.regen = r.regen
  /\ \/ r.status = "normalizing" /\ s.status = "transcribing" /\ s.latest = r.latest
     \/ r.status = "transcribing" /\ s.status = "diarizing" /\ s.latest = r.latest
     \/ r.status = "diarizing" /\ s.status = "summarizing" /\ s.latest = r.latest
     \/ r.status = "summarizing" /\ s.status = "done" /\ s.latest = 1

FailedThere(r, s) ==
  /\ r.status \in Stages /\ s.status = "error" /\ s.failedAt = r.status
  /\ s.resume = r.resume /\ SameSummaries(r, s)

Requeued(r, s) ==
  /\ r.status = "error" /\ s.status = "pending"
  /\ \/ s.resume = r.failedAt
     \/ /\ r.failedAt # "normalizing" /\ s.resume = "transcribing"
        /\ s.lang # r.lang
  /\ s.failedAt = "none" /\ SameSummaries(r, s)

Retargeted(r, s) ==
  /\ r.status = "pending" /\ s.status = "pending"
  /\ r.resume \in {"diarizing", "summarizing"} /\ s.resume = "transcribing"
  /\ s.failedAt = r.failedAt /\ SameSummaries(r, s)

Revised(r, s) ==
  /\ r.status = "done" /\ s.status = "done" /\ s.latest = r.latest + 1
  /\ s.resume = r.resume /\ s.failedAt = r.failedAt
  /\ r.regen = "processing" /\ s.regen = "idle"

Removed(r, s) ==
  /\ r.status \notin {"absent", "deleted"} /\ s.status = "deleted"
  /\ s.resume = "none" /\ s.failedAt = "none" /\ s.latest = 0

Moves(r, s) ==
  \/ Stays(r, s) \/ Regenerating(r, s) \/ Submitted(r, s) \/ Entered(r, s)
  \/ Advanced(r, s) \/ FailedThere(r, s) \/ Requeued(r, s) \/ Retargeted(r, s)
  \/ Revised(r, s) \/ Removed(r, s)

\* One meeting moves, or none.
OneMoves ==
  \/ UNCHANGED row
  \/ \E m \in Meetings :
       /\ \A k \in Meetings : k # m => row'[k] = row[k]
       /\ Moves(row[m], row'[m])

\* One statement on one row.
LEMMA SetRowMoves ==
  ASSUME SystemInv, NEW m \in Meetings, NEW s \in Row, SetRow(m, s),
         Moves(row[m], s)
  PROVE  OneMoves
<1>1. row'[m] = s /\ \A k \in Meetings : k # m => row'[k] = row[k]
  BY SetRowFacts DEF SystemInv, TypeInv, TypeOK
<1>2. QED
  BY <1>1 DEF OneMoves

-----------------------------------------------------------------------------
(* Each statement, by what it does to the row it finds.                     *)

\* The claim.
LEMMA ClaimMoves ==
  ASSUME NEW r \in Row, RowSound(r),
         PipelineClaimable(r) \/ RegenerationClaimable(r)
  PROVE  Moves(r, Claimed(r))
<1> DEFINE s == Claimed(r)
<1>1. CASE r.status = "pending"
  <2>1. r.failedAt = "none"
    BY <1>1 DEF RowSound
  <2>2. Entered(r, s)
    BY <1>1, <2>1, ClaimedPendingFacts DEF Entered, SameSummaries
  <2>3. QED
    BY <2>2 DEF Moves
<1>2. CASE r.status = "done"
  <2>1. r.resume = "none" /\ r.regen \in {"pending", "processing"}
    BY <1>2, SMT DEF RowSound, PipelineClaimable, RegenerationClaimable, Stages
  <2>2. Regenerating(r, s)
    BY <1>2, <2>1, ClaimedDoneFacts DEF Regenerating
  <2>3. QED
    BY <2>2 DEF Moves
<1>3. CASE r.status \in Stages
  <2>1. r.resume = "none"
    BY <1>3, StageRow DEF RowSound
  <2>2. Stays(r, s)
    BY <1>3, <2>1, ClaimedStageFacts DEF Stays
  <2>3. QED
    BY <2>2 DEF Moves
<1>4. QED
  BY <1>1, <1>2, <1>3 DEF PipelineClaimable, RegenerationClaimable

\* The retry, from the failure the row has.
LEMMA RetriedMoves ==
  ASSUME NEW r \in Row, RowSound(r), r.status = "error",
         NEW lang \in Languages, NEW u, u = RetryUpdate(r, lang)
  PROVE  /\ Retried(r, u) \in Row
         /\ Moves(r, Retried(r, u))
<1> DEFINE s == Retried(r, u)
<1>1. r.failedAt \in Stages
  BY Zenon DEF RowSound, Row
<1>2. /\ u \in Update /\ u.lang = lang
      /\ lang = r.lang => u.resume = r.failedAt
      /\ r.failedAt = "normalizing" => u.resume = "normalizing"
      /\ r.failedAt # "normalizing" => u.resume \in {r.failedAt, "transcribing"}
  BY <1>1, RetryUpdateFacts
<1>3. /\ s \in Row /\ s.status = "pending" /\ s.lang = lang
      /\ s.resume = u.resume /\ s.failedAt = "none" /\ s.latest = r.latest
      /\ s.regen = r.regen
  BY <1>2, RetriedFacts
<1> HIDE DEF s
<1>4. Requeued(r, s)
  BY <1>2, <1>3 DEF Requeued, SameSummaries
<1>5. QED
  BY <1>3, <1>4 DEF Moves, s

\* A change of language.
LEMMA LanguageUpdatedMoves ==
  ASSUME NEW r \in Row, r.status = "pending",
         NEW lang \in Languages, NEW u, u = PendingLanguageUpdate(r, lang)
  PROVE  /\ LanguageUpdated(r, u) \in Row
         /\ Moves(r, LanguageUpdated(r, u))
<1> DEFINE s == LanguageUpdated(r, u)
<1>1. r.resume \in {"none", "normalizing", "transcribing", "diarizing", "summarizing"}
  BY Zenon DEF Row, Stages
<1>2. /\ u \in Update
      /\ r.resume \in {"none", "normalizing", "transcribing"} => u.resume = r.resume
      /\ r.resume \in {"diarizing", "summarizing"} =>
           u.resume \in {r.resume, "transcribing"}
  BY PendingLanguageUpdateFacts
<1>3. /\ s \in Row /\ s.status = "pending" /\ s.resume = u.resume
      /\ s.failedAt = r.failedAt /\ s.latest = r.latest /\ s.regen = r.regen
  BY <1>2, LanguageUpdatedFacts
<1> HIDE DEF s
<1>4. Stays(r, s) \/ Retargeted(r, s)
  BY <1>1, <1>2, <1>3 DEF Stays, Retargeted, SameSummaries
<1>5. QED
  BY <1>3, <1>4 DEF Moves, s

-----------------------------------------------------------------------------
(* The steps.                                                               *)

\* The worker's status writes, each at the stage its control point expects: it
\* repeats the status the row has or writes the one that follows.
LEMMA StatusWriteMoves ==
  ASSUME SystemInv, NEW w \in Workers,
         \/ MarkNormalizing(w) \/ MarkTranscribing(w) \/ SaveTranscript(w)
         \/ MarkDiarizing(w) \/ SaveDiarization(w) \/ MarkSummarizing(w)
         \/ Summarize(w)
  PROVE  OneMoves
<1> DEFINE x == worker[w]
           m == x.m
           r == row[m]
<1>1. /\ x.at \in {"markNormalizing", "markTranscribing", "saveTranscript",
                  "markDiarizing", "saveDiarization", "markSummarizing",
                  "summarize"}
      /\ r.status \in Accepts[x.at]
  BY DEF MarkNormalizing, MarkTranscribing, SaveTranscript, MarkDiarizing,
         SaveDiarization, MarkSummarizing, Summarize, Writes
<1>2. x.at \in BusyPoints /\ r.status # "deleted"
  BY <1>1, Points, SMT DEF Accepts
<1>3. x \in Worker /\ m \in Meetings /\ r \in Row /\ RowSound(r) /\ Fits(x, r)
  BY <1>2, BusyMeeting DEF MeetingSound
<1>4. r.status \in Expected[x.at] /\ r.status \in Accepts[x.at]
  BY <1>1, <1>3 DEF Fits
<1>5. r.status \in Stages /\ r.status \notin {"pending", "error"}
  BY <1>1, <1>4, SMT DEF Expected, Stages
<1>6. r.resume = "none" /\ r.failedAt = "none"
  BY <1>3, <1>5 DEF RowSound
<1>7. CASE MarkNormalizing(w)
  <2> DEFINE s == NormalizationStarted(r)
  <2>1. r.status = "normalizing"
    BY <1>4, <1>7, SMT DEF MarkNormalizing, Writes, Expected
  <2>2. s \in Row /\ Stays(r, s)
    BY <1>3, <1>6, <2>1, NormalizationStartedFacts DEF Stays
  <2>3. QED
    BY <1>3, <1>7, <2>2, SetRowMoves DEF MarkNormalizing, Moves
<1>8. CASE MarkTranscribing(w)
  <2> DEFINE s == TranscriptionStarted(r)
  <2>1. r.status \in {"normalizing", "transcribing"}
    BY <1>4, <1>8, SMT DEF MarkTranscribing, Writes, Expected
  <2>2. s \in Row /\ (Stays(r, s) \/ Advanced(r, s))
    BY <1>3, <1>6, <2>1, TranscriptionStartedFacts DEF Stays, Advanced
  <2>3. QED
    BY <1>3, <1>8, <2>2, SetRowMoves DEF MarkTranscribing, Moves
<1>9. CASE SaveTranscript(w)
  <2>1. PICK d \in Detectable \union {"none"} : SetRow(m, TranscriptionSucceeded(r, d))
    BY <1>3, <1>9, ColumnValues, Zenon DEF SaveTranscript, Worker
  <2> DEFINE s == TranscriptionSucceeded(r, d)
  <2>2. r.status = "transcribing"
    BY <1>4, <1>9, SMT DEF SaveTranscript, Writes, Expected
  <2>3. s \in Row /\ Advanced(r, s)
    BY <1>3, <1>6, <2>2, TranscriptionSucceededFacts DEF Advanced
  <2>4. QED
    BY <1>3, <2>1, <2>3, SetRowMoves DEF Moves
<1>10. CASE MarkDiarizing(w)
  <2> DEFINE s == DiarizationStarted(r)
  <2>1. r.status = "diarizing"
    BY <1>4, <1>10, SMT DEF MarkDiarizing, Writes, Expected
  <2>2. s \in Row /\ Stays(r, s)
    BY <1>3, <1>6, <2>1, DiarizationStartedFacts DEF Stays
  <2>3. QED
    BY <1>3, <1>10, <2>2, SetRowMoves DEF MarkDiarizing, Moves
<1>11. CASE SaveDiarization(w)
  <2> DEFINE s == DiarizationSucceeded(r)
  <2>1. r.status = "diarizing"
    BY <1>4, <1>11, SMT DEF SaveDiarization, Writes, Expected
  <2>2. s \in Row /\ Advanced(r, s)
    BY <1>3, <1>6, <2>1, DiarizationSucceededFacts DEF Advanced
  <2>3. QED
    BY <1>3, <1>11, <2>2, SetRowMoves DEF SaveDiarization, Moves
<1>12. CASE MarkSummarizing(w)
  <2> DEFINE s == SummarizationStarted(r)
  <2>1. r.status = "summarizing"
    BY <1>4, <1>12, SMT DEF MarkSummarizing, Writes, Expected
  <2>2. s \in Row /\ Stays(r, s)
    BY <1>3, <1>6, <2>1, SummarizationStartedFacts DEF Stays
  <2>3. QED
    BY <1>3, <1>12, <2>2, SetRowMoves DEF MarkSummarizing, Moves
<1>13. CASE Summarize(w)
  <2> DEFINE s == SummarizationSucceeded(r)
  <2>1. r.status = "summarizing"
    BY <1>4, <1>13, SMT DEF Summarize, Writes, Expected
  <2>2. s \in Row /\ Advanced(r, s)
    BY <1>3, <1>6, <2>1, SummarizationSucceededFacts DEF Advanced
  <2>3. QED
    BY <1>3, <1>13, <2>2, SetRowMoves DEF Summarize, Moves
<1>14. QED
  BY <1>7, <1>8, <1>9, <1>10, <1>11, <1>12, <1>13

\* The other steps of a worker.
LEMMA WorkerMovesRow ==
  ASSUME SystemInv, NEW w \in Workers, WorkerStep(w) \/ DatabaseError(w)
  PROVE  OneMoves
<1> DEFINE x == worker[w]
           m == x.m
           r == row[m]
<1>1. ASSUME x.at \in BusyPoints
      PROVE  /\ m \in Meetings /\ r \in Row /\ RowSound(r)
             /\ r.status = "deleted" \/ Fits(x, r)
  BY <1>1, BusyMeeting DEF MeetingSound
<1>2. CASE Claim(w)
  <2>1. PICK k \in Meetings :
          /\ row[k] \in Row
          /\ PipelineClaimable(row[k]) \/ RegenerationClaimable(row[k])
          /\ SetRow(k, Claimed(row[k]))
    BY <1>2, ClaimFacts, Zenon DEF SystemInv
  <2>2. RowSound(row[k])
    BY DEF SystemInv, DataSound, MeetingsSound, MeetingSound
  <2>3. Claimed(row[k]) \in Row
    BY <2>1, ClaimAgrees
  <2>4. QED
    BY <2>1, <2>2, <2>3, ClaimMoves, SetRowMoves
<1>3. CASE ReportProgress(w)
  <2>1. PICK p \in ProgressMarks : SetRow(m, TranscriptionProgressed(r, p))
    BY <1>3 DEF ReportProgress
  <2>2. p \in -1 .. 100
    BY PipelineAssumption, SMT
  <2>3. x.at \in BusyPoints
    BY <1>3, Points, SMT DEF ReportProgress
  <2>4. /\ TranscriptionProgressed(r, p) \in Row
        /\ Stays(r, TranscriptionProgressed(r, p))
    BY <1>1, <2>2, <2>3, TranscriptionProgressedFacts DEF Stays
  <2>5. QED
    BY <1>1, <2>1, <2>3, <2>4, SetRowMoves DEF Moves
<1>4. CASE Regenerate(w)
  <2>1. x.at \in BusyPoints
    BY <1>4, Points, SMT DEF Regenerate
  <2>2. /\ RegenerationSucceeded(r) \in Row
        /\ Revised(r, RegenerationSucceeded(r))
    BY <1>1, <1>4, <2>1, RegenerationSucceededFacts DEF Regenerate, Revised
  <2>3. QED
    BY <1>1, <1>4, <2>1, <2>2, SetRowMoves DEF Regenerate, Moves
<1>5. CASE StageFails(w) /\ r.status \in NonTerminal
  <2>1. x.at \in BusyPoints
    BY <1>5, Points, SMT DEF StageFails
  <2>2. PICK kind \in FailureKinds[x.at] :
          SetRow(m, Failed(r, kind, FailureStage[x.at]))
    BY <1>5 DEF StageFails
  <2>3. kind \in ErrorKinds
    BY <1>5, <2>2, FailuresTyped DEF StageFails
  <2>4. r.status # "deleted" /\ r.status \in Expected[x.at]
    BY <1>1, <1>5, <2>1, SMT DEF NonTerminal, Stages, Fits
  <2>5. r.status = FailureStage[x.at] /\ r.status \in Stages
    BY <1>5, <2>4, Points, SMT DEF StageFails, Expected, FailureStage, Stages
  <2> DEFINE s == Failed(r, kind, r.status)
  <2>6. r.resume = "none"
    BY <1>1, <2>1, <2>5, StageRow DEF RowSound
  <2>7. s \in Row /\ FailedThere(r, s)
    BY <1>1, <2>1, <2>3, <2>5, <2>6, FailedFacts DEF FailedThere, SameSummaries
  <2>8. SetRow(m, s)
    BY <2>2, <2>5
  <2> HIDE DEF s
  <2>9. QED
    BY <1>1, <2>1, <2>7, <2>8, SetRowMoves DEF Moves
<1>6. CASE RegenerationFails(w) /\ r.status = "done" /\ r.regen = "processing"
  <2>1. x.at \in BusyPoints
    BY <1>6, Points, SMT DEF RegenerationFails
  <2>2. RegenerationFailed(r) \in Row /\ Regenerating(r, RegenerationFailed(r))
    BY <1>1, <1>6, <2>1, RegenerationFailedFacts DEF Regenerating
  <2>3. QED
    BY <1>1, <1>6, <2>1, <2>2, SetRowMoves DEF RegenerationFails, Moves
<1>7. CASE UNCHANGED row
  BY <1>7 DEF OneMoves
<1>8. CASE \/ StageFails(w) /\ r.status \notin NonTerminal
           \/ RegenerationFails(w) /\ ~(r.status = "done" /\ r.regen = "processing")
           \/ StartWorker(w) \/ Convert(w) \/ Cleanup(w) \/ Transcribe(w)
           \/ LoadSegments(w) \/ Diarize(w) \/ WriteRefused(w) \/ DatabaseError(w)
  BY <1>7, <1>8
     DEF StageFails, RegenerationFails, StartWorker, Convert, Cleanup, Transcribe,
         LoadSegments, Diarize, WriteRefused, DatabaseError
<1>9. QED
  BY <1>2, <1>3, <1>4, <1>5, <1>6, <1>8, StatusWriteMoves DEF WorkerStep, Stage

\* The requests of the web app.
LEMMA RequestMovesRow ==
  ASSUME SystemInv, NEW h \in Handlers, RequestStep(h)
  PROVE  OneMoves
<1> DEFINE m == handler[h].m
           u == handler[h].update
           r == row[m]
<1>1. handler[h].op # "none"
  BY DEF RequestStep, RetryWrite, LanguageWrite, DeleteFiles, DeleteRow
<1>2. m \in Meetings /\ RequestFresh(handler[h], r)
  BY <1>1 DEF SystemInv, TypeInv, DataSound, RequestsSound
<1>3. r \in Row /\ RowSound(r)
  BY <1>2 DEF SystemInv, TypeInv, TypeOK, DataSound, MeetingsSound, MeetingSound
<1>4. CASE RetryWrite(h)
  <2>1. CASE r.status = "error" /\ SetRow(m, Retried(r, u))
    <3>1. PICK lang \in Languages : u = RetryUpdate(r, lang)
      BY <1>2, <1>4, <2>1 DEF RequestFresh, RetryWrite
    <3>2. Retried(r, u) \in Row /\ Moves(r, Retried(r, u))
      BY <1>3, <2>1, <3>1, RetriedMoves
    <3>3. QED
      BY <1>2, <2>1, <3>2, SetRowMoves
  <2>2. QED
    BY <1>4, <2>1 DEF RetryWrite, OneMoves
<1>5. CASE LanguageWrite(h)
  <2>1. CASE r.status = "pending" /\ SetRow(m, LanguageUpdated(r, u))
    <3>1. PICK lang \in Languages : u = PendingLanguageUpdate(r, lang)
      BY <1>2, <1>5, <2>1 DEF RequestFresh, LanguageWrite
    <3>2. LanguageUpdated(r, u) \in Row /\ Moves(r, LanguageUpdated(r, u))
      BY <1>3, <2>1, <3>1, LanguageUpdatedMoves
    <3>3. QED
      BY <1>2, <2>1, <3>2, SetRowMoves
  <2>2. QED
    BY <1>5, <2>1 DEF LanguageWrite, OneMoves
<1>6. CASE DeleteFiles(h)
  BY <1>6 DEF DeleteFiles, OneMoves
<1>7. CASE DeleteRow(h)
  <2>1. Stays(r, DeletedRow) \/ Removed(r, DeletedRow)
    <3>1. r.status # "absent"
      BY <1>2 DEF RequestFresh
    <3>2. CASE r.status = "deleted"
      BY <1>3, <3>2, DeletedRowFacts DEF RowSound, Stays
    <3>3. CASE r.status # "deleted"
      BY <3>1, <3>3, DeletedRowFacts DEF Removed
    <3>4. QED
      BY <3>2, <3>3
  <2>2. QED
    BY <1>2, <1>7, <2>1, DeletedRowFacts, SetRowMoves DEF DeleteRow, Moves
<1>8. QED
  BY <1>4, <1>5, <1>6, <1>7 DEF RequestStep

\* Uploads, regenerations, titles and time.
LEMMA MeetingMovesRow ==
  ASSUME SystemInv, NEW m \in Meetings,
         Upload(m) \/ RegenerateSummary(m) \/ UpdateTitle(m) \/ Age(m)
  PROVE  OneMoves
<1> DEFINE r == row[m]
<1>1. r \in Row /\ RowSound(r)
  BY DEF SystemInv, TypeInv, TypeOK, DataSound, MeetingsSound, MeetingSound
<1>2. CASE Upload(m)
  <2>1. PICK lang \in Languages : SetRow(m, PendingRow(lang))
    BY <1>2 DEF Upload
  <2>2. PendingRow(lang) \in Row /\ Submitted(r, PendingRow(lang))
    BY <1>1, <1>2, PendingRowFacts DEF Upload, RowSound, Submitted
  <2>3. QED
    BY <2>1, <2>2, SetRowMoves DEF Moves
<1>3. CASE RegenerateSummary(m)
  <2>1. RegenerationQueued(r) \in Row /\ Regenerating(r, RegenerationQueued(r))
    BY <1>1, <1>3, RegenerationQueuedFacts
       DEF RegenerateSummary, CanQueueRegeneration, Regenerating
  <2>2. QED
    BY <1>3, <2>1, SetRowMoves DEF RegenerateSummary, Moves
<1>4. CASE UpdateTitle(m)
  <2>1. TitleUpdated(r) \in Row /\ Stays(r, TitleUpdated(r))
    BY <1>1, TitleUpdatedFacts DEF Stays
  <2>2. QED
    BY <1>4, <2>1, SetRowMoves DEF UpdateTitle, Moves
<1>5. CASE Age(m)
  <2> DEFINE s == [r EXCEPT !.overdue = TRUE]
  <2>1. s \in Row /\ Stays(r, s)
    BY <1>1, AgedFacts DEF Stays
  <2>2. SetRow(m, s)
    BY <1>5, Zenon DEF Age, SetRow
  <2> HIDE DEF s
  <2>3. QED
    BY <2>1, <2>2, SetRowMoves DEF Moves
<1>6. QED
  BY <1>2, <1>3, <1>4, <1>5

\* Every step of the pipeline moves at most one row.
LEMMA StepMoves ==
  ASSUME SystemInv, [Next]_vars
  PROVE  OneMoves
<1>1. CASE \E w \in Workers : WorkerStep(w)
  BY <1>1, WorkerMovesRow
<1>2. CASE \E h \in Handlers : RequestStep(h)
  BY <1>2, RequestMovesRow
<1>3. CASE \E m \in Meetings : Age(m)
  BY <1>3, MeetingMovesRow
<1>4. CASE Request
  BY <1>4, MeetingMovesRow
     DEF Request, RetryRead, LanguageRead, DeleteFind, OneMoves
<1>5. CASE Fault
  BY <1>5 DEF Fault, CrashWorker, DatabaseError, RequestDies, OneMoves
<1>6. CASE UNCHANGED vars
  BY <1>6 DEF vars, OneMoves
<1>7. QED
  BY <1>1, <1>2, <1>3, <1>4, <1>5, <1>6 DEF Next

-----------------------------------------------------------------------------
(* What follows for the user.                                               *)

\* Retry puts a failed meeting back at the stage it failed at, or at transcription
\* when the language was changed too: the stage is the one the row failed at when
\* the write reaches it, not the one the request read.
THEOREM RetryResumes == Spec /\ []OneUpdatePerMeeting => RetryResumesFailedStage
<1> DEFINE Resumes == \A m \in Meetings :
             row[m].status = "error" /\ row'[m].status = "pending" =>
               \/ row'[m].resume = row[m].failedAt
               \/ row'[m].resume = "transcribing" /\ row'[m].lang # row[m].lang
<1>1. ASSUME OneMoves PROVE Resumes
  <2>1. \A r, s : /\ Moves(r, s) /\ r.status = "error" /\ s.status = "pending"
                  => Requeued(r, s)
    BY SMT DEF Moves, Stays, Regenerating, Submitted, Entered, Advanced, FailedThere, Retargeted,
               Revised, Removed, Stages
  <2>2. QED
    BY <1>1, <2>1 DEF OneMoves, Requeued
<1>2. SystemInv /\ [Next]_vars => Resumes
  BY <1>1, StepMoves
<1>3. QED
  BY <1>2, SystemSound, PTL DEF Spec, RetryResumesFailedStage

\* A column of the rows, as the refinement mapping takes it, after a step that
\* changes the row of meeting m only.
LEMMA ColumnsChange ==
  ASSUME NEW m \in Meetings, \A k \in Meetings : k # m => row'[k] = row[k]
  PROVE  /\ [k \in Meetings |-> row'[k].status] =
              [[k \in Meetings |-> row[k].status] EXCEPT ![m] = row'[m].status]
         /\ [k \in Meetings |-> row'[k].resume] =
              [[k \in Meetings |-> row[k].resume] EXCEPT ![m] = row'[m].resume]
         /\ [k \in Meetings |-> row'[k].failedAt] =
              [[k \in Meetings |-> row[k].failedAt] EXCEPT ![m] = row'[m].failedAt]
         /\ [k \in Meetings |-> row'[k].latest] =
              [[k \in Meetings |-> row[k].latest] EXCEPT ![m] = row'[m].latest]
  BY Zenon

\* A column of the table whose one changed row agrees in it is as it was.
LEMMA ColumnsStay ==
  ASSUME NEW m \in Meetings, \A k \in Meetings : k # m => row'[k] = row[k]
  PROVE  /\ row'[m].status = row[m].status =>
              [k \in Meetings |-> row'[k].status] = [k \in Meetings |-> row[k].status]
         /\ row'[m].resume = row[m].resume =>
              [k \in Meetings |-> row'[k].resume] = [k \in Meetings |-> row[k].resume]
         /\ row'[m].failedAt = row[m].failedAt =>
              [k \in Meetings |-> row'[k].failedAt] =
                [k \in Meetings |-> row[k].failedAt]
         /\ row'[m].latest = row[m].latest =>
              [k \in Meetings |-> row'[k].latest] = [k \in Meetings |-> row[k].latest]
  BY SMT

\* Without meetings both begin the same.
LEMMA LifecycleInitially == Init => Lifecycle!LifecycleInit
  BY NoRowFacts DEF Init, Lifecycle!LifecycleInit

\* Each transition of the row is the action of the same meaning of the lifecycle.
LEMMA LifecycleActions ==
  ASSUME NEW m \in Meetings, \A k \in Meetings : k # m => row'[k] = row[k]
  PROVE  /\ Stays(row[m], row'[m]) \/ Regenerating(row[m], row'[m]) =>
              UNCHANGED Lifecycle!lifecycle
         /\ Submitted(row[m], row'[m]) => Lifecycle!Submit(m)
         /\ Entered(row[m], row'[m]) => Lifecycle!Enter(m)
         /\ Advanced(row[m], row'[m]) => Lifecycle!Advance(m)
         /\ FailedThere(row[m], row'[m]) => Lifecycle!Fail(m)
         /\ Requeued(row[m], row'[m]) => Lifecycle!Retry(m)
         /\ Retargeted(row[m], row'[m]) => Lifecycle!Retarget(m)
         /\ Revised(row[m], row'[m]) => Lifecycle!Revise(m)
         /\ Removed(row[m], row'[m]) => Lifecycle!Delete(m)
<1>1. Stays(row[m], row'[m]) \/ Regenerating(row[m], row'[m]) =>
        UNCHANGED Lifecycle!lifecycle
  BY ColumnsStay DEF Stays, Regenerating, Lifecycle!lifecycle
<1>2. Submitted(row[m], row'[m]) => Lifecycle!Submit(m)
  BY ColumnsChange, ColumnsStay DEF Submitted, Lifecycle!Submit
<1>3. Entered(row[m], row'[m]) => Lifecycle!Enter(m)
  BY ColumnsChange, ColumnsStay, ZenonT(30) DEF Entered, SameSummaries, Lifecycle!Enter
<1>4. Advanced(row[m], row'[m]) => Lifecycle!Advance(m)
  <2> SUFFICES ASSUME Advanced(row[m], row'[m]) PROVE Lifecycle!Advance(m)
    OBVIOUS
  <2>1. /\ row[m].status \in DOMAIN Lifecycle!Successor
        /\ row'[m].status = Lifecycle!Successor[row[m].status]
        /\ row'[m].latest = IF row[m].status = "summarizing" THEN 1 ELSE row[m].latest
    BY SMT DEF Advanced, Lifecycle!Successor
  <2>2. row'[m].resume = row[m].resume /\ row'[m].failedAt = row[m].failedAt
    BY DEF Advanced
  <2>3. Lifecycle!Working(m)
    BY <2>1 DEF Lifecycle!Working
  <2>4. [k \in Meetings |-> row'[k].status] =
          [[k \in Meetings |-> row[k].status]
             EXCEPT ![m] = Lifecycle!Successor[row[m].status]]
    BY <2>1, ColumnsChange
  <2>5. [k \in Meetings |-> row'[k].latest] =
          [[k \in Meetings |-> row[k].latest]
             EXCEPT ![m] = IF row[m].status = "summarizing" THEN 1 ELSE row[m].latest]
    BY <2>1, ColumnsChange
  <2>6. QED
    BY <2>2, <2>3, <2>4, <2>5, ColumnsStay DEF Lifecycle!Advance
<1>5. FailedThere(row[m], row'[m]) => Lifecycle!Fail(m)
  BY ColumnsChange, ColumnsStay
     DEF FailedThere, SameSummaries, Lifecycle!Fail, Lifecycle!Working, Lifecycle!Successor, Stages
<1>6. Requeued(row[m], row'[m]) => Lifecycle!Retry(m)
  BY ColumnsChange, ColumnsStay DEF Requeued, SameSummaries, Lifecycle!Retry
<1>7. Retargeted(row[m], row'[m]) => Lifecycle!Retarget(m)
  BY ColumnsChange, ColumnsStay DEF Retargeted, SameSummaries, Lifecycle!Retarget
<1>8. Revised(row[m], row'[m]) => Lifecycle!Revise(m)
  BY ColumnsChange, ColumnsStay DEF Revised, Lifecycle!Revise
<1>9. Removed(row[m], row'[m]) => Lifecycle!Delete(m)
  BY ColumnsChange DEF Removed, Lifecycle!Delete
<1>10. QED
  BY <1>1, <1>2, <1>3, <1>4, <1>5, <1>6, <1>7, <1>8, <1>9

\* What moves one row is a step of the state machine.
LEMMA LifecycleStep ==
  ASSUME OneMoves
  PROVE  [Lifecycle!LifecycleNext]_(Lifecycle!lifecycle)
<1>1. CASE UNCHANGED row
  BY <1>1 DEF Lifecycle!lifecycle
<1>2. CASE \E m \in Meetings : /\ \A k \in Meetings : k # m => row'[k] = row[k]
                               /\ Moves(row[m], row'[m])
  BY <1>2, LifecycleActions DEF Moves, Lifecycle!LifecycleNext
<1>3. QED
  BY <1>1, <1>2 DEF OneMoves

\* Seen through the four columns a user can observe, the pipeline is the state
\* machine of ADR 0007: crashes, refused writes, reclaimed rows and requests that
\* overlap the worker show up as nothing or as a step of that machine.
THEOREM LifecycleImplemented == Spec /\ []OneUpdatePerMeeting => ImplementsLifecycle
<1>1. Init => Lifecycle!LifecycleInit
  BY LifecycleInitially
<1>2. SystemInv /\ [Next]_vars => [Lifecycle!LifecycleNext]_(Lifecycle!lifecycle)
  BY StepMoves, LifecycleStep
<1>3. QED
  BY <1>1, <1>2, SystemSound, PTL
     DEF Spec, ImplementsLifecycle, Lifecycle!LifecycleSpec

-----------------------------------------------------------------------------
(* What a tab sees.  MeetingPage and HomePage have the worker and the other *)
(* tabs as a few actions on the columns they read.  Here these are shown to *)
(* be all that the pipeline does to those columns.                          *)

\* The columns of a meeting and the labels of its transcript as MeetingPage has them
\* (names and titles are not in the pipeline).
Columns(status, regen, version, label) ==
  [status |-> status, regen |-> regen, version |-> version, label |-> label,
   name |-> "none", title |-> "first"]

RegenOnPage(regen) == IF regen \in {"pending", "processing"} THEN "active" ELSE regen

OnPage(r, t) ==
  IF Present(r)
  THEN Columns(IF r.status \in NonTerminal THEN "busy" ELSE r.status,
               RegenOnPage(r.regen), r.latest, t.diarized)
  ELSE Columns("gone", "idle", 0, FALSE)

\* ... and its status as the list of HomePage has it.
InList(r) ==
  IF ~Present(r) THEN "absent"
  ELSE IF r.status \in NonTerminal THEN "active" ELSE "ended"

\* A tab that shows meeting m and does nothing of its own.
Page(m) == INSTANCE MeetingPage WITH
  MaxVersion <- MaxVersions + 1, visit <- "forms", db <- OnPage(row[m], transcript[m]),
  load <- "none", page <- "none", notice <- "none", form <- "none",
  heading <- "none", editor <- "none", save <- "none"

Home(m) == INSTANCE HomePage WITH
  other <- InList(row[m]), row <- "absent", up <- "none", dir <- "none",
  list <- "none", tab <- "none", loader <- "none", poll <- "none"

\* The pipeline moves meeting m only as the tabs expect.
PageIsServed(m) ==
  \/ UNCHANGED OnPage(row[m], transcript[m])
  \/ row[m].status = "absent" /\ OnPage(row[m], transcript[m])' = Page(m)!Uploaded
  \/ Page(m)!WorkerWorks
  \/ Page(m)!OtherTabActs

HomeIsServed(m) ==
  \/ UNCHANGED InList(row[m])
  \/ Home(m)!OtherStarts
  \/ Home(m)!MeetingEnds
  \/ InList(row[m])' = "absent"

\* What a page takes for granted of a meeting: only a finished one is regenerated, the
\* bound leaves room for the version that is made, and a new one has no transcript.
ShownSound(r, t) ==
  /\ r.regen # "idle" => r.status \in {"done", "deleted"}
  /\ r.status = "done" /\ r.regen \in {"pending", "processing"} =>
       r.latest < MaxVersions
  /\ r.status = "absent" => ~t.diarized

ShownInv == \A m \in Meetings : ShownSound(row[m], transcript[m])

\* A step of the worker or of another tab on the columns o that a page reads.
PageMoves(o, p) ==
  \/ o.status = "busy" /\ p \in {[o EXCEPT !.label = FALSE], [o EXCEPT !.label = TRUE]}
  \/ o.status = "busy" /\ p = [o EXCEPT !.status = "error"]
  \/ o.status = "busy" /\ o.label /\ p = [o EXCEPT !.status = "done", !.version = 1]
  \/ o.regen = "active" /\ o.version < MaxVersions + 1
       /\ p = [o EXCEPT !.regen = "idle", !.version = @ + 1]
  \/ o.regen = "active" /\ p = [o EXCEPT !.regen = "failed"]
  \/ o.status = "error" /\ p = [o EXCEPT !.status = "busy"]
  \/ o.status = "done" /\ o.regen # "active" /\ p = [o EXCEPT !.regen = "active"]
  \/ o.status # "gone" /\ p = Columns("gone", "idle", 0, FALSE)

\* What the step does to the transcript t, of which it leaves u.
TranscriptMoves(r, s, t, u) ==
  \/ u = t
  \/ r.status \in NonTerminal /\ s.status \in NonTerminal
  \/ s.status = "deleted"

LEMMA OnPageFacts ==
  ASSUME NEW r \in Row, NEW t
  PROVE  /\ r.status \in NonTerminal =>
              OnPage(r, t) = Columns("busy", RegenOnPage(r.regen), r.latest, t.diarized)
         /\ r.status \in {"done", "error"} =>
              OnPage(r, t) = Columns(r.status, RegenOnPage(r.regen), r.latest, t.diarized)
         /\ r.status \in {"absent", "deleted"} =>
              OnPage(r, t) = Columns("gone", "idle", 0, FALSE)
<1>1. r.status \in NonTerminal => Present(r) /\ r.status \notin {"done", "error"}
  BY SMT DEF Present, Statuses, NonTerminal, Stages
<1>2. r.status \in {"done", "error"} => Present(r) /\ r.status \notin NonTerminal
  BY SMT DEF Present, Statuses, NonTerminal, Stages
<1>3. r.status \in {"absent", "deleted"} => ~Present(r)
  BY SMT DEF Present, Statuses, NonTerminal, Stages
<1>4. QED
  BY <1>1, <1>2, <1>3, Zenon DEF OnPage

LEMMA BecomesDone ==
  ASSUME NEW x, NEW v, NEW l
  PROVE  Columns("done", x, 1, l) =
           [Columns("busy", x, v, l) EXCEPT !.status = "done", !.version = 1]
<1>1. Columns("done", x, v, l) = [Columns("busy", x, v, l) EXCEPT !.status = "done"]
  BY Z3 DEF Columns
<1>2. Columns("done", x, 1, l) = [Columns("done", x, v, l) EXCEPT !.version = 1]
  BY Z3 DEF Columns
<1>3. Columns("done", x, 1, l) =
        [[Columns("busy", x, v, l) EXCEPT !.status = "done"] EXCEPT !.version = 1]
  BY <1>1, <1>2, Zenon
<1>4. QED
  BY <1>3

LEMMA BecomesRevised ==
  ASSUME NEW v, NEW l
  PROVE  Columns("done", "idle", v + 1, l) =
           [Columns("done", "active", v, l) EXCEPT !.regen = "idle", !.version = @ + 1]
<1>1. Columns("done", "idle", v, l) =
        [Columns("done", "active", v, l) EXCEPT !.regen = "idle"]
  BY Z3 DEF Columns
<1>2. Columns("done", "idle", v + 1, l) =
        [Columns("done", "idle", v, l) EXCEPT !.version = v + 1]
  BY Z3 DEF Columns
<1>3. Columns("done", "idle", v + 1, l) =
        [[Columns("done", "active", v, l) EXCEPT !.regen = "idle"] EXCEPT !.version = v + 1]
  BY <1>1, <1>2, Zenon
<1>4. Columns("done", "active", v, l).version = v
  BY Z3 DEF Columns
<1>5. QED
  BY <1>3, <1>4

\* A transition of the row, with what it does to the transcript, is a step on what
\* the page reads.
LEMMA ShownStep ==
  ASSUME NEW r \in Row, NEW s \in Row, NEW t \in Transcript, NEW u \in Transcript,
         RowSound(r), ShownSound(r, t), Moves(r, s), TranscriptMoves(r, s, t, u),
         s.status = "done" => u.diarized
  PROVE  LET o == OnPage(r, t)
             p == OnPage(s, u)
         IN  \/ p = o
             \/ /\ r.status = "absent" /\ s.status = "pending"
                /\ s.latest = 0 /\ s.regen = "idle" /\ ~u.diarized
             \/ PageMoves(o, p)
<1> DEFINE o == OnPage(r, t)
           p == OnPage(s, u)
           gone == Columns("gone", "idle", 0, FALSE)
<1>1. /\ r.status \in NonTerminal => o = Columns("busy", RegenOnPage(r.regen), r.latest, t.diarized)
      /\ r.status \in {"done", "error"} =>
           o = Columns(r.status, RegenOnPage(r.regen), r.latest, t.diarized)
      /\ r.status \in {"absent", "deleted"} => o = gone
  BY OnPageFacts
<1>2. /\ s.status \in NonTerminal => p = Columns("busy", RegenOnPage(s.regen), s.latest, u.diarized)
      /\ s.status \in {"done", "error"} =>
           p = Columns(s.status, RegenOnPage(s.regen), s.latest, u.diarized)
      /\ s.status \in {"absent", "deleted"} => p = gone
  BY OnPageFacts
<1>3. /\ r.status \in NonTerminal \union {"done", "error", "absent", "deleted"}
      /\ s.status \in NonTerminal \union {"done", "error", "absent", "deleted"}
      /\ r.regen \in {"idle", "pending", "processing", "failed"}
      /\ s.regen \in {"idle", "pending", "processing", "failed"}
      /\ r.latest \in Nat /\ s.latest \in Nat
      /\ t.diarized \in BOOLEAN /\ u.diarized \in BOOLEAN
  BY Zenon DEF Row, Transcript, Statuses, RegenerationStatuses
<1> SUFFICES \/ p = o
             \/ /\ r.status = "absent" /\ s.status = "pending"
                /\ s.latest = 0 /\ s.regen = "idle" /\ ~u.diarized
             \/ PageMoves(o, p)
  OBVIOUS
<1> HIDE DEF o, p
<1>4. ASSUME r.status \in NonTerminal, s.status \in NonTerminal,
             s.regen = r.regen, s.latest = r.latest
      PROVE  PageMoves(o, p)
  <2>1. o.status = "busy" /\ p = [o EXCEPT !.label = u.diarized]
    BY <1>1, <1>2, <1>4 DEF Columns
  <2>2. QED
    BY <1>3, <2>1 DEF PageMoves
<1>5. CASE Stays(r, s)
  <2>1. CASE r.status \in NonTerminal
    BY <1>4, <1>5, <2>1, SMT DEF Stays, NonTerminal, Stages
  <2>2. CASE r.status \in {"done", "error"}
    <3>1. t = u
      BY <1>5, <2>2, SMT DEF Stays, TranscriptMoves, NonTerminal, Stages
    <3>2. s.status = r.status /\ s.regen = r.regen /\ s.latest = r.latest
      BY <1>5, <2>2 DEF Stays
    <3>3. QED
      BY <1>1, <1>2, <2>2, <3>1, <3>2
  <2>3. CASE r.status \in {"absent", "deleted"}
    BY <1>1, <1>2, <1>5, <2>3 DEF Stays
  <2>4. QED
    BY <1>3, <2>1, <2>2, <2>3
<1>6. CASE Regenerating(r, s)
  <2>1. t = u
    BY <1>6, SMT DEF Regenerating, TranscriptMoves, NonTerminal, Stages
  <2>2. /\ o = Columns("done", RegenOnPage(r.regen), r.latest, t.diarized)
        /\ p = Columns("done", RegenOnPage(s.regen), r.latest, t.diarized)
    BY <1>1, <1>2, <1>6, <2>1 DEF Regenerating
  <2>3. CASE r.regen \in {"idle", "failed"} /\ s.regen = "pending"
    <3>1. o.status = "done" /\ o.regen # "active" /\ p = [o EXCEPT !.regen = "active"]
      BY <2>2, <2>3 DEF Columns, RegenOnPage
    <3>2. QED
      BY <3>1 DEF PageMoves
  <2>4. CASE r.regen \in {"pending", "processing"} /\ s.regen = "processing"
    BY <2>2, <2>4 DEF RegenOnPage
  <2>5. CASE r.regen = "processing" /\ s.regen = "failed"
    <3>1. o.regen = "active" /\ p = [o EXCEPT !.regen = "failed"]
      BY <2>2, <2>5 DEF Columns, RegenOnPage
    <3>2. QED
      BY <3>1 DEF PageMoves
  <2>6. QED
    BY <1>6, <2>3, <2>4, <2>5 DEF Regenerating
<1>7. CASE Submitted(r, s)
  <2>1. t = u
    BY <1>7, SMT DEF Submitted, TranscriptMoves, NonTerminal, Stages
  <2>2. r.latest = 0 /\ ~t.diarized
    BY <1>7 DEF Submitted, RowSound, ShownSound
  <2>3. QED
    BY <1>7, <2>1, <2>2 DEF Submitted
<1>8. CASE Entered(r, s)
  <2>1. r.status \in NonTerminal /\ s.status \in NonTerminal
    <3>1. r.resume \in Stages \union {"none"}
      BY Zenon DEF Row
    <3>2. QED
      BY <1>8, <3>1, SMT DEF Entered, NonTerminal, Stages
  <2>2. QED
    BY <1>4, <1>8, <2>1 DEF Entered, SameSummaries
<1>9. CASE Advanced(r, s)
  <2>1. CASE s.status # "done"
    <3>1. /\ r.status \in NonTerminal /\ s.status \in NonTerminal
          /\ s.regen = r.regen /\ s.latest = r.latest
      BY <1>9, <2>1, SMT DEF Advanced, NonTerminal, Stages
    <3>2. QED
      BY <1>4, <3>1
  <2>2. CASE s.status = "done"
    <3>1. r.status = "summarizing" /\ s.latest = 1 /\ s.regen = r.regen
      BY <1>9, <2>2, SMT DEF Advanced
    <3>2. t = u /\ r.status \in NonTerminal
      BY <2>2, <3>1, SMT DEF TranscriptMoves, NonTerminal, Stages
    <3>3. /\ o = Columns("busy", RegenOnPage(r.regen), r.latest, t.diarized)
          /\ p = Columns("done", RegenOnPage(r.regen), 1, t.diarized)
          /\ t.diarized
      BY <1>1, <1>2, <2>2, <3>1, <3>2
    <3>4. o.status = "busy" /\ o.label
      BY <3>3 DEF Columns
    <3>5. p = [o EXCEPT !.status = "done", !.version = 1]
      <4>1. Columns("done", RegenOnPage(r.regen), 1, t.diarized) =
              [Columns("busy", RegenOnPage(r.regen), r.latest, t.diarized)
                 EXCEPT !.status = "done", !.version = 1]
        BY BecomesDone
      <4>2. QED
        BY <3>3, <4>1, Zenon
    <3>6. QED
      BY <3>4, <3>5 DEF PageMoves
  <2>3. QED
    BY <2>1, <2>2
<1>10. CASE FailedThere(r, s)
  <2>1. t = u /\ r.status \in NonTerminal
    BY <1>10, SMT DEF FailedThere, TranscriptMoves, NonTerminal, Stages
  <2>2. o.status = "busy" /\ p = [o EXCEPT !.status = "error"]
    BY <1>1, <1>2, <1>10, <2>1 DEF FailedThere, SameSummaries, Columns
  <2>3. QED
    BY <2>2 DEF PageMoves
<1>11. CASE Requeued(r, s)
  <2>1. t = u /\ s.status \in NonTerminal
    BY <1>11, SMT DEF Requeued, TranscriptMoves, NonTerminal, Stages
  <2>2. o.status = "error" /\ p = [o EXCEPT !.status = "busy"]
    BY <1>1, <1>2, <1>11, <2>1 DEF Requeued, SameSummaries, Columns
  <2>3. QED
    BY <2>2 DEF PageMoves
<1>12. CASE Retargeted(r, s)
  <2>1. r.status \in NonTerminal /\ s.status \in NonTerminal
    BY <1>12, SMT DEF Retargeted, NonTerminal
  <2>2. QED
    BY <1>4, <1>12, <2>1 DEF Retargeted, SameSummaries
<1>13. CASE Revised(r, s)
  <2>1. t = u
    BY <1>13, SMT DEF Revised, TranscriptMoves, NonTerminal, Stages
  <2>2. r.latest < MaxVersions + 1
    <3>1. r.latest < MaxVersions
      BY <1>13 DEF Revised, ShownSound
    <3>2. QED
      BY <1>3, <3>1, PipelineAssumption, SMT
  <2>3. RegenOnPage("processing") = "active" /\ RegenOnPage("idle") = "idle"
    BY DEF RegenOnPage
  <2>4. /\ o = Columns("done", "active", r.latest, t.diarized)
        /\ p = Columns("done", "idle", r.latest + 1, t.diarized)
    BY <1>1, <1>2, <1>13, <2>1, <2>3 DEF Revised
  <2>5. o.regen = "active" /\ o.version = r.latest
    BY <2>4 DEF Columns
  <2>6. p = [o EXCEPT !.regen = "idle", !.version = @ + 1]
    BY <2>4, BecomesRevised, Zenon
  <2>7. QED
    BY <2>2, <2>5, <2>6 DEF PageMoves
<1>14. CASE Removed(r, s)
  <2>1. o.status # "gone" /\ p = gone
    BY <1>1, <1>2, <1>3, <1>14, SMT DEF Removed, Columns, NonTerminal, Stages
  <2>2. QED
    BY <2>1 DEF PageMoves
<1>15. QED
  BY <1>5, <1>6, <1>7, <1>8, <1>9, <1>10, <1>11, <1>12, <1>13, <1>14 DEF Moves

\* ... and what the pages take for granted is still so.
LEMMA ShownSoundStep ==
  ASSUME NEW r \in Row, NEW s \in Row, NEW t \in Transcript, NEW u \in Transcript,
         ShownSound(r, t), Moves(r, s), TranscriptMoves(r, s, t, u)
  PROVE  ShownSound(s, u)
<1>1. s.regen # "idle" => s.status \in {"done", "deleted"}
  BY SMT DEF ShownSound, Moves, Stays, Regenerating, Submitted, Entered, Advanced,
     FailedThere, Requeued, Retargeted, Revised, Removed, SameSummaries, Stages
<1>2. s.status = "done" /\ s.regen \in {"pending", "processing"} => s.latest < MaxVersions
  BY SMT DEF ShownSound, Moves, Stays, Regenerating, Submitted, Entered, Advanced,
     FailedThere, Requeued, Retargeted, Revised, Removed, SameSummaries, Stages, Row
<1>3. s.status = "absent" => ~u.diarized
  <2> SUFFICES ASSUME s.status = "absent" PROVE ~u.diarized
    OBVIOUS
  <2>1. r.resume \in Stages \union {"none"}
    BY Zenon DEF Row
  <2>2. r.status = "absent"
    BY <2>1, SMT DEF Moves, Stays, Regenerating, Submitted, Entered, Advanced,
       FailedThere, Requeued, Retargeted, Revised, Removed, Stages
  <2>3. u = t
    BY <2>2, SMT DEF TranscriptMoves, NonTerminal, Stages
  <2>4. QED
    BY <2>2, <2>3 DEF ShownSound
<1>4. QED
  BY <1>1, <1>2, <1>3 DEF ShownSound

\* The list sees less.
LEMMA ListedStep ==
  ASSUME NEW r \in Row, NEW s \in Row, Moves(r, s)
  PROVE  \/ InList(s) = InList(r)
         \/ InList(r) # "active" /\ InList(s) = "active"
         \/ InList(r) = "active" /\ InList(s) = "ended"
         \/ InList(s) = "absent"
<1>1. r.resume \in Stages \union {"none"}
  BY Zenon DEF Row
<1>2. QED
  BY <1>1, SMT DEF InList, Present, Statuses, NonTerminal, Moves, Stays, Regenerating,
     Submitted, Entered, Advanced, FailedThere, Requeued, Retargeted, Revised, Removed,
     Stages
-----------------------------------------------------------------------------
(* The steps of the pipeline, as the tabs see them.                         *)

LEMMA RowMoves ==
  ASSUME SystemInv, [Next]_vars, NEW m \in Meetings
  PROVE  Moves(row[m], row'[m])
<1>1. Moves(row[m], row[m])
  BY DEF Moves, Stays
<1>2. OneMoves
  BY StepMoves
<1>3. QED
  BY <1>1, <1>2, Zenon DEF OneMoves

\* A transcript changes while its meeting is worked on, and goes with the meeting.
LEMMA TranscriptStep ==
  ASSUME SystemInv, [Next]_vars, NEW m \in Meetings
  PROVE  TranscriptMoves(row[m], row'[m], transcript[m], transcript'[m])
<1>1. /\ row \in [Meetings -> Row] /\ transcript \in [Meetings -> Transcript]
  BY DEF SystemInv, TypeInv, TypeOK
<1>2. ASSUME NEW w \in Workers,
             MarkTranscribing(w) \/ SaveTranscript(w) \/ SaveDiarization(w)
      PROVE  TranscriptMoves(row[m], row'[m], transcript[m], transcript'[m])
  <2> DEFINE k == worker[w].m
  <2>1. worker[w].at \in {"markTranscribing", "saveTranscript", "saveDiarization"}
        /\ row[k].status \in Accepts[worker[w].at]
    BY <1>2 DEF MarkTranscribing, SaveTranscript, SaveDiarization, Writes
  <2>2. row[k].status \in NonTerminal
    BY <2>1, SMT DEF Accepts, NonTerminal, Stages
  <2>3. k \in Meetings /\ row[k] \in Row /\ worker[w] \in Worker
    BY <2>1, BusyMeeting, Points, SMT
  <2>4. PICK s \in Row : SetRow(k, s) /\ s.status \in NonTerminal
    <3>1. CASE MarkTranscribing(w)
      <4>1. /\ TranscriptionStarted(row[k]) \in Row
            /\ TranscriptionStarted(row[k]).status \in NonTerminal
        BY <2>3, TranscriptionStartedFacts DEF NonTerminal, Stages
      <4>2. QED
        BY <3>1, <4>1 DEF MarkTranscribing
    <3>2. CASE SaveTranscript(w)
      <4>1. PICK d \in Detectable \union {"none"} :
              SetRow(k, TranscriptionSucceeded(row[k], d))
        BY <2>3, <3>2, ColumnValues, Zenon DEF SaveTranscript, Worker
      <4>2. /\ TranscriptionSucceeded(row[k], d) \in Row
            /\ TranscriptionSucceeded(row[k], d).status \in NonTerminal
        BY <2>3, TranscriptionSucceededFacts DEF NonTerminal, Stages
      <4>3. QED
        BY <4>1, <4>2
    <3>3. CASE SaveDiarization(w)
      <4>1. /\ DiarizationSucceeded(row[k]) \in Row
            /\ DiarizationSucceeded(row[k]).status \in NonTerminal
        BY <2>3, DiarizationSucceededFacts DEF NonTerminal, Stages
      <4>2. QED
        BY <3>3, <4>1 DEF SaveDiarization
    <3>4. QED
      BY <1>2, <3>1, <3>2, <3>3
  <2>5. row'[k].status \in NonTerminal
    BY <1>1, <2>3, <2>4, SetRowFacts
  <2>6. m # k => transcript'[m] = transcript[m]
    BY <1>1, <1>2, <2>3, Zenon DEF MarkTranscribing, SaveTranscript, SaveDiarization
  <2>7. QED
    BY <2>2, <2>5, <2>6 DEF TranscriptMoves
<1>3. ASSUME NEW h \in Handlers, DeleteRow(h)
      PROVE  TranscriptMoves(row[m], row'[m], transcript[m], transcript'[m])
  <2> DEFINE k == handler[h].m
  <2>1. k \in Meetings
    BY <1>3 DEF DeleteRow, SystemInv, TypeInv
  <2>2. row'[k].status = "deleted"
    BY <1>1, <1>3, <2>1, DeletedRowFacts, SetRowFacts DEF DeleteRow
  <2>3. m # k => transcript'[m] = transcript[m]
    BY <1>1, <1>3, <2>1, Zenon DEF DeleteRow
  <2>4. QED
    BY <2>2, <2>3 DEF TranscriptMoves
<1>4. CASE UNCHANGED transcript
  BY <1>4 DEF TranscriptMoves
<1>5. ASSUME NEW w \in Workers, WorkerStep(w) \/ CrashWorker(w) \/ DatabaseError(w)
      PROVE  TranscriptMoves(row[m], row'[m], transcript[m], transcript'[m])
  BY <1>2, <1>4, <1>5
     DEF WorkerStep, Stage, StartWorker, Claim, ReportProgress, MarkNormalizing, Convert,
         Cleanup, Transcribe, LoadSegments, MarkDiarizing, Diarize, MarkSummarizing,
         Summarize, Regenerate, StageFails, RegenerationFails, WriteRefused, CrashWorker,
         DatabaseError, data
<1>6. ASSUME NEW h \in Handlers, RequestStep(h) \/ RequestDies(h)
      PROVE  TranscriptMoves(row[m], row'[m], transcript[m], transcript'[m])
  BY <1>3, <1>4, <1>6
     DEF RequestStep, RetryWrite, LanguageWrite, DeleteFiles, RequestDies, data
<1>7. ASSUME Request \/ (\E k \in Meetings : Age(k)) \/ UNCHANGED vars
      PROVE  TranscriptMoves(row[m], row'[m], transcript[m], transcript'[m])
  BY <1>4, <1>7
     DEF Request, Upload, RegenerateSummary, UpdateTitle, RetryRead, LanguageRead,
         DeleteFind, Age, vars, data
<1>8. QED
  BY <1>5, <1>6, <1>7 DEF Next, Fault

\* The same words in both modules.
LEMMA PageActions ==
  ASSUME NEW m \in Meetings,
         PageMoves(OnPage(row[m], transcript[m]), OnPage(row'[m], transcript'[m]))
  PROVE  Page(m)!WorkerWorks \/ Page(m)!OtherTabActs
<1> DEFINE o == OnPage(row[m], transcript[m])
           p == OnPage(row'[m], transcript'[m])
<1>1. Columns("gone", "idle", 0, FALSE) = Page(m)!Gone
  <2>1. Page(m)!Uploaded = Columns("busy", "idle", 0, FALSE)
    BY DEF Page!Uploaded, Columns
  <2>2. ASSUME NEW x, NEW v, NEW l
        PROVE  Columns("gone", x, v, l) = [Columns("busy", x, v, l) EXCEPT !.status = "gone"]
    BY Z3 DEF Columns
  <2>3. Columns("gone", "idle", 0, FALSE) =
          [Columns("busy", "idle", 0, FALSE) EXCEPT !.status = "gone"]
    BY <2>2, Zenon
  <2>4. QED
    BY <2>1, <2>3, Zenon DEF Page!Gone
<1>2. /\ Page(m)!Retried(o) = [o EXCEPT !.status = "busy"]
      /\ Page(m)!RegenerationQueued(o) = [o EXCEPT !.regen = "active"]
  BY DEF Page!Retried, Page!RegenerationQueued
<1> HIDE DEF PageMoves
<1>3. QED
  BY <1>1, <1>2, Zenon DEF PageMoves, Page!WorkerWorks, Page!OtherTabActs

LEMMA HomeActions ==
  ASSUME NEW m \in Meetings
  PROVE  /\ InList(row[m]) # "active" /\ InList(row'[m]) = "active" =>
              Home(m)!OtherStarts
         /\ InList(row[m]) = "active" /\ InList(row'[m]) = "ended" =>
              Home(m)!MeetingEnds
  BY DEF Home!OtherStarts, Home!MeetingEnds

\* What the worker and other tabs do to a meeting under the eyes of a tab, in the
\* models of the pages, is all that the pipeline does to it.
THEOREM TabsAreServed ==
  Spec /\ []OneUpdatePerMeeting =>
    [][\A m \in Meetings : PageIsServed(m) /\ HomeIsServed(m)]_vars
<1>1. Init => ShownInv
  BY NoRowFacts, SMT DEF Init, ShownInv, ShownSound, NoTranscript
<1>2. ASSUME SystemInv, SystemInv', [Next]_vars, ShownInv, NEW m \in Meetings
      PROVE  ShownSound(row'[m], transcript'[m]) /\ PageIsServed(m) /\ HomeIsServed(m)
  <2> DEFINE r == row[m]
             s == row'[m]
             t == transcript[m]
             u == transcript'[m]
  <2>1. r \in Row /\ s \in Row /\ t \in Transcript /\ u \in Transcript
    BY <1>2 DEF SystemInv, TypeInv, TypeOK
  <2>2. Moves(r, s) /\ TranscriptMoves(r, s, t, u) /\ ShownSound(r, t)
    BY <1>2, RowMoves, TranscriptStep DEF ShownInv
  <2>3. RowSound(r)
    BY <1>2 DEF SystemInv, DataSound, MeetingsSound, MeetingSound
  <2>4. s.status = "done" => u.diarized
    BY <1>2 DEF SystemInv, DataSound, MeetingsSound, MeetingSound, TranscriptSound,
                NextStage
  <2>5. ShownSound(s, u)
    BY <2>1, <2>2, ShownSoundStep
  <2>6. PageIsServed(m)
    <3>1. CASE OnPage(s, u) = OnPage(r, t)
      BY <3>1 DEF PageIsServed
    <3>2. CASE PageMoves(OnPage(r, t), OnPage(s, u))
      BY <3>2, PageActions DEF PageIsServed
    <3>3. CASE /\ r.status = "absent" /\ s.status = "pending"
               /\ s.latest = 0 /\ s.regen = "idle" /\ ~u.diarized
      <4>1. OnPage(s, u) = Columns("busy", "idle", 0, FALSE)
        <5>1. s.status \in NonTerminal /\ RegenOnPage(s.regen) = "idle"
          BY <3>3 DEF NonTerminal, RegenOnPage
        <5>2. u.diarized = FALSE
          BY <2>1, <3>3 DEF Transcript
        <5>3. QED
          BY <2>1, <3>3, <5>1, <5>2, OnPageFacts
      <4>2. Page(m)!Uploaded = Columns("busy", "idle", 0, FALSE)
        BY DEF Page!Uploaded, Columns
      <4>3. QED
        BY <3>3, <4>1, <4>2 DEF PageIsServed
    <3>4. QED
      BY <2>1, <2>2, <2>3, <2>4, <3>1, <3>2, <3>3, ShownStep
  <2>7. HomeIsServed(m)
    BY <2>1, <2>2, ListedStep, HomeActions DEF HomeIsServed
  <2>8. QED
    BY <2>5, <2>6, <2>7
<1>3. SystemInv /\ SystemInv' /\ [Next]_vars /\ ShownInv => ShownInv'
  BY <1>2 DEF ShownInv
<1>4. SystemInv /\ SystemInv' /\ [Next]_vars /\ ShownInv =>
        \A m \in Meetings : PageIsServed(m) /\ HomeIsServed(m)
  BY <1>2
<1>5. QED
  BY <1>1, <1>3, <1>4, SystemSound, PTL DEF Spec
=============================================================================
