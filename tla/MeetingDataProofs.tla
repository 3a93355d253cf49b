--------------------------- MODULE MeetingDataProofs ---------------------------
(***************************************************************************)
(* What a meeting consists of stays consistent: its row, its transcript,   *)
(* its summary versions and its audio files, through every stage, crash,   *)
(* reclaim, retry and change of language, for any number of meetings,      *)
(* processes and requests in flight.                                       *)
(*                                                                         *)
(* The web app computes an update from a row it read earlier, and the      *)
(* write checks no more than the status.  Two updates of one meeting in    *)
(* flight can therefore overtake each other (run retry_race).  Everything  *)
(* here is proved for behaviours in which that does not happen.            *)
(***************************************************************************)
EXTENDS MeetingPipelineProofs

\* At most one retry or change of language of a meeting is between its read and
\* its write.  Requests for different meetings, deletions, renamings and
\* regenerations overlap as they like.
OneUpdatePerMeeting ==
  \A g, h \in Handlers :
    /\ handler[g].op \in {"retry", "language"}
    /\ handler[h].op \in {"retry", "language"}
    /\ handler[g].m = handler[h].m
    => g = h

\* That is how it is when requests come one at a time.
LEMMA OneRequestAtATime == (\A g, h \in Handlers : g = h) => OneUpdatePerMeeting
BY DEF OneUpdatePerMeeting

-----------------------------------------------------------------------------
(* The inductive invariant.  It speaks of one meeting at a time: its row r, *)
(* transcript t, versions V and files F.                                    *)

\* Columns that say the same thing twice agree.
RowSound(r) ==
  /\ r.resume # "none" => r.status = "pending"
  /\ r.failedAt # "none" <=> r.status = "error"
  /\ r.latest # 0 <=> r.status = "done"
  /\ SatisfiesCheck(r)

\* The audio the meeting will be entered with, unless its directory is gone.  It
\* asks for more than AudioIsNeverLost: a meeting to be summarised still has
\* normalized.wav, since a retry in another language transcribes it again.
AudioSound(r, F) ==
  "directory" \in F =>
    /\ r.status = "pending" /\ r.resume = "none" => "original" \in F
    /\ NextStage(r) = "normalizing" => "original" \in F \/ "normalized" \in F
    /\ NextStage(r) \in {"transcribing", "diarizing", "summarizing"}
         => "normalized" \in F

TranscriptSound(r, t) ==
  /\ NextStage(r) \in {"diarizing", "summarizing", "done"} => t.lang = r.lang
  /\ NextStage(r) \in {"summarizing", "done"} => t.diarized

SummariesSound(r, t, V) ==
  /\ r.latest = 0 => V = {}
  /\ r.latest # 0 => \E v \in V : v.number = r.latest
  /\ \A v \in V :
       /\ v.number \in 1 .. r.latest
       /\ v.of = t
       /\ v.source = "initial" <=> v.number = 1

MeetingSound(r, t, V, F) ==
  /\ RowSound(r)
  /\ AudioSound(r, F)
  /\ TranscriptSound(r, t)
  /\ SummariesSound(r, t, V)

\* What a worker with record x has in hand, against the transcript and the files
\* of its meeting.
WorkerSound(x, t, F) ==
  /\ x.at = "markTranscribing" /\ "directory" \in F => "normalized" \in F
  /\ x.at \in {"markDiarizing", "diarize", "saveDiarization"}
       => x.segments.lang = x.lang
  /\ x.at = "saveDiarization" => x.segments.diarized
  /\ x.at \in {"markSummarizing", "summarize", "regenerate"} => x.segments = t

\* The update of request y still is the one the row r of its meeting asks for, or
\* the write will find a status it refuses.
RequestFresh(y, r) ==
  /\ r.status # "absent"
  /\ y.op = "retry" =>
       \/ r.status = "deleted"
       \/ /\ r.status = "error"
          /\ \E lang \in Languages : y.update = RetryUpdate(r, lang)
  /\ y.op = "language" /\ r.status = "pending" =>
       \E lang \in Languages : y.update = PendingLanguageUpdate(r, lang)

MeetingsSound ==
  \A m \in Meetings :
    MeetingSound(row[m], transcript[m], versions[m], files[m])

WorkersSound ==
  \A w \in Workers :
    Busy(w) => LET m == worker[w].m IN
               \/ row[m].status = "deleted"
               \/ WorkerSound(worker[w], transcript[m], files[m])

RequestsSound ==
  \A h \in Handlers :
    handler[h].op # "none" => RequestFresh(handler[h], row[handler[h].m])

DataSound == MeetingsSound /\ WorkersSound /\ RequestsSound

\* All that the steps need to know of the state before them.
SystemInv == TypeInv /\ LockHeld /\ ClaimKept /\ DataSound

-----------------------------------------------------------------------------
(* Each statement leaves a sound meeting.                                   *)

\* A statement that leaves the columns the invariant is about.
LEMMA SameColumnsSound ==
  ASSUME NEW r, NEW s, NEW t, NEW V, NEW F, MeetingSound(r, t, V, F),
         s.status = r.status, s.resume = r.resume, s.failedAt = r.failedAt,
         s.lang = r.lang, s.detected = r.detected, s.latest = r.latest
  PROVE  MeetingSound(s, t, V, F)
<1>1. NextStage(s) = NextStage(r)
  BY DEF NextStage
<1>2. RowSound(s)
  BY DEF MeetingSound, RowSound, SatisfiesCheck
<1>3. AudioSound(s, F) /\ TranscriptSound(s, t) /\ SummariesSound(s, t, V)
  BY <1>1 DEF MeetingSound, AudioSound, TranscriptSound, SummariesSound
<1>4. QED
  BY <1>2, <1>3 DEF MeetingSound

\* A row at a stage, waiting or failed has no version.
LEMMA NoSummaryYet ==
  ASSUME NEW r, NEW s, NEW t, NEW u, NEW V, NEW F, MeetingSound(r, t, V, F),
         r.status # "done", s.latest = r.latest
  PROVE  /\ s.latest = 0 /\ V = {}
         /\ SummariesSound(s, u, V)
  BY DEF MeetingSound, RowSound, SummariesSound

\* A row at a stage goes on with that stage.
LEMMA StageRow ==
  ASSUME NEW r, r.status \in Stages
  PROVE  /\ NextStage(r) = r.status
         /\ r.status \notin {"pending", "error", "done", "absent", "deleted"}
  BY SMT DEF NextStage, Stages

\* A claim: a pending row gets a stage to resume from, others stay as they are.
LEMMA ClaimedSound ==
  ASSUME NEW r \in Row, PipelineClaimable(r) \/ RegenerationClaimable(r),
         NEW t, NEW V, NEW F, MeetingSound(r, t, V, F)
  PROVE  /\ MeetingSound(Claimed(r), t, V, F)
         /\ EntryPoint(ClaimedStatus(r)) = "markTranscribing" /\ "directory" \in F
              => "normalized" \in F
<1>1. CASE r.status = "pending"
  <2>1. r.resume \in Stages \union {"none"}
    BY Zenon DEF Row
  <2>2. r.failedAt = "none"
    BY <1>1 DEF MeetingSound, RowSound
  <2>3. /\ Claimed(r).status \in Stages /\ Claimed(r).status = NextStage(r)
        /\ Claimed(r).resume = "none" /\ Claimed(r).failedAt = "none"
        /\ Claimed(r).lang = r.lang /\ Claimed(r).detected = r.detected
        /\ Claimed(r).latest = r.latest
    BY <1>1, <2>1, ClaimedPendingFacts, SMT DEF NextStage, Stages
  <2>4. NextStage(Claimed(r)) = NextStage(r) /\ Claimed(r).status # "done"
    BY <2>3, StageRow
  <2>5. RowSound(Claimed(r))
    BY <1>1, <2>3, StageRow DEF MeetingSound, RowSound, SatisfiesCheck
  <2>6. AudioSound(Claimed(r), F) /\ TranscriptSound(Claimed(r), t)
    BY <2>3, <2>4, StageRow DEF MeetingSound, AudioSound, TranscriptSound
  <2>7. SummariesSound(Claimed(r), t, V)
    BY <1>1, <2>3, NoSummaryYet
  <2>8. ClaimedStatus(r) = "transcribing" => NextStage(r) = "transcribing"
    BY <1>1, SMT DEF ClaimedStatus, NextStage
  <2>9. EntryPoint(ClaimedStatus(r)) = "markTranscribing" =>
          ClaimedStatus(r) = "transcribing"
    BY SMT DEF EntryPoint
  <2>10. QED
    BY <2>5, <2>6, <2>7, <2>8, <2>9 DEF MeetingSound, AudioSound
<1>2. CASE r.status = "done" \/ r.status \in Stages
  <2>1. /\ Claimed(r).status = r.status /\ Claimed(r).resume = r.resume
        /\ Claimed(r).failedAt = r.failedAt /\ Claimed(r).lang = r.lang
        /\ Claimed(r).detected = r.detected /\ Claimed(r).latest = r.latest
    <3>1. r.resume = "none"
      BY <1>2, StageRow DEF MeetingSound, RowSound
    <3>2. QED
      BY <1>2, <3>1, ClaimedDoneFacts, ClaimedStageFacts
  <2>2. EntryPoint(ClaimedStatus(r)) = "markTranscribing" =>
          r.status \in Stages /\ r.status = "transcribing"
    BY <1>2, SMT DEF EntryPoint, ClaimedStatus, Stages
  <2>3. QED
    BY <2>1, <2>2, SameColumnsSound, StageRow DEF MeetingSound, AudioSound
<1>3. QED
  BY <1>1, <1>2 DEF PipelineClaimable, RegenerationClaimable

\* Transcription starts: what an earlier attempt transcribed is dropped.
LEMMA TranscriptionStartedSound ==
  ASSUME NEW r \in Row, NEW t, NEW V, NEW F, MeetingSound(r, t, V, F),
         r.status \in Stages, "directory" \in F => "normalized" \in F
  PROVE  MeetingSound(TranscriptionStarted(r), NoTranscript, V, F)
<1> DEFINE s == TranscriptionStarted(r)
<1>1. /\ s.status = "transcribing" /\ s.resume = "none" /\ s.failedAt = "none"
      /\ s.detected = "none" /\ s.latest = r.latest
  BY TranscriptionStartedFacts
<1> HIDE DEF s
<1>2. NextStage(s) = "transcribing"
  BY <1>1 DEF NextStage
<1>3. SummariesSound(s, NoTranscript, V) /\ s.latest = 0
  BY <1>1, StageRow, NoSummaryYet
<1>4. RowSound(s)
  BY <1>1, <1>3 DEF RowSound, SatisfiesCheck
<1>5. QED
  BY <1>1, <1>2, <1>3, <1>4 DEF MeetingSound, AudioSound, TranscriptSound, s

\* The transcript replaces an earlier one, in the language of the row.
LEMMA TranscriptionSucceededSound ==
  ASSUME NEW r \in Row, NEW t, NEW u, NEW V, NEW F, MeetingSound(r, t, V, F),
         r.status = "transcribing", NEW d \in Detectable \union {"none"},
         SatisfiesCheck(TranscriptionSucceeded(r, d)), u.lang = r.lang
  PROVE  MeetingSound(TranscriptionSucceeded(r, d), u, V, F)
<1> DEFINE s == TranscriptionSucceeded(r, d)
<1>1. /\ s.status = "diarizing" /\ s.resume = "none" /\ s.failedAt = "none"
      /\ s.lang = r.lang /\ s.latest = r.latest
  BY TranscriptionSucceededFacts
<1>2. SatisfiesCheck(s)
  OBVIOUS
<1> HIDE DEF s
<1>3. NextStage(s) = "diarizing" /\ NextStage(r) = "transcribing"
  BY <1>1 DEF NextStage
<1>4. SummariesSound(s, u, V) /\ s.latest = 0
  BY <1>1, NoSummaryYet
<1>5. RowSound(s)
  BY <1>1, <1>2, <1>4 DEF RowSound
<1>6. QED
  BY <1>1, <1>3, <1>4, <1>5 DEF MeetingSound, AudioSound, TranscriptSound, s

\* Speakers are assigned to the transcript the row has.
LEMMA DiarizationSucceededSound ==
  ASSUME NEW r \in Row, NEW t, NEW u, NEW V, NEW F, MeetingSound(r, t, V, F),
         r.status = "diarizing", u.lang = r.lang, u.diarized
  PROVE  MeetingSound(DiarizationSucceeded(r), u, V, F)
<1> DEFINE s == DiarizationSucceeded(r)
<1>1. /\ s.status = "summarizing" /\ s.resume = "none" /\ s.failedAt = "none"
      /\ s.lang = r.lang /\ s.detected = r.detected /\ s.latest = r.latest
  BY DiarizationSucceededFacts
<1> HIDE DEF s
<1>2. NextStage(s) = "summarizing" /\ NextStage(r) = "diarizing"
  BY <1>1 DEF NextStage
<1>3. SummariesSound(s, u, V) /\ s.latest = 0
  BY <1>1, NoSummaryYet
<1>4. RowSound(s)
  BY <1>1, <1>3 DEF MeetingSound, RowSound, SatisfiesCheck
<1>5. QED
  BY <1>1, <1>2, <1>3, <1>4 DEF MeetingSound, AudioSound, TranscriptSound, s

\* The first version, which comes with `done`.
LEMMA SummarizationSucceededSound ==
  ASSUME NEW r \in Row, NEW t, NEW V, NEW F, MeetingSound(r, t, V, F),
         r.status = "summarizing", NEW W,
         W = {v \in V : v.number # 1}
               \union {[number |-> 1, source |-> "initial", of |-> t]}
  PROVE  MeetingSound(SummarizationSucceeded(r), t, W, F)
<1> DEFINE s == SummarizationSucceeded(r)
           v == [number |-> 1, source |-> "initial", of |-> t]
<1>1. /\ s.status = "done" /\ s.resume = "none" /\ s.failedAt = "none"
      /\ s.lang = r.lang /\ s.detected = r.detected /\ s.latest = 1
  BY SummarizationSucceededFacts
<1>2. NextStage(s) = "done" /\ NextStage(r) = "summarizing"
  BY <1>1 DEF NextStage
<1>3. SummariesSound(s, t, W)
  <2>1. V = {}
    BY NoSummaryYet
  <2>2. v.number = 1 /\ v.source = "initial" /\ v.of = t /\ W = {v}
    BY <2>1
  <2> HIDE DEF s, v
  <2>3. QED
    BY <1>1, <2>2 DEF SummariesSound
<1> HIDE DEF s
<1>4. RowSound(s)
  BY <1>1 DEF MeetingSound, RowSound, SatisfiesCheck
<1>5. QED
  BY <1>1, <1>2, <1>3, <1>4 DEF MeetingSound, AudioSound, TranscriptSound, s

\* A further version, of the same transcript.
LEMMA RegenerationSucceededSound ==
  ASSUME NEW r \in Row, NEW t, NEW V \in SUBSET SummaryVersion, NEW F,
         MeetingSound(r, t, V, F), r.status = "done", NEW W,
         W = V \union {[number |-> r.latest + 1, source |-> "ai_revision",
                        of |-> t]}
  PROVE  MeetingSound(RegenerationSucceeded(r), t, W, F)
<1> DEFINE s == RegenerationSucceeded(r)
           v == [number |-> r.latest + 1, source |-> "ai_revision", of |-> t]
<1>1. /\ s.status = "done" /\ s.resume = r.resume /\ s.failedAt = r.failedAt
      /\ s.lang = r.lang /\ s.detected = r.detected /\ s.latest = r.latest + 1
  BY RegenerationSucceededFacts
<1>2. r.latest \in Nat /\ r.latest # 0
  BY Zenon DEF Row, MeetingSound, RowSound
<1>3. v.number = r.latest + 1 /\ v.source = "ai_revision" /\ v.of = t /\ W = V \union {v}
  OBVIOUS
<1> HIDE DEF s, v
<1>4. NextStage(s) = "done" /\ NextStage(r) = "done"
  BY <1>1 DEF NextStage
<1>5. SummariesSound(s, t, W)
  <2>1. s.latest # 0 /\ v.number = s.latest /\ v.number \in 1 .. s.latest
    BY <1>1, <1>2, <1>3
  <2>2. ~(v.source = "initial") /\ v.number # 1
    BY <1>2, <1>3
  <2>3. ASSUME NEW x \in V
        PROVE  x.number \in 1 .. s.latest /\ x.of = t
               /\ (x.source = "initial" <=> x.number = 1)
    BY <1>1, <1>2 DEF MeetingSound, SummariesSound
  <2>4. QED
    BY <1>3, <2>1, <2>2, <2>3 DEF SummariesSound
<1>6. RowSound(s)
  BY <1>1, <1>2 DEF MeetingSound, RowSound, SatisfiesCheck
<1>7. QED
  BY <1>1, <1>4, <1>5, <1>6 DEF MeetingSound, AudioSound, TranscriptSound, s

\* A failure is recorded at the stage the row is at.
LEMMA FailedSound ==
  ASSUME NEW r \in Row, NEW t, NEW V, NEW F, MeetingSound(r, t, V, F),
         r.status \in Stages, NEW kind \in ErrorKinds
  PROVE  MeetingSound(Failed(r, kind, r.status), t, V, F)
<1> DEFINE s == Failed(r, kind, r.status)
<1>1. /\ s.status = "error" /\ s.resume = "none" /\ s.failedAt = r.status
      /\ s.lang = r.lang /\ s.detected = r.detected /\ s.latest = r.latest
  BY FailedFacts
<1> HIDE DEF s
<1>2. NextStage(s) = NextStage(r) /\ NextStage(r) = r.status /\ r.status # "none"
  BY <1>1, StageRow, SMT DEF NextStage, Stages
<1>3. SummariesSound(s, t, V) /\ s.latest = 0
  BY <1>1, StageRow, NoSummaryYet
<1>4. RowSound(s)
  BY <1>1, <1>2, <1>3 DEF MeetingSound, RowSound, SatisfiesCheck
<1>5. QED
  BY <1>1, <1>2, <1>3, <1>4, StageRow
     DEF MeetingSound, AudioSound, TranscriptSound, s

\* An upload.
LEMMA PendingRowSound ==
  ASSUME NEW lang \in Languages
  PROVE  MeetingSound(PendingRow(lang), NoTranscript, {}, {"directory", "original"})
<1> DEFINE s == PendingRow(lang)
<1>1. /\ s.status = "pending" /\ s.resume = "none" /\ s.failedAt = "none"
      /\ s.detected = "none" /\ s.latest = 0
  BY PendingRowFacts
<1> HIDE DEF s
<1>2. NextStage(s) = "normalizing"
  BY <1>1 DEF NextStage
<1>3. QED
  BY <1>1, <1>2
     DEF MeetingSound, RowSound, AudioSound, TranscriptSound, SummariesSound,
         SatisfiesCheck, s

\* No row, no data: nothing is left to be wrong.
LEMMA GoneSound ==
  ASSUME NEW r \in {NoRow, DeletedRow}, NEW F
  PROVE  MeetingSound(r, NoTranscript, {}, F)
<1>1. /\ r.status \in {"absent", "deleted"} /\ r.resume = "none"
      /\ r.failedAt = "none" /\ r.detected = "none" /\ r.latest = 0
  BY NoRowFacts, DeletedRowFacts
<1>2. NextStage(r) \in {"absent", "deleted"}
  BY <1>1 DEF NextStage
<1>3. QED
  BY <1>1, <1>2
     DEF MeetingSound, RowSound, AudioSound, TranscriptSound, SummariesSound,
         SatisfiesCheck

\* A retry leads back to the failed stage or to transcription, where the audio is;
\* it keeps the transcript only with its language, and a detected language only
\* beside none requested.
LEMMA RetriedSound ==
  ASSUME NEW r \in Row, NEW t, NEW V, NEW F, MeetingSound(r, t, V, F),
         r.status = "error", NEW lang \in Languages
  PROVE  LET s == Retried(r, RetryUpdate(r, lang)) IN
         /\ s \in Row
         /\ MeetingSound(s, t, V, F)
<1> DEFINE u == RetryUpdate(r, lang)
           s == Retried(r, u)
<1>1. r.failedAt \in Stages
  BY Zenon DEF Row, MeetingSound, RowSound
<1>2. /\ u \in Update /\ u.lang = lang /\ u.resume \in Stages
      /\ lang = r.lang => u.resume = r.failedAt
      /\ lang # r.lang => u.resume \in {"normalizing", "transcribing"} /\ u.clear
      /\ r.failedAt = "normalizing" => u.resume = "normalizing"
      /\ r.failedAt # "normalizing" => u.resume \in {r.failedAt, "transcribing"}
  BY <1>1, RetryUpdateFacts
<1> HIDE DEF u
<1>3. /\ s \in Row /\ s.lang = lang /\ s.resume = u.resume
      /\ s.detected = (IF u.clear THEN "none" ELSE r.detected)
      /\ s.status = "pending" /\ s.failedAt = "none" /\ s.latest = r.latest
  BY <1>2, RetriedFacts
<1> HIDE DEF s
<1>4. NextStage(s) = u.resume /\ NextStage(r) = r.failedAt /\ s.resume # "none"
  BY <1>2, <1>3, SMT DEF NextStage, Stages
<1>5. SummariesSound(s, t, V) /\ s.latest = 0
  BY <1>3, NoSummaryYet
<1>6. RowSound(s)
  BY <1>2, <1>3, <1>5 DEF MeetingSound, RowSound, SatisfiesCheck
<1>7. AudioSound(s, F)
  BY <1>1, <1>2, <1>4, SMT DEF MeetingSound, AudioSound, Stages
<1>8. TranscriptSound(s, t)
  BY <1>1, <1>2, <1>3, <1>4, SMT DEF MeetingSound, TranscriptSound, Stages
<1>9. QED
  BY <1>3, <1>5, <1>6, <1>7, <1>8 DEF MeetingSound, s, u

\* A change of language of a queued meeting, likewise.
LEMMA LanguageUpdatedSound ==
  ASSUME NEW r \in Row, NEW t, NEW V, NEW F, MeetingSound(r, t, V, F),
         r.status = "pending", NEW lang \in Languages
  PROVE  LET s == LanguageUpdated(r, PendingLanguageUpdate(r, lang)) IN
         /\ s \in Row
         /\ MeetingSound(s, t, V, F)
<1> DEFINE u == PendingLanguageUpdate(r, lang)
           s == LanguageUpdated(r, u)
<1>1. r.resume \in Stages \union {"none"}
  BY Zenon DEF Row
<1>2. /\ u \in Update /\ u.lang = lang
      /\ lang = r.lang => u.resume = r.resume
      /\ lang # r.lang =>
           u.resume \in {"none", "normalizing", "transcribing"} /\ u.clear
      /\ r.resume \in {"none", "normalizing", "transcribing"} => u.resume = r.resume
      /\ r.resume \in {"diarizing", "summarizing"} =>
           u.resume \in {r.resume, "transcribing"}
  BY PendingLanguageUpdateFacts
<1> HIDE DEF u
<1>3. /\ s \in Row /\ s.lang = lang /\ s.resume = u.resume
      /\ s.detected = (IF u.clear THEN "none" ELSE r.detected)
      /\ s.status = "pending" /\ s.failedAt = r.failedAt /\ s.latest = r.latest
  BY <1>2, LanguageUpdatedFacts
<1> HIDE DEF s
<1>4. /\ NextStage(s) = IF u.resume = "none" THEN "normalizing" ELSE u.resume
      /\ NextStage(r) = IF r.resume = "none" THEN "normalizing" ELSE r.resume
  BY <1>3 DEF NextStage
<1>5. SummariesSound(s, t, V) /\ s.latest = 0
  BY <1>3, NoSummaryYet
<1>6. RowSound(s)
  BY <1>2, <1>3, <1>5 DEF MeetingSound, RowSound, SatisfiesCheck
<1>7. AudioSound(s, F)
  BY <1>1, <1>2, <1>3, <1>4, SMT DEF MeetingSound, AudioSound, Stages
<1>8. TranscriptSound(s, t)
  BY <1>1, <1>2, <1>3, <1>4, SMT DEF MeetingSound, TranscriptSound, Stages
<1>9. QED
  BY <1>3, <1>5, <1>6, <1>7, <1>8 DEF MeetingSound, s, u

-----------------------------------------------------------------------------
(* A step changes one meeting, one worker or one request.                   *)

\* Nothing but meeting m changes.
OnlyMeeting(m) ==
  \A k \in Meetings :
    k # m => /\ row'[k] = row[k] /\ transcript'[k] = transcript[k]
             /\ versions'[k] = versions[k] /\ files'[k] = files[k]

\* What the update of a request is computed from.
SameForRequests(r, s) ==
  /\ s.status = r.status /\ s.resume = r.resume
  /\ s.failedAt = r.failedAt /\ s.lang = r.lang

\* A step concerns one meeting; the others stay sound.
LEMMA MeetingsSoundByOne ==
  ASSUME MeetingsSound, NEW m \in Meetings, OnlyMeeting(m),
         MeetingSound(row'[m], transcript'[m], versions'[m], files'[m])
  PROVE  MeetingsSound'
  BY DEF MeetingsSound, OnlyMeeting

\* A request does not notice a write to columns it has not read.
LEMMA StaysFresh ==
  ASSUME NEW y, NEW r, NEW s, RequestFresh(y, r), SameForRequests(r, s)
  PROVE  RequestFresh(y, s)
<1>1. \A lang : /\ RetryUpdate(s, lang) = RetryUpdate(r, lang)
                /\ PendingLanguageUpdate(s, lang) = PendingLanguageUpdate(r, lang)
  BY DEF RetryUpdate, PendingLanguageUpdate, SameForRequests
<1>2. QED
  BY <1>1 DEF RequestFresh, SameForRequests

\* The worker takes no row that a retry or a change of language could still write
\* to a status that one could: a row it works on is neither failed nor queued.
LEMMA RequestsSoundByRow ==
  ASSUME TypeInv, RequestsSound, UNCHANGED handler,
         NEW m \in Meetings, \A k \in Meetings : k # m => row'[k] = row[k],
         \/ SameForRequests(row[m], row'[m])
         \/ /\ row[m].status \in NonTerminal \union {"done"}
            /\ row'[m].status \in Stages \union {"done", "error"}
  PROVE  RequestsSound'
<1> SUFFICES ASSUME NEW h \in Handlers, handler[h].op # "none"
             PROVE  RequestFresh(handler[h], row'[handler[h].m])
  BY DEF RequestsSound
<1>1. handler[h].m \in Meetings /\ RequestFresh(handler[h], row[handler[h].m])
  BY DEF TypeInv, RequestsSound
<1>2. CASE handler[h].m # m
  BY <1>1, <1>2
<1>3. CASE handler[h].m = m /\ SameForRequests(row[m], row'[m])
  BY <1>1, <1>3, StaysFresh
<1>4. CASE /\ handler[h].m = m
           /\ row[m].status \in NonTerminal \union {"done"}
           /\ row'[m].status \in Stages \union {"done", "error"}
  <2>1. row[m].status \notin {"error", "deleted"}
    BY <1>4, SMT DEF NonTerminal, Stages
  <2>2. row'[m].status \notin {"absent", "pending"}
    BY <1>4, SMT DEF Stages
  <2>3. QED
    BY <1>1, <1>4, <2>1, <2>2 DEF RequestFresh
<1>5. QED
  BY <1>2, <1>3, <1>4

\* The process that holds the lock is the only one with anything in hand.
LEMMA WorkersSoundByWorker ==
  ASSUME LockHeld, NEW w \in Workers, worker[w].at # "off",
         \A v \in Workers : v # w => worker'[v] = worker[v],
         /\ worker'[w].at \in BusyPoints
         /\ row'[worker'[w].m].status # "deleted"
         => WorkerSound(worker'[w], transcript'[worker'[w].m], files'[worker'[w].m])
  PROVE  WorkersSound'
<1>1. "off" \notin BusyPoints
  BY Points, SMT
<1>2. ASSUME NEW v \in Workers, v # w
      PROVE  worker'[v].at \notin BusyPoints
  BY <1>1, <1>2 DEF LockHeld
<1>3. QED
  BY <1>2 DEF WorkersSound, Busy

\* A step of the running process that changes its meeting and its own memory.
LEMMA DataByWorker ==
  ASSUME SystemInv, NEW w \in Workers, worker[w].at # "off",
         \A v \in Workers : v # w => worker'[v] = worker[v],
         UNCHANGED handler, NEW m \in Meetings, OnlyMeeting(m),
         MeetingSound(row'[m], transcript'[m], versions'[m], files'[m]),
         \/ SameForRequests(row[m], row'[m])
         \/ /\ row[m].status \in NonTerminal \union {"done"}
            /\ row'[m].status \in Stages \union {"done", "error"},
         worker'[w].at \in BusyPoints =>
           worker'[w].m = m /\ WorkerSound(worker'[w], transcript'[m], files'[m])
  PROVE  DataSound'
<1>1. MeetingsSound'
  BY MeetingsSoundByOne DEF SystemInv, DataSound
<1>2. RequestsSound'
  BY RequestsSoundByRow DEF SystemInv, DataSound, OnlyMeeting
<1>3. WorkersSound'
  BY WorkersSoundByWorker DEF SystemInv
<1>4. QED
  BY <1>1, <1>2, <1>3 DEF DataSound

\* One that changes no meeting.
LEMMA DataByMemory ==
  ASSUME SystemInv, UNCHANGED <<row, data, handler>>,
         NEW w \in Workers, worker[w].at # "off",
         \A v \in Workers : v # w => worker'[v] = worker[v],
         /\ worker'[w].at \in BusyPoints
         /\ row[worker'[w].m].status # "deleted"
         => WorkerSound(worker'[w], transcript[worker'[w].m], files[worker'[w].m])
  PROVE  DataSound'
<1>1. WorkersSound'
  BY WorkersSoundByWorker DEF SystemInv, data
<1>2. QED
  BY <1>1 DEF SystemInv, DataSound, MeetingsSound, RequestsSound, data

\* A step that leaves rows, data, workers and requests alone.
LEMMA DataUnchanged ==
  ASSUME SystemInv, UNCHANGED <<row, data, worker, handler>>
  PROVE  DataSound'
  BY DEF SystemInv, DataSound, MeetingsSound, WorkersSound, RequestsSound, Busy, data

\* A statement on one row.
LEMMA RowOnly ==
  ASSUME TypeInv, NEW m \in Meetings, NEW r \in Row, SetRow(m, r), UNCHANGED data
  PROVE  /\ OnlyMeeting(m) /\ row'[m] = r
         /\ UNCHANGED <<transcript, versions, files>>
  BY SetRowFacts DEF TypeInv, TypeOK, OnlyMeeting, data

-----------------------------------------------------------------------------
(* The steps of the worker.                                                 *)

\* A busy worker has a meeting, which is sound and fits what the worker remembers.
LEMMA BusyMeeting ==
  ASSUME SystemInv, NEW w \in Workers, worker[w].at \in BusyPoints
  PROVE  LET x == worker[w]
             m == x.m
         IN  /\ x \in Worker /\ x.at # "off" /\ m \in Meetings
             /\ row[m] \in Row /\ versions[m] \in SUBSET SummaryVersion
             /\ MeetingSound(row[m], transcript[m], versions[m], files[m])
             /\ \/ row[m].status = "deleted"
                \/ Fits(x, row[m]) /\ WorkerSound(x, transcript[m], files[m])
<1>1. Busy(w)
  BY DEF Busy
<1>2. worker[w].at # "off"
  BY Points, SMT
<1>3. worker[w] \in Worker /\ worker[w].m \in Meetings
  BY <1>1 DEF SystemInv, TypeInv, TypeOK
<1>4. /\ row[worker[w].m] \in Row
      /\ versions[worker[w].m] \in SUBSET SummaryVersion
  BY <1>3 DEF SystemInv, TypeInv, TypeOK
<1>5. QED
  BY <1>1, <1>2, <1>3, <1>4
     DEF SystemInv, ClaimKept, DataSound, MeetingsSound, WorkersSound

\* A claim, and where the worker goes with it.
LEMMA ClaimDataStep ==
  ASSUME SystemInv, NEW w \in Workers, Claim(w)
  PROVE  DataSound'
<1>1. /\ worker[w].at # "off" /\ \A v \in Workers : v # w => worker'[v] = worker[v]
      /\ UNCHANGED <<data, handler>>
  BY RunningStep DEF SystemInv, Claim
<1>2. PICK k \in Meetings :
        /\ row[k] \in Row
        /\ PipelineClaimable(row[k]) \/ RegenerationClaimable(row[k])
        /\ SetRow(k, Claimed(row[k]))
        /\ worker'[w].at = EntryPoint(ClaimedStatus(row[k]))
        /\ worker'[w].m = k
  BY ClaimFacts, Zenon DEF SystemInv
<1>3. Claimed(row[k]) \in Row
  BY <1>2, ClaimAgrees
<1>4. /\ OnlyMeeting(k) /\ row'[k] = Claimed(row[k])
      /\ UNCHANGED <<transcript, versions, files>>
  BY <1>1, <1>2, <1>3, RowOnly DEF SystemInv
<1>5. MeetingSound(row[k], transcript[k], versions[k], files[k])
  BY DEF SystemInv, DataSound, MeetingsSound
<1>6. /\ MeetingSound(Claimed(row[k]), transcript[k], versions[k], files[k])
      /\ worker'[w].at = "markTranscribing" /\ "directory" \in files[k]
           => "normalized" \in files[k]
  BY <1>2, <1>5, ClaimedSound
<1>7. WorkerSound(worker'[w], transcript[k], files[k])
  BY <1>2, <1>6, SMT DEF WorkerSound, EntryPoint
<1>8. /\ row[k].status \in NonTerminal \union {"done"}
      /\ Claimed(row[k]).status \in Stages \union {"done"}
  <2>1. row[k].status \in NonTerminal \union {"done"}
    BY <1>2 DEF PipelineClaimable, RegenerationClaimable, NonTerminal
  <2>2. EntryPoint(ClaimedStatus(row[k])) \in BusyPoints
    BY EntryPointBusy
  <2>3. QED
    BY <1>2, <2>1, <2>2, ClaimAgrees, ExpectedFacts
<1>9. QED
  BY <1>1, <1>2, <1>4, <1>6, <1>7, <1>8, DataByWorker

\* A status write that changes no column the invariant is about (the row is at the
\* status already, its failure cleared), and one that also writes the transcript.
LEMMA StatusWriteDataStep ==
  ASSUME SystemInv, NEW w \in Workers,
         \/ MarkNormalizing(w) \/ MarkTranscribing(w) \/ SaveTranscript(w)
         \/ MarkDiarizing(w) \/ SaveDiarization(w) \/ MarkSummarizing(w)
  PROVE  DataSound'
<1> DEFINE x == worker[w]
           m == x.m
           r == row[m]
<1>1. /\ x.at \in {"markNormalizing", "markTranscribing", "saveTranscript",
                  "markDiarizing", "saveDiarization", "markSummarizing"}
      /\ r.status \in Accepts[x.at]
      /\ UNCHANGED <<files, versions, handler>>
  BY DEF MarkNormalizing, MarkTranscribing, SaveTranscript, MarkDiarizing,
         SaveDiarization, MarkSummarizing, Writes, data
<1>2. x.at \in BusyPoints /\ r.status \in Stages \union {"pending"}
  BY <1>1, Points, SMT DEF Accepts, Stages
<1>3. /\ x \in Worker /\ x.at # "off" /\ m \in Meetings
      /\ r \in Row /\ MeetingSound(r, transcript[m], versions[m], files[m])
      /\ \/ r.status = "deleted"
         \/ Fits(x, r) /\ WorkerSound(x, transcript[m], files[m])
  BY <1>2, BusyMeeting
<1>4. Fits(x, r) /\ WorkerSound(x, transcript[m], files[m])
  BY <1>2, <1>3, SMT DEF Stages
<1>5. r.status \in Expected[x.at] /\ r.lang = x.lang
  BY <1>4 DEF Fits
<1>6. r.status \in Stages /\ r.status \in NonTerminal /\ r.status \notin {"pending", "error"}
  BY <1>1, <1>5, SMT DEF Expected, Stages, NonTerminal
<1>7. r.resume = "none" /\ r.failedAt = "none"
  BY <1>3, <1>6 DEF MeetingSound, RowSound
<1>8. \A v \in Workers : v # w => worker'[v] = worker[v]
  BY RunningStep DEF SystemInv, Stage
<1>9. /\ worker \in [Workers -> Worker] /\ transcript \in [Meetings -> Transcript]
      /\ row \in [Meetings -> Row]
  BY DEF SystemInv, TypeInv, TypeOK
<1>10. CASE MarkNormalizing(w)
  <2> DEFINE s == NormalizationStarted(r)
  <2>1. /\ s \in Row /\ s.status = r.status /\ s.resume = r.resume
        /\ s.failedAt = r.failedAt /\ s.lang = r.lang /\ s.detected = r.detected
        /\ s.latest = r.latest
    BY <1>1, <1>3, <1>5, <1>7, <1>10, NormalizationStartedFacts, SMTT(30)
       DEF MarkNormalizing, Writes, Expected
  <2>2. /\ OnlyMeeting(m) /\ row'[m] = s
        /\ UNCHANGED <<transcript, versions, files>>
    BY <1>3, <1>10, <2>1, RowOnly DEF SystemInv, MarkNormalizing
  <2>3. worker'[w].at = "convert" /\ worker'[w].m = m
    BY <1>9, <1>10, Points, GotoFacts DEF MarkNormalizing
  <2> HIDE DEF s
  <2>4. MeetingSound(s, transcript[m], versions[m], files[m])
    BY <1>3, <2>1, SameColumnsSound
  <2>5. SameForRequests(r, s) /\ WorkerSound(worker'[w], transcript[m], files[m])
    BY <2>1, <2>3, SMT DEF SameForRequests, WorkerSound
  <2>6. QED
    BY <1>1, <1>3, <1>8, <2>2, <2>3, <2>4, <2>5, DataByWorker
<1>11. CASE MarkDiarizing(w)
  <2> DEFINE s == DiarizationStarted(r)
  <2>1. /\ s \in Row /\ s.status = r.status /\ s.resume = r.resume
        /\ s.failedAt = r.failedAt /\ s.lang = r.lang /\ s.detected = r.detected
        /\ s.latest = r.latest
    BY <1>1, <1>3, <1>5, <1>7, <1>11, DiarizationStartedFacts, SMT
       DEF MarkDiarizing, Writes, Expected
  <2>2. /\ OnlyMeeting(m) /\ row'[m] = s
        /\ UNCHANGED <<transcript, versions, files>>
    BY <1>3, <1>11, <2>1, RowOnly DEF SystemInv, MarkDiarizing
  <2>3. /\ worker'[w].at = "diarize" /\ worker'[w].m = m
        /\ worker'[w].lang = x.lang /\ worker'[w].segments = x.segments
    BY <1>9, <1>11, Points, GotoFacts DEF MarkDiarizing
  <2> HIDE DEF s
  <2>4. MeetingSound(s, transcript[m], versions[m], files[m])
    BY <1>3, <2>1, SameColumnsSound
  <2>5. x.segments.lang = x.lang
    BY <1>4, <1>11 DEF WorkerSound, MarkDiarizing, Writes
  <2>6. SameForRequests(r, s) /\ WorkerSound(worker'[w], transcript[m], files[m])
    BY <2>1, <2>3, <2>5, SMT DEF SameForRequests, WorkerSound
  <2>7. QED
    BY <1>1, <1>3, <1>8, <2>2, <2>3, <2>4, <2>6, DataByWorker
<1>12. CASE MarkSummarizing(w)
  <2> DEFINE s == SummarizationStarted(r)
  <2>1. /\ s \in Row /\ s.status = r.status /\ s.resume = r.resume
        /\ s.failedAt = r.failedAt /\ s.lang = r.lang /\ s.detected = r.detected
        /\ s.latest = r.latest
    BY <1>1, <1>3, <1>5, <1>7, <1>12, SummarizationStartedFacts, SMTT(30)
       DEF MarkSummarizing, Writes, Expected
  <2>2. /\ OnlyMeeting(m) /\ row'[m] = s
        /\ UNCHANGED <<transcript, versions, files>>
    BY <1>3, <1>12, <2>1, RowOnly DEF SystemInv, MarkSummarizing
  <2>3. /\ worker'[w].at = "summarize" /\ worker'[w].m = m
        /\ worker'[w].segments = x.segments
    BY <1>9, <1>12, Points, GotoFacts DEF MarkSummarizing
  <2> HIDE DEF s
  <2>4. MeetingSound(s, transcript[m], versions[m], files[m])
    BY <1>3, <2>1, SameColumnsSound
  <2>5. x.segments = transcript[m]
    BY <1>4, <1>12 DEF WorkerSound, MarkSummarizing, Writes
  <2>6. SameForRequests(r, s) /\ WorkerSound(worker'[w], transcript[m], files[m])
    BY <2>1, <2>3, <2>5, SMT DEF SameForRequests, WorkerSound
  <2>7. QED
    BY <1>1, <1>3, <1>8, <2>2, <2>3, <2>4, <2>6, DataByWorker
<1>13. CASE MarkTranscribing(w)
  <2> DEFINE s == TranscriptionStarted(r)
  <2>1. s \in Row /\ s.status = "transcribing"
    BY <1>3, TranscriptionStartedFacts
  <2>2. row'[m] = s /\ \A k \in Meetings : k # m => row'[k] = row[k]
    BY <1>3, <1>9, <1>13, <2>1, SetRowFacts DEF MarkTranscribing
  <2>3. /\ transcript'[m] = NoTranscript
        /\ \A k \in Meetings : k # m => transcript'[k] = transcript[k]
    BY <1>3, <1>9, <1>13 DEF MarkTranscribing
  <2>4. worker'[w].at = "transcribe" /\ worker'[w].m = m
    BY <1>9, <1>13, Points, GotoFacts DEF MarkTranscribing
  <2>5. "directory" \in files[m] => "normalized" \in files[m]
    BY <1>4, <1>13 DEF WorkerSound, MarkTranscribing, Writes
  <2>6. MeetingSound(s, NoTranscript, versions[m], files[m])
    BY <1>3, <1>6, <2>5, TranscriptionStartedSound
  <2> HIDE DEF s
  <2>7. WorkerSound(worker'[w], NoTranscript, files[m])
    BY <2>4, SMT DEF WorkerSound
  <2>8. row'[m].status \in Stages
    BY <2>1, <2>2, SMT DEF Stages
  <2>9. OnlyMeeting(m)
    BY <1>1, <2>2, <2>3 DEF OnlyMeeting
  <2>10. QED
    BY <1>1, <1>3, <1>6, <1>8, <2>2, <2>3, <2>4, <2>6, <2>7, <2>8, <2>9, DataByWorker
<1>14. CASE SaveTranscript(w)
  <2>1. PICK d \in Detectable \union {"none"} :
          /\ SatisfiesCheck(TranscriptionSucceeded(r, d))
          /\ SetRow(m, TranscriptionSucceeded(r, d))
    BY <1>3, <1>14, ColumnValues, Zenon DEF SaveTranscript, Worker
  <2> DEFINE s == TranscriptionSucceeded(r, d)
             t == [lang |-> x.lang, diarized |-> FALSE]
  <2>2. s \in Row /\ s.status = "diarizing" /\ t.lang = r.lang /\ r.status = "transcribing"
    BY <1>3, <1>1, <1>5, <1>14, TranscriptionSucceededFacts, SMTT(30)
       DEF SaveTranscript, Writes, Accepts
  <2>3. row'[m] = s /\ \A k \in Meetings : k # m => row'[k] = row[k]
    BY <1>3, <1>9, <2>1, <2>2, SetRowFacts
  <2>4. transcript'[m] = t /\ \A k \in Meetings : k # m => transcript'[k] = transcript[k]
    BY <1>3, <1>9, <1>14 DEF SaveTranscript
  <2>5. worker'[w].at = "loadForDiarization" /\ worker'[w].m = m
    BY <1>9, <1>14, Points, GotoFacts DEF SaveTranscript
  <2> HIDE DEF t
  <2>6. MeetingSound(s, t, versions[m], files[m])
    BY <1>3, <2>1, <2>2, TranscriptionSucceededSound
  <2> HIDE DEF s
  <2>7. WorkerSound(worker'[w], t, files[m])
    BY <2>5, SMT DEF WorkerSound
  <2>8. row'[m].status \in Stages
    BY <2>2, <2>3, SMT DEF Stages
  <2>9. OnlyMeeting(m)
    BY <1>1, <2>3, <2>4 DEF OnlyMeeting
  <2>10. QED
    BY <1>1, <1>3, <1>6, <1>8, <2>3, <2>4, <2>5, <2>6, <2>7, <2>8, <2>9, DataByWorker
<1>15. CASE SaveDiarization(w)
  <2> DEFINE s == DiarizationSucceeded(r)
             t == x.segments
  <2>1. /\ s \in Row /\ s.status = "summarizing" /\ r.status = "diarizing"
        /\ t.lang = r.lang /\ t.diarized
    BY <1>1, <1>3, <1>4, <1>5, <1>15, DiarizationSucceededFacts, SMTT(30)
       DEF SaveDiarization, Writes, Accepts, WorkerSound
  <2>2. row'[m] = s /\ \A k \in Meetings : k # m => row'[k] = row[k]
    BY <1>3, <1>9, <1>15, <2>1, SetRowFacts DEF SaveDiarization
  <2>3. transcript'[m] = t /\ \A k \in Meetings : k # m => transcript'[k] = transcript[k]
    BY <1>3, <1>9, <1>15 DEF SaveDiarization
  <2>4. worker'[w].at = "markSummarizing" /\ worker'[w].m = m /\ worker'[w].segments = t
    BY <1>9, <1>15, Points, GotoFacts DEF SaveDiarization
  <2>5. MeetingSound(s, t, versions[m], files[m])
    BY <1>3, <2>1, DiarizationSucceededSound
  <2> HIDE DEF s, t
  <2>6. WorkerSound(worker'[w], t, files[m])
    BY <2>4, SMT DEF WorkerSound
  <2>7. row'[m].status \in Stages
    BY <2>1, <2>2, SMT DEF Stages
  <2>8. OnlyMeeting(m)
    BY <1>1, <2>2, <2>3 DEF OnlyMeeting
  <2>9. QED
    BY <1>1, <1>3, <1>6, <1>8, <2>2, <2>3, <2>4, <2>5, <2>6, <2>7, <2>8, DataByWorker
<1>16. QED
  BY <1>10, <1>11, <1>12, <1>13, <1>14, <1>15

\* What a load and a diarization leave in the worker's hands.
LEMMA LoadSegmentsFacts ==
  ASSUME TypeInv, NEW w \in Workers, LoadSegments(w), worker[w].m \in Meetings
  PROVE  /\ worker'[w].at = AfterLoading[worker[w].at]
         /\ worker'[w].m = worker[w].m /\ worker'[w].lang = worker[w].lang
         /\ worker'[w].segments = transcript[worker[w].m]
<1> DEFINE point == AfterLoading[worker[w].at]
           t     == transcript[worker[w].m]
           new   == [worker[w] EXCEPT !.at = point, !.segments = t]
<1>1. /\ worker \in [Workers -> Worker] /\ worker[w] \in Worker
      /\ t \in Transcript /\ point \in BusyPoints
  BY AfterLoadingBusy DEF LoadSegments, TypeInv, TypeOK
<1>2. worker' = [worker EXCEPT ![w] = new]
  BY Zenon DEF LoadSegments
<1> HIDE DEF point, t
<1>3. /\ new.at = point /\ new.segments = t /\ new.m = worker[w].m
      /\ new.lang = worker[w].lang
  BY <1>1, Zenon DEF Worker
<1> HIDE DEF new
<1>4. worker'[w] = new
  BY <1>1, <1>2, Zenon
<1>5. QED
  BY <1>3, <1>4, Zenon DEF point, t

\* Diarization assigns speakers to the segments it was given.
LEMMA DiarizeFacts ==
  ASSUME TypeInv, NEW w \in Workers, Diarize(w)
  PROVE  /\ worker'[w].at = "saveDiarization"
         /\ worker'[w].m = worker[w].m /\ worker'[w].lang = worker[w].lang
         /\ worker'[w].segments.lang = worker[w].segments.lang
         /\ worker'[w].segments.diarized
<1> DEFINE t   == [worker[w].segments EXCEPT !.diarized = TRUE]
           new == [worker[w] EXCEPT !.at = "saveDiarization", !.segments = t]
<1>1. /\ worker \in [Workers -> Worker] /\ worker[w] \in Worker
      /\ worker[w].segments \in Transcript
  BY Zenon DEF TypeInv, TypeOK, Worker
<1>2. t.lang = worker[w].segments.lang /\ t.diarized
  BY <1>1, DiarizedFacts, Zenon
<1>3. worker' = [worker EXCEPT ![w] = new]
  BY Zenon DEF Diarize
<1> HIDE DEF t
<1>4. /\ new.at = "saveDiarization" /\ new.segments = t /\ new.m = worker[w].m
      /\ new.lang = worker[w].lang
  BY <1>1, Zenon DEF Worker
<1> HIDE DEF new
<1>5. worker'[w] = new
  BY <1>1, <1>3, Zenon
<1>6. QED
  BY <1>2, <1>4, <1>5

\* The work between the statements: files, segments and progress.
LEMMA WorkDataStep ==
  ASSUME SystemInv, NEW w \in Workers,
         \/ Convert(w) \/ Cleanup(w) \/ Transcribe(w) \/ LoadSegments(w)
         \/ Diarize(w) \/ ReportProgress(w)
  PROVE  DataSound'
<1> DEFINE x == worker[w]
           m == x.m
           r == row[m]
<1>1. x.at \in BusyPoints
  <2>1. \/ x.at \in {"convert", "cleanup", "transcribe", "diarize"}
        \/ x.at \in DOMAIN AfterLoading
    BY DEF Convert, Cleanup, Transcribe, LoadSegments, Diarize, ReportProgress
  <2>2. QED
    BY <2>1, Points, SMT
<1>2. /\ x \in Worker /\ x.at # "off" /\ m \in Meetings /\ r \in Row
      /\ MeetingSound(r, transcript[m], versions[m], files[m])
      /\ \/ r.status = "deleted"
         \/ Fits(x, r) /\ WorkerSound(x, transcript[m], files[m])
  BY <1>1, BusyMeeting
<1>3. \A v \in Workers : v # w => worker'[v] = worker[v]
  BY RunningStep DEF SystemInv, Stage
<1>4. /\ worker \in [Workers -> Worker] /\ transcript \in [Meetings -> Transcript]
      /\ files \in [Meetings -> SUBSET {"directory", "original", "normalized"}]
  BY DEF SystemInv, TypeInv, TypeOK
<1>5. UNCHANGED handler
  BY DEF Convert, Cleanup, Transcribe, LoadSegments, Diarize, ReportProgress
<1>6. CASE Convert(w) \/ Cleanup(w)
  <2>1. UNCHANGED <<row, transcript, versions>>
    BY <1>6 DEF Convert, Cleanup
  <2>2. r.status \in {"normalizing", "deleted"}
    BY <1>2, <1>6, SMTT(30) DEF Convert, Cleanup, Fits, Expected
  <2>3. PICK point \in {"cleanup", "markTranscribing"} : Goto(w, point)
    BY <1>6 DEF Convert, Cleanup
  <2>4. worker'[w].at = point /\ worker'[w].m = m
    BY <1>4, <2>3, Points, GotoFacts
  <2>5. /\ files'[m] \in {files[m], files[m] \union {"normalized"},
                         files[m] \ {"original"}}
        /\ files'[m] # files[m] \union {"normalized"} => "normalized" \in files[m]
        /\ \A k \in Meetings : k # m => files'[k] = files[k]
    BY <1>2, <1>4, <1>6 DEF Convert, Cleanup
  <2>6. "normalized" \in files'[m]
    BY <2>5
  <2>7. AudioSound(r, files'[m])
    BY <2>2, <2>6, SMT DEF AudioSound, NextStage
  <2>8. MeetingSound(r, transcript[m], versions[m], files'[m])
    BY <1>2, <2>7 DEF MeetingSound
  <2>9. WorkerSound(worker'[w], transcript[m], files'[m])
    BY <2>4, <2>6, SMT DEF WorkerSound
  <2>10. OnlyMeeting(m) /\ SameForRequests(row[m], row'[m])
    BY <2>1, <2>5 DEF OnlyMeeting, SameForRequests
  <2>11. QED
    BY <1>2, <1>3, <1>5, <2>1, <2>4, <2>8, <2>9, <2>10, DataByWorker
<1>7. CASE Transcribe(w)
  <2>1. worker'[w].at = "saveTranscript"
    BY <1>4, <1>7, DetectingWorkerFacts DEF Transcribe
  <2>2. WorkerSound(worker'[w], transcript[worker'[w].m], files[worker'[w].m])
    BY <2>1, SMT DEF WorkerSound
  <2>3. QED
    BY <1>2, <1>3, <1>7, <2>2, DataByMemory DEF Transcribe
<1>8. CASE LoadSegments(w)
  <2>1. x.at \in DOMAIN AfterLoading
    BY <1>8 DEF LoadSegments
  <2>2. /\ worker'[w].at = AfterLoading[x.at] /\ worker'[w].m = m
        /\ worker'[w].lang = x.lang /\ worker'[w].segments = transcript[m]
    BY <1>2, <1>8, LoadSegmentsFacts DEF SystemInv
  <2>3. x.at \in {"loadForDiarization", "loadForSummary", "loadForRegeneration"}
    BY <2>1, Points
  <2>4. ASSUME row[worker'[w].m].status # "deleted"
        PROVE  WorkerSound(worker'[w], transcript[m], files[m])
    <3>1. r.status \in Expected[x.at] /\ r.lang = x.lang
      BY <1>2, <2>2, <2>4 DEF Fits
    <3>2. CASE x.at = "loadForDiarization"
      <4>1. r.status = "diarizing" /\ worker'[w].at = "markDiarizing"
        BY <2>2, <3>1, <3>2, SMT DEF Expected, AfterLoading
      <4>2. transcript[m].lang = r.lang
        BY <1>2, <4>1 DEF MeetingSound, TranscriptSound, NextStage
      <4>3. QED
        BY <2>2, <3>1, <4>1, <4>2, SMT DEF WorkerSound
    <3>3. CASE x.at \in {"loadForSummary", "loadForRegeneration"}
      <4>1. worker'[w].at \in {"markSummarizing", "regenerate"}
        BY <2>2, <3>3, SMT DEF AfterLoading
      <4>2. QED
        BY <2>2, <4>1, SMT DEF WorkerSound
    <3>4. QED
      BY <2>3, <3>2, <3>3
  <2>5. QED
    BY <1>2, <1>3, <1>8, <2>2, <2>4, DataByMemory DEF LoadSegments
<1>9. CASE Diarize(w)
  <2>1. /\ worker'[w].at = "saveDiarization" /\ worker'[w].m = m
        /\ worker'[w].lang = x.lang /\ worker'[w].segments.lang = x.segments.lang
        /\ worker'[w].segments.diarized
    BY <1>9, DiarizeFacts DEF SystemInv
  <2>2. ASSUME row[worker'[w].m].status # "deleted"
        PROVE  WorkerSound(worker'[w], transcript[m], files[m])
    <3>1. x.segments.lang = x.lang
      BY <1>2, <1>9, <2>1, <2>2 DEF WorkerSound, Diarize
    <3>2. QED
      BY <2>1, <3>1, SMT DEF WorkerSound
  <2>3. QED
    BY <1>2, <1>3, <1>9, <2>1, <2>2, DataByMemory DEF Diarize
<1>10. CASE ReportProgress(w)
  <2>1. PICK p \in ProgressMarks : SetRow(m, TranscriptionProgressed(r, p))
    BY <1>10 DEF ReportProgress
  <2>2. p \in -1 .. 100
    BY PipelineAssumption, SMT
  <2> DEFINE s == TranscriptionProgressed(r, p)
  <2>3. /\ s \in Row /\ s.status = r.status /\ s.resume = r.resume
        /\ s.failedAt = r.failedAt /\ s.lang = r.lang /\ s.detected = r.detected
        /\ s.latest = r.latest
    BY <1>2, <2>2, TranscriptionProgressedFacts
  <2>4. /\ OnlyMeeting(m) /\ row'[m] = s
        /\ UNCHANGED <<transcript, versions, files, worker>>
    BY <1>2, <1>10, <2>1, <2>3, RowOnly DEF SystemInv, ReportProgress
  <2> HIDE DEF s
  <2>5. MeetingSound(s, transcript[m], versions[m], files[m])
    BY <1>2, <2>3, SameColumnsSound
  <2>6. SameForRequests(r, s)
    BY <2>3 DEF SameForRequests
  <2>7. WorkerSound(x, transcript[m], files[m])
    BY <1>10, SMT DEF WorkerSound, ReportProgress
  <2>8. QED
    BY <1>2, <1>3, <1>5, <2>4, <2>5, <2>6, <2>7, DataByWorker
<1>11. QED
  BY <1>6, <1>7, <1>8, <1>9, <1>10

\* How a run on a meeting ends.
LEMMA OutcomeDataStep ==
  ASSUME SystemInv, NEW w \in Workers,
         \/ Summarize(w) \/ Regenerate(w) \/ StageFails(w) \/ RegenerationFails(w)
         \/ WriteRefused(w) \/ DatabaseError(w)
  PROVE  DataSound'
<1> DEFINE x == worker[w]
           m == x.m
           r == row[m]
<1>1. x.at \in BusyPoints
  <2>1. \/ x.at \in {"summarize", "regenerate"}
        \/ x.at \in DOMAIN Accepts \union DOMAIN FailureStage \union RegenerationPoints
        \/ x.at \in BusyPoints
    BY Zenon DEF Summarize, Regenerate, StageFails, RegenerationFails, WriteRefused,
                 DatabaseError, Writes
  <2>2. QED
    BY <2>1, Points, SMT
<1>2. /\ x \in Worker /\ x.at # "off" /\ m \in Meetings /\ r \in Row
      /\ versions[m] \in SUBSET SummaryVersion
      /\ MeetingSound(r, transcript[m], versions[m], files[m])
      /\ \/ r.status = "deleted"
         \/ Fits(x, r) /\ WorkerSound(x, transcript[m], files[m])
  BY <1>1, BusyMeeting
<1>3. /\ row \in [Meetings -> Row] /\ worker \in [Workers -> Worker]
      /\ versions \in [Meetings -> SUBSET SummaryVersion]
  BY DEF SystemInv, TypeInv, TypeOK
<1>4. /\ \A v \in Workers : v # w => worker'[v] = worker[v]
      /\ worker'[w].at \notin BusyPoints
      /\ UNCHANGED <<transcript, files, handler>>
  <2>1. BecomeIdle(w) /\ UNCHANGED <<transcript, files, handler>>
    BY DEF Summarize, Regenerate, StageFails, RegenerationFails, WriteRefused,
           DatabaseError, data
  <2>2. "idle" \notin BusyPoints
    BY Points, SMT
  <2>3. QED
    BY <1>3, <2>1, <2>2, BecomeIdleFacts
<1>5. CASE UNCHANGED <<row, versions>>
  BY <1>2, <1>4, <1>5, DataByMemory DEF data
<1>6. CASE WriteRefused(w) \/ DatabaseError(w)
  BY <1>5, <1>6 DEF WriteRefused, DatabaseError, data
<1>7. CASE Summarize(w)
  <2> DEFINE s == SummarizationSucceeded(r)
  <2>1. r.status = "summarizing" /\ x.at = "summarize" /\ r.status # "deleted"
    BY <1>7, SMT DEF Summarize, Writes, Accepts
  <2>2. x.segments = transcript[m]
    BY <1>2, <2>1 DEF WorkerSound
  <2>3. s \in Row /\ s.status = "done"
    BY <1>2, SummarizationSucceededFacts
  <2>4. row'[m] = s /\ \A k \in Meetings : k # m => row'[k] = row[k]
    BY <1>2, <1>3, <1>7, <2>3, SetRowFacts DEF Summarize
  <2>5. /\ versions'[m] = {v \in versions[m] : v.number # 1}
             \union {[number |-> 1, source |-> "initial", of |-> transcript[m]]}
        /\ \A k \in Meetings : k # m => versions'[k] = versions[k]
    BY <1>2, <1>3, <1>7, <2>2, Zenon DEF Summarize
  <2>6. MeetingSound(s, transcript[m], versions'[m], files[m])
    BY <1>2, <2>1, <2>5, SummarizationSucceededSound
  <2> HIDE DEF s
  <2>7. OnlyMeeting(m)
    BY <1>4, <2>4, <2>5 DEF OnlyMeeting
  <2>8. r.status \in NonTerminal
    BY <2>1, SMT DEF NonTerminal, Stages
  <2>9. QED
    BY <1>2, <1>4, <2>3, <2>4, <2>6, <2>7, <2>8, DataByWorker
<1>8. CASE Regenerate(w)
  <2> DEFINE s == RegenerationSucceeded(r)
  <2>1. r.status = "done" /\ x.at = "regenerate"
    BY <1>8 DEF Regenerate
  <2>2. x.segments = transcript[m]
    BY <1>2, <2>1 DEF WorkerSound
  <2>3. s \in Row /\ s.status = "done"
    BY <1>2, <2>1, RegenerationSucceededFacts
  <2>4. row'[m] = s /\ \A k \in Meetings : k # m => row'[k] = row[k]
    BY <1>2, <1>3, <1>8, <2>3, SetRowFacts DEF Regenerate
  <2>5. /\ versions'[m] = versions[m]
             \union {[number |-> r.latest + 1, source |-> "ai_revision",
                      of |-> transcript[m]]}
        /\ \A k \in Meetings : k # m => versions'[k] = versions[k]
    BY <1>2, <1>3, <1>8, <2>2, Zenon DEF Regenerate
  <2>6. MeetingSound(s, transcript[m], versions'[m], files[m])
    BY <1>2, <2>1, <2>5, RegenerationSucceededSound
  <2> HIDE DEF s
  <2>7. OnlyMeeting(m)
    BY <1>4, <2>4, <2>5 DEF OnlyMeeting
  <2>8. QED
    BY <1>2, <1>4, <2>1, <2>3, <2>4, <2>6, <2>7, DataByWorker
<1>9. CASE StageFails(w) /\ r.status \in NonTerminal
  <2>1. PICK kind \in FailureKinds[x.at] :
          SetRow(m, Failed(r, kind, FailureStage[x.at]))
    BY <1>9 DEF StageFails
  <2>2. kind \in ErrorKinds /\ UNCHANGED versions
    BY <1>9, <2>1, FailuresTyped DEF StageFails, data
  <2>3. r.status # "deleted" /\ r.status \in Expected[x.at]
    BY <1>2, <1>9, SMT DEF NonTerminal, Stages, Fits
  <2>4. r.status = FailureStage[x.at] /\ r.status \in Stages
    BY <1>9, <2>3, Points, SMT DEF StageFails, Expected, FailureStage, Stages
  <2> DEFINE s == Failed(r, kind, r.status)
  <2>5. s \in Row /\ s.status = "error"
    BY <1>2, <2>2, <2>4, FailedFacts
  <2>6. row'[m] = s /\ \A k \in Meetings : k # m => row'[k] = row[k]
    BY <1>2, <1>3, <2>1, <2>4, <2>5, SetRowFacts
  <2>7. MeetingSound(s, transcript[m], versions[m], files[m])
    BY <1>2, <2>2, <2>4, FailedSound
  <2> HIDE DEF s
  <2>8. OnlyMeeting(m)
    BY <1>4, <2>2, <2>6 DEF OnlyMeeting
  <2>9. QED
    BY <1>2, <1>4, <1>9, <2>2, <2>5, <2>6, <2>7, <2>8, DataByWorker
<1>10. CASE StageFails(w) /\ r.status \notin NonTerminal
  BY <1>5, <1>10 DEF StageFails, data
<1>11. CASE RegenerationFails(w)
  <2>1. CASE r.status = "done" /\ r.regen = "processing"
    <3> DEFINE s == RegenerationFailed(r)
    <3>1. /\ s \in Row /\ s.status = r.status /\ s.resume = r.resume
          /\ s.failedAt = r.failedAt /\ s.lang = r.lang /\ s.detected = r.detected
          /\ s.latest = r.latest
      BY <1>2, RegenerationFailedFacts
    <3>2. /\ OnlyMeeting(m) /\ row'[m] = s
          /\ UNCHANGED <<transcript, versions, files>>
      BY <1>2, <1>11, <2>1, <3>1, RowOnly DEF SystemInv, RegenerationFails
    <3> HIDE DEF s
    <3>3. MeetingSound(s, transcript[m], versions[m], files[m])
      BY <1>2, <3>1, SameColumnsSound
    <3>4. SameForRequests(r, s)
      BY <3>1 DEF SameForRequests
    <3>5. QED
      BY <1>2, <1>4, <3>2, <3>3, <3>4, DataByWorker
  <2>2. CASE ~(r.status = "done" /\ r.regen = "processing")
    BY <1>5, <1>11, <2>2 DEF RegenerationFails, data
  <2>3. QED
    BY <2>1, <2>2
<1>12. QED
  BY <1>6, <1>7, <1>8, <1>9, <1>10, <1>11

-----------------------------------------------------------------------------
(* The steps of the web app.                                                *)

\* A worker in the middle of a meeting keeps what it relies on: a request leaves
\* the transcript and the files, or removes them, or finds a row that nobody works
\* on.
LEMMA WorkersSoundByRequest ==
  ASSUME SystemInv, UNCHANGED worker, NEW m \in Meetings, OnlyMeeting(m),
         \/ row'[m].status = "deleted"
         \/ row[m].status \in {"absent", "pending", "error"}
         \/ /\ row'[m].status = row[m].status
            /\ transcript'[m] = transcript[m]
            /\ files'[m] = files[m] \/ "directory" \notin files'[m]
  PROVE  WorkersSound'
<1> SUFFICES ASSUME NEW w \in Workers, worker[w].at \in BusyPoints,
                    row'[worker[w].m].status # "deleted"
             PROVE  WorkerSound(worker[w], transcript'[worker[w].m],
                                files'[worker[w].m])
  BY DEF WorkersSound, Busy
<1>1. /\ worker[w].m \in Meetings
      /\ \/ row[worker[w].m].status = "deleted"
         \/ /\ Fits(worker[w], row[worker[w].m])
            /\ WorkerSound(worker[w], transcript[worker[w].m], files[worker[w].m])
  BY BusyMeeting
<1>2. CASE worker[w].m # m
  BY <1>1, <1>2 DEF OnlyMeeting
<1>3. CASE worker[w].m = m /\ row[m].status \in {"absent", "pending", "error"}
  <2>1. Expected[worker[w].at] \subseteq Stages \union {"done"}
    BY ExpectedFacts
  <2>2. row[m].status \in Stages \union {"done"}
    BY <1>1, <1>3, <2>1 DEF Fits
  <2>3. QED
    BY <1>3, <2>2, SMT DEF Stages
<1>4. CASE /\ worker[w].m = m
           /\ row'[m].status = row[m].status /\ transcript'[m] = transcript[m]
           /\ files'[m] = files[m] \/ "directory" \notin files'[m]
  BY <1>1, <1>4 DEF WorkerSound
<1>5. QED
  BY <1>2, <1>3, <1>4

\* The other requests in flight do not notice a request's write, because none of
\* them is an update of the same meeting, or because they will find the row gone.
LEMMA RequestsSoundByRequest ==
  ASSUME SystemInv, OneUpdatePerMeeting, NEW h \in Handlers, handler[h].op # "none",
         \A g \in Handlers : g # h => handler'[g] = handler[g],
         NEW m \in Meetings, m = handler[h].m,
         \A k \in Meetings : k # m => row'[k] = row[k],
         \/ handler'[h].op = "none"
         \/ handler'[h].m = m /\ RequestFresh(handler'[h], row'[m]),
         \/ SameForRequests(row[m], row'[m])
         \/ row'[m].status = "deleted"
         \/ handler[h].op \in {"retry", "language"} /\ row'[m].status # "absent"
  PROVE  RequestsSound'
<1> SUFFICES ASSUME NEW g \in Handlers, g # h, handler[g].op # "none"
             PROVE  RequestFresh(handler[g], row'[handler[g].m])
  BY DEF RequestsSound
<1>1. handler[g].m \in Meetings /\ RequestFresh(handler[g], row[handler[g].m])
  BY DEF SystemInv, TypeInv, DataSound, RequestsSound
<1>2. CASE handler[g].m # m
  BY <1>1, <1>2
<1>3. CASE handler[g].m = m /\ SameForRequests(row[m], row'[m])
  BY <1>1, <1>3, StaysFresh
<1>4. CASE handler[g].m = m /\ row'[m].status = "deleted"
  BY <1>4 DEF RequestFresh
<1>5. CASE /\ handler[g].m = m
           /\ handler[h].op \in {"retry", "language"} /\ row'[m].status # "absent"
  <2>1. handler[g].op \notin {"retry", "language"}
    BY <1>5 DEF OneUpdatePerMeeting
  <2>2. QED
    BY <1>5, <2>1 DEF RequestFresh
<1>6. QED
  BY <1>2, <1>3, <1>4, <1>5

\* The second halves of the web app's requests: write, notify, or give up.
LEMMA RequestDataStep ==
  ASSUME SystemInv, OneUpdatePerMeeting, NEW h \in Handlers,
         RequestStep(h) \/ RequestDies(h)
  PROVE  DataSound'
<1> DEFINE m == handler[h].m
           u == handler[h].update
           r == row[m]
<1>1. /\ row \in [Meetings -> Row] /\ handler \in [Handlers -> Handler]
      /\ transcript \in [Meetings -> Transcript]
      /\ versions \in [Meetings -> SUBSET SummaryVersion]
      /\ files \in [Meetings -> SUBSET {"directory", "original", "normalized"}]
  BY DEF SystemInv, TypeInv, TypeOK
<1>2. handler[h].op # "none" /\ UNCHANGED worker
  BY DEF RequestStep, RequestDies, RetryWrite, LanguageWrite, DeleteFiles, DeleteRow
<1>3. m \in Meetings /\ r \in Row /\ RequestFresh(handler[h], r)
  BY <1>1, <1>2 DEF SystemInv, TypeInv, DataSound, RequestsSound
<1>4. MeetingSound(r, transcript[m], versions[m], files[m])
  BY <1>3 DEF SystemInv, DataSound, MeetingsSound
<1>5. ASSUME Finish(h)
      PROVE  /\ handler'[h].op = "none"
             /\ \A g \in Handlers : g # h => handler'[g] = handler[g]
  BY <1>1, <1>5, FinishFacts
<1>6. CASE Finish(h) /\ UNCHANGED <<row, data>>
  <2>1. OnlyMeeting(m) /\ SameForRequests(row[m], row'[m])
    BY <1>6 DEF OnlyMeeting, SameForRequests, data
  <2>2. RequestsSound'
    BY <1>2, <1>3, <1>5, <1>6, <2>1, RequestsSoundByRequest DEF OnlyMeeting
  <2>3. MeetingsSound' /\ WorkersSound'
    BY <1>2, <1>6
       DEF SystemInv, DataSound, MeetingsSound, WorkersSound, Busy, data
  <2>4. QED
    BY <2>2, <2>3 DEF DataSound
<1>7. ASSUME handler[h].op \in {"retry", "language"}, Finish(h), UNCHANGED data,
             NEW s \in Row, SetRow(m, s), r.status \in {"pending", "error"},
             s.status = "pending",
             MeetingSound(s, transcript[m], versions[m], files[m])
      PROVE  DataSound'
  <2>1. /\ OnlyMeeting(m) /\ row'[m] = s
        /\ UNCHANGED <<transcript, versions, files>>
    BY <1>3, <1>7, RowOnly DEF SystemInv
  <2>2. RequestsSound'
    BY <1>2, <1>3, <1>5, <1>7, <2>1, RequestsSoundByRequest DEF OnlyMeeting
  <2>3. WorkersSound'
    BY <1>2, <1>3, <1>7, <2>1, WorkersSoundByRequest
  <2>4. MeetingsSound'
    BY <1>3, <1>7, <2>1, MeetingsSoundByOne DEF SystemInv, DataSound
  <2>5. QED
    BY <2>2, <2>3, <2>4 DEF DataSound
<1>8. CASE RetryWrite(h)
  <2>1. /\ handler[h].op = "retry" /\ Finish(h) /\ UNCHANGED data
        /\ \/ UNCHANGED row
           \/ r.status = "error" /\ SetRow(m, Retried(r, u))
    BY <1>8 DEF RetryWrite
  <2>2. CASE r.status = "error" /\ SetRow(m, Retried(r, u))
    <3>1. PICK lang \in Languages : u = RetryUpdate(r, lang)
      BY <1>3, <2>1, <2>2 DEF RequestFresh
    <3>2. /\ Retried(r, u) \in Row
          /\ MeetingSound(Retried(r, u), transcript[m], versions[m], files[m])
      BY <1>3, <1>4, <2>2, <3>1, RetriedSound
    <3>3. Retried(r, u).status = "pending"
      <4>1. u \in Update
        BY <1>1, Zenon DEF Handler
      <4>2. QED
        BY <1>3, <4>1, RetriedFacts
    <3>4. QED
      BY <1>7, <2>1, <2>2, <3>2, <3>3
  <2>3. QED
    BY <1>6, <2>1, <2>2
<1>9. CASE LanguageWrite(h)
  <2>1. /\ handler[h].op = "language" /\ Finish(h) /\ UNCHANGED data
        /\ \/ UNCHANGED row
           \/ r.status = "pending" /\ SetRow(m, LanguageUpdated(r, u))
    BY <1>9 DEF LanguageWrite
  <2>2. CASE r.status = "pending" /\ SetRow(m, LanguageUpdated(r, u))
    <3>1. PICK lang \in Languages : u = PendingLanguageUpdate(r, lang)
      BY <1>3, <2>1, <2>2 DEF RequestFresh
    <3>2. /\ LanguageUpdated(r, u) \in Row
          /\ MeetingSound(LanguageUpdated(r, u), transcript[m], versions[m], files[m])
      BY <1>3, <1>4, <2>2, <3>1, LanguageUpdatedSound
    <3>3. LanguageUpdated(r, u).status = "pending"
      <4>1. u \in Update
        BY <1>1, Zenon DEF Handler
      <4>2. QED
        BY <1>3, <2>2, <4>1, LanguageUpdatedFacts
    <3>4. QED
      BY <1>7, <2>1, <2>2, <3>2, <3>3
  <2>3. QED
    BY <1>6, <2>1, <2>2
<1>10. CASE DeleteFiles(h)
  <2>1. UNCHANGED <<row, transcript, versions>>
    BY <1>10 DEF DeleteFiles
  <2>2. files'[m] = {} /\ \A k \in Meetings : k # m => files'[k] = files[k]
    BY <1>1, <1>3, <1>10 DEF DeleteFiles
  <2>3. /\ handler'[h].op = "deleteRow" /\ handler'[h].m = m
        /\ \A g \in Handlers : g # h => handler'[g] = handler[g]
    BY <1>1, <1>10, Zenon DEF DeleteFiles, Handler
  <2>4. OnlyMeeting(m) /\ SameForRequests(row[m], row'[m])
    BY <2>1, <2>2 DEF OnlyMeeting, SameForRequests
  <2>5. RequestFresh(handler'[h], row'[m])
    BY <1>3, <2>1, <2>3 DEF RequestFresh
  <2>6. RequestsSound'
    BY <1>2, <1>3, <2>3, <2>4, <2>5, RequestsSoundByRequest DEF OnlyMeeting
  <2>7. WorkersSound'
    BY <1>2, <1>3, <2>1, <2>2, <2>4, WorkersSoundByRequest
  <2>8. MeetingSound(r, transcript[m], versions[m], {})
    BY <1>4 DEF MeetingSound, AudioSound
  <2>9. MeetingsSound'
    BY <1>3, <2>1, <2>2, <2>4, <2>8, MeetingsSoundByOne DEF SystemInv, DataSound
  <2>10. QED
    BY <2>6, <2>7, <2>9 DEF DataSound
<1>11. CASE DeleteRow(h)
  <2>1. Finish(h) /\ SetRow(m, DeletedRow) /\ UNCHANGED files
    BY <1>11 DEF DeleteRow
  <2>2. row'[m] = DeletedRow /\ \A k \in Meetings : k # m => row'[k] = row[k]
    BY <1>1, <1>3, <2>1, DeletedRowFacts, SetRowFacts
  <2>3. /\ transcript'[m] = NoTranscript
        /\ \A k \in Meetings : k # m => transcript'[k] = transcript[k]
    BY <1>1, <1>3, <1>11 DEF DeleteRow
  <2>4. versions'[m] = {} /\ \A k \in Meetings : k # m => versions'[k] = versions[k]
    BY <1>1, <1>3, <1>11 DEF DeleteRow
  <2>5. OnlyMeeting(m) /\ row'[m].status = "deleted"
    BY <2>1, <2>2, <2>3, <2>4, DeletedRowFacts DEF OnlyMeeting
  <2>6. RequestsSound'
    BY <1>2, <1>3, <1>5, <2>1, <2>2, <2>5, RequestsSoundByRequest
  <2>7. WorkersSound'
    BY <1>2, <1>3, <2>5, WorkersSoundByRequest
  <2>8. MeetingSound(DeletedRow, NoTranscript, {}, files[m])
    BY GoneSound
  <2>9. MeetingsSound'
    BY <1>3, <2>1, <2>2, <2>3, <2>4, <2>5, <2>8, MeetingsSoundByOne
       DEF SystemInv, DataSound
  <2>10. QED
    BY <2>6, <2>7, <2>9 DEF DataSound
<1>12. QED
  BY <1>6, <1>8, <1>9, <1>10, <1>11 DEF RequestStep, RequestDies

\* A request reads the row and computes its update: fresh at that moment.
LEMMA ReadDataStep ==
  ASSUME SystemInv, NEW h \in Handlers, NEW m \in Meetings,
         RetryRead(h, m) \/ LanguageRead(h, m) \/ DeleteFind(h, m)
  PROVE  DataSound'
<1>1. /\ row \in [Meetings -> Row] /\ row[m] \in Row
      /\ handler \in [Handlers -> Handler]
  BY DEF SystemInv, TypeInv, TypeOK
<1>2. UNCHANGED <<row, data, worker>>
  BY DEF RetryRead, LanguageRead, DeleteFind
<1>3. MeetingsSound' /\ WorkersSound'
  BY <1>2 DEF SystemInv, DataSound, MeetingsSound, WorkersSound, Busy, data
<1>4. /\ \A g \in Handlers : g # h => handler'[g] = handler[g]
      /\ handler'[h].m = m /\ RequestFresh(handler'[h], row[m])
  <2>1. CASE RetryRead(h, m)
    <3>1. PICK lang \in Languages : Begin(h, "retry", m, RetryUpdate(row[m], lang))
      BY <2>1 DEF RetryRead
    <3>2. row[m].status = "error" /\ RetryUpdate(row[m], lang) \in Update
      BY <1>1, <2>1, RetryUpdateFacts DEF RetryRead, IsRetryable
    <3>3. /\ handler'[h].op = "retry" /\ handler'[h].m = m
          /\ handler'[h].update = RetryUpdate(row[m], lang)
          /\ \A g \in Handlers : g # h => handler'[g] = handler[g]
      BY <1>1, <3>1, <3>2, BeginFacts
    <3>4. QED
      BY <3>2, <3>3 DEF RequestFresh
  <2>2. CASE LanguageRead(h, m)
    <3>1. PICK lang \in Languages :
            Begin(h, "language", m, PendingLanguageUpdate(row[m], lang))
      BY <2>2 DEF LanguageRead
    <3>2. row[m].status = "pending" /\ PendingLanguageUpdate(row[m], lang) \in Update
      BY <1>1, <2>2, PendingLanguageUpdateFacts DEF LanguageRead
    <3>3. /\ handler'[h].op = "language" /\ handler'[h].m = m
          /\ handler'[h].update = PendingLanguageUpdate(row[m], lang)
          /\ \A g \in Handlers : g # h => handler'[g] = handler[g]
      BY <1>1, <3>1, <3>2, BeginFacts
    <3>4. QED
      BY <3>2, <3>3 DEF RequestFresh
  <2>3. CASE DeleteFind(h, m)
    <3>1. NoUpdate \in Update
      BY ColumnValues, Zenon DEF NoUpdate, Update
    <3>2. /\ handler'[h].op = "deleteFiles" /\ handler'[h].m = m
          /\ \A g \in Handlers : g # h => handler'[g] = handler[g]
      BY <1>1, <2>3, <3>1, BeginFacts DEF DeleteFind
    <3>3. row[m].status # "absent"
      BY <2>3, SMT DEF DeleteFind, Present, Statuses, NonTerminal, Stages
    <3>4. QED
      BY <3>2, <3>3 DEF RequestFresh
  <2>4. QED
    BY <2>1, <2>2, <2>3
<1>5. RequestsSound'
  BY <1>2, <1>4 DEF SystemInv, DataSound, RequestsSound
<1>6. QED
  BY <1>3, <1>5 DEF DataSound

\* Uploads, regenerations, titles and time.
LEMMA MeetingDataStep ==
  ASSUME SystemInv, NEW m \in Meetings,
         Upload(m) \/ RegenerateSummary(m) \/ UpdateTitle(m) \/ Age(m)
  PROVE  DataSound'
<1> DEFINE r == row[m]
<1>1. /\ row \in [Meetings -> Row] /\ r \in Row
      /\ files \in [Meetings -> SUBSET {"directory", "original", "normalized"}]
  BY DEF SystemInv, TypeInv, TypeOK
<1>2. MeetingSound(r, transcript[m], versions[m], files[m])
  BY DEF SystemInv, DataSound, MeetingsSound
<1>3. UNCHANGED <<worker, handler>>
  BY DEF Upload, RegenerateSummary, UpdateTitle, Age
<1>4. ASSUME NEW s \in Row, SetRow(m, s), UNCHANGED data,
             s.status = r.status, s.resume = r.resume, s.failedAt = r.failedAt,
             s.lang = r.lang, s.detected = r.detected, s.latest = r.latest
      PROVE  DataSound'
  <2>1. /\ OnlyMeeting(m) /\ row'[m] = s
        /\ UNCHANGED <<transcript, versions, files>>
    BY <1>4, RowOnly DEF SystemInv
  <2>2. MeetingSound(s, transcript[m], versions[m], files[m])
    BY <1>2, <1>4, SameColumnsSound
  <2>3. MeetingsSound'
    BY <2>1, <2>2, MeetingsSoundByOne DEF SystemInv, DataSound
  <2>4. SameForRequests(row[m], row'[m])
    BY <1>4, <2>1 DEF SameForRequests
  <2>5. RequestsSound'
    BY <1>3, <2>1, <2>4, RequestsSoundByRow DEF SystemInv, DataSound, OnlyMeeting
  <2>6. WorkersSound'
    BY <1>3, <1>4, <2>1, WorkersSoundByRequest
  <2>7. QED
    BY <2>3, <2>5, <2>6 DEF DataSound
<1>5. CASE RegenerateSummary(m)
  BY <1>1, <1>4, <1>5, RegenerationQueuedFacts DEF RegenerateSummary
<1>6. CASE UpdateTitle(m)
  BY <1>1, <1>4, <1>6, TitleUpdatedFacts DEF UpdateTitle
<1>7. CASE Age(m)
  <2>1. SetRow(m, [row[m] EXCEPT !.overdue = TRUE])
    BY <1>7, Zenon DEF Age, SetRow
  <2>2. QED
    BY <1>1, <1>4, <1>7, <2>1, AgedFacts DEF Age
<1>8. CASE Upload(m)
  <2>1. r.status = "absent" /\ UNCHANGED <<transcript, versions>>
    BY <1>8 DEF Upload
  <2>2. PICK lang \in Languages : SetRow(m, PendingRow(lang))
    BY <1>8 DEF Upload
  <2>3. /\ row'[m] = PendingRow(lang)
        /\ \A k \in Meetings : k # m => row'[k] = row[k]
    BY <1>1, <2>2, PendingRowFacts, SetRowFacts
  <2>4. /\ files'[m] = {"directory", "original"}
        /\ \A k \in Meetings : k # m => files'[k] = files[k]
    BY <1>1, <1>8 DEF Upload
  <2>5. OnlyMeeting(m)
    BY <2>1, <2>3, <2>4 DEF OnlyMeeting
  <2>6. MeetingSound(PendingRow(lang), transcript[m], versions[m],
                     {"directory", "original"})
    <3>1. r.latest = 0 /\ versions[m] = {}
      BY <1>2, <2>1 DEF MeetingSound, RowSound, SummariesSound
    <3>2. MeetingSound(PendingRow(lang), NoTranscript, {}, {"directory", "original"})
      BY PendingRowSound
    <3>3. NextStage(PendingRow(lang)) = "normalizing"
      BY PendingRowFacts DEF NextStage
    <3>4. QED
      BY <3>1, <3>2, <3>3 DEF MeetingSound, TranscriptSound, SummariesSound
  <2>7. MeetingsSound'
    BY <2>1, <2>3, <2>4, <2>5, <2>6, MeetingsSoundByOne DEF SystemInv, DataSound
  <2>8. WorkersSound'
    BY <1>3, <2>1, <2>5, WorkersSoundByRequest
  <2>9. RequestsSound'
    BY <1>3, <2>1, <2>3 DEF SystemInv, TypeInv, DataSound, RequestsSound, RequestFresh
  <2>10. QED
    BY <2>7, <2>8, <2>9 DEF DataSound
<1>9. QED
  BY <1>5, <1>6, <1>7, <1>8

-----------------------------------------------------------------------------
(* The invariant and what it implies.                                       *)

\* It holds of an empty table.
LEMMA DataInit == Init => SystemInv
<1> SUFFICES ASSUME Init PROVE SystemInv
  OBVIOUS
<1>1. TypeInv
  BY TypeInit
<1>2. LockHeld
  BY IdleTyped DEF Init, LockHeld
<1>3. \A w \in Workers : ~Busy(w)
  BY IdleTyped, Points, SMT DEF Init, Busy
<1>4. ClaimKept /\ WorkersSound
  BY <1>3 DEF ClaimKept, WorkersSound
<1>5. RequestsSound
  BY Zenon DEF Init, NoRequest, RequestsSound
<1>6. MeetingsSound
  BY GoneSound DEF Init, MeetingsSound
<1>7. QED
  BY <1>1, <1>2, <1>4, <1>5, <1>6 DEF SystemInv, DataSound

\* Every step keeps it, if no two updates of one meeting are in flight.
LEMMA DataStep ==
  ASSUME SystemInv, OneUpdatePerMeeting, [Next]_vars
  PROVE  SystemInv'
<1>1. TypeInv' /\ LockHeld' /\ ClaimKept'
  BY TypeStep, LockHeldStep, ClaimKeptStep DEF SystemInv
<1> SUFFICES DataSound'
  BY <1>1 DEF SystemInv
<1>2. ASSUME NEW w \in Workers, WorkerStep(w) \/ DatabaseError(w)
      PROVE  DataSound'
  <2>1. CASE StartWorker(w)
    <3>1. /\ worker'[w].at \notin BusyPoints /\ UNCHANGED <<row, data, handler>>
          /\ \A v \in Workers : v # w => worker'[v] = worker[v]
      BY <2>1, BecomeIdleFacts, Points, SMT DEF StartWorker, SystemInv, TypeInv, TypeOK
    <3>2. QED
      BY <3>1 DEF SystemInv, DataSound, MeetingsSound, WorkersSound, RequestsSound,
                  Busy, data
  <2>2. QED
    BY <1>2, <2>1, ClaimDataStep, StatusWriteDataStep, WorkDataStep, OutcomeDataStep
       DEF WorkerStep, Stage
<1>3. ASSUME NEW w \in Workers, CrashWorker(w)
      PROVE  DataSound'
  <2>1. worker'[w].at \notin BusyPoints /\ \A v \in Workers : v # w => worker'[v] = worker[v]
    BY <1>3, IdleTyped, Points, SMT DEF CrashWorker, SystemInv, TypeInv, TypeOK
  <2>2. QED
    BY <1>3, <2>1
       DEF CrashWorker, SystemInv, DataSound, MeetingsSound, WorkersSound,
           RequestsSound, Busy, data
<1>4. ASSUME NEW h \in Handlers, RequestStep(h) \/ RequestDies(h)
      PROVE  DataSound'
  BY <1>4, RequestDataStep
<1>5. ASSUME NEW h \in Handlers, NEW m \in Meetings,
             RetryRead(h, m) \/ LanguageRead(h, m) \/ DeleteFind(h, m)
      PROVE  DataSound'
  BY <1>5, ReadDataStep
<1>6. ASSUME NEW m \in Meetings,
             Upload(m) \/ RegenerateSummary(m) \/ UpdateTitle(m) \/ Age(m)
      PROVE  DataSound'
  BY <1>6, MeetingDataStep
<1>7. CASE UNCHANGED vars
  BY <1>7, DataUnchanged DEF vars, data
<1>8. CASE Next
  <2>1. CASE \E w \in Workers : WorkerStep(w)
    BY <2>1, <1>2
  <2>2. CASE \E h \in Handlers : RequestStep(h)
    BY <2>2, <1>4
  <2>3. CASE \E m \in Meetings : Age(m)
    BY <2>3, <1>6
  <2>4. CASE Request
    BY <2>4, <1>5, <1>6 DEF Request
  <2>5. CASE Fault
    BY <2>5, <1>2, <1>3, <1>4 DEF Fault
  <2>6. QED
    BY <1>8, <2>1, <2>2, <2>3, <2>4, <2>5 DEF Next
<1>9. QED
  BY <1>7, <1>8

\* The invariant, while updates of one meeting do not overlap; the theorems follow.
LEMMA SystemSound == Spec /\ []OneUpdatePerMeeting => []SystemInv
<1>1. Init => SystemInv
  BY DataInit
<1>2. SystemInv /\ OneUpdatePerMeeting /\ [Next]_vars => SystemInv'
  BY DataStep
<1>3. QED
  BY <1>1, <1>2, PTL DEF Spec

\* Audio is never lost: every meeting still to be processed keeps what the stages
\* ahead of it read, whatever crashes, is refused or retried, and whichever
\* requests for other meetings overlap.
THEOREM AudioKept == Spec /\ []OneUpdatePerMeeting => []AudioIsNeverLost
<1>1. SystemInv => AudioIsNeverLost
  BY DEF SystemInv, DataSound, MeetingsSound, MeetingSound, AudioSound,
         AudioIsNeverLost, DeletionBegun
<1>2. QED
  BY <1>1, SystemSound, PTL

\* Resuming never skips a stage: a meeting to be diarized or summarised next has the
\* transcript that stage reads.
THEOREM StageInputPresent == Spec /\ []OneUpdatePerMeeting => []StageHasItsInput
<1>1. ASSUME SystemInv, NEW m \in Meetings, Unfinished(row[m]),
             NextStage(row[m]) \in {"diarizing", "summarizing"}
      PROVE  /\ transcript[m] # NoTranscript
             /\ NextStage(row[m]) = "summarizing" => transcript[m].diarized
  <2>1. row[m] \in Row /\ TranscriptSound(row[m], transcript[m])
    BY <1>1 DEF SystemInv, TypeInv, TypeOK, DataSound, MeetingsSound, MeetingSound
  <2>2. row[m].lang \in Languages
    BY <2>1, Zenon DEF Row
  <2>3. NoTranscript.lang \notin Languages
    BY LanguageAssumption, SMT DEF NoTranscript, Languages
  <2>4. QED
    BY <1>1, <2>1, <2>2, <2>3 DEF TranscriptSound
<1>2. SystemInv => StageHasItsInput
  BY <1>1 DEF StageHasItsInput
<1>3. QED
  BY <1>2, SystemSound, PTL

\* Through every retry and change of language, a transcript that will be used as it
\* is was made for the language the row asks for.
THEOREM LanguageMatches == Spec /\ []OneUpdatePerMeeting => []TranscriptMatchesLanguage
<1>1. ASSUME NEW m \in Meetings, row[m].status = "done"
      PROVE  NextStage(row[m]) = "done"
  BY <1>1 DEF NextStage
<1>2. SystemInv => TranscriptMatchesLanguage
  BY <1>1 DEF SystemInv, DataSound, MeetingsSound, MeetingSound, TranscriptSound,
              TranscriptMatchesLanguage
<1>3. QED
  BY <1>2, SystemSound, PTL

\* `done` and a first summary come together, and every version summarises the
\* diarized transcript that the page shows.
THEOREM DoneComplete == Spec /\ []OneUpdatePerMeeting => []DoneIsComplete
<1>1. ASSUME SystemInv, NEW m \in Meetings
      PROVE  /\ row[m].status = "done" <=> versions[m] # {}
             /\ \A v \in versions[m] :
                  /\ v.number \in 1 .. row[m].latest
                  /\ v.of = transcript[m]
                  /\ v.source = "initial" <=> v.number = 1
             /\ row[m].latest # 0 => \E v \in versions[m] : v.number = row[m].latest
             /\ row[m].status = "done" => transcript[m].diarized
  <2>1. /\ RowSound(row[m]) /\ TranscriptSound(row[m], transcript[m])
        /\ SummariesSound(row[m], transcript[m], versions[m])
    BY <1>1 DEF SystemInv, DataSound, MeetingsSound, MeetingSound
  <2>2. row[m].status = "done" => NextStage(row[m]) = "done"
    BY DEF NextStage
  <2>3. row[m].status = "done" <=> versions[m] # {}
    BY <2>1 DEF RowSound, SummariesSound
  <2>4. QED
    BY <2>1, <2>2, <2>3 DEF TranscriptSound, SummariesSound
<1>2. SystemInv => DoneIsComplete
  BY <1>1 DEF DoneIsComplete
<1>3. QED
  BY <1>2, SystemSound, PTL

\* Postgres never rejects a statement for setting a detected language beside a
\* requested one: not the worker's, nor the write of an update in flight.
THEOREM CheckKept == Spec /\ []OneUpdatePerMeeting => []CheckIsNeverViolated
<1>1. ASSUME SystemInv, NEW m \in Meetings
      PROVE  row[m] \in Row /\ SatisfiesCheck(row[m]) /\ RowSound(row[m])
  BY <1>1 DEF SystemInv, TypeInv, TypeOK, DataSound, MeetingsSound, MeetingSound,
              RowSound
<1>2. ASSUME SystemInv, NEW w \in Workers, worker[w].at = "saveTranscript",
             row[worker[w].m].status = "transcribing", worker[w].lang = "auto"
      PROVE  row[worker[w].m].lang = "auto"
  <2>1. worker[w].at \in BusyPoints
    BY <1>2, Points, SMT
  <2>2. QED
    BY <1>2, <2>1, BusyMeeting DEF Fits
<1>3. ASSUME SystemInv, NEW h \in Handlers,
             \/ handler[h].op = "retry" /\ row[handler[h].m].status = "error"
             \/ handler[h].op = "language" /\ row[handler[h].m].status = "pending"
      PROVE  SatisfiesCheck(LanguageUpdated(row[handler[h].m], handler[h].update))
  <2> DEFINE r == row[handler[h].m]
             u == handler[h].update
  <2>1. handler[h].m \in Meetings /\ RequestFresh(handler[h], r)
    BY <1>3 DEF SystemInv, TypeInv, DataSound, RequestsSound
  <2>2. r \in Row /\ SatisfiesCheck(r) /\ RowSound(r)
    BY <1>1, <1>3, <2>1
  <2>3. u \in Update
    BY <1>3, Zenon DEF SystemInv, TypeInv, TypeOK, Handler
  <2>4. \/ u.lang = r.lang
        \/ u.clear
    <3>1. CASE handler[h].op = "retry" /\ r.status = "error"
      <4>1. PICK lang \in Languages : u = RetryUpdate(r, lang)
        BY <2>1, <3>1 DEF RequestFresh
      <4>2. r.failedAt \in Stages
        BY <2>2, <3>1, Zenon DEF RowSound, Row
      <4>3. QED
        BY <2>2, <4>1, <4>2, RetryUpdateFacts
    <3>2. CASE handler[h].op = "language" /\ r.status = "pending"
      <4>1. PICK lang \in Languages : u = PendingLanguageUpdate(r, lang)
        BY <2>1, <3>2 DEF RequestFresh
      <4>2. QED
        BY <2>2, <4>1, PendingLanguageUpdateFacts
    <3>3. QED
      BY <1>3, <3>1, <3>2
  <2>5. QED
    BY <2>2, <2>3, <2>4, LanguageUpdatedFacts DEF SatisfiesCheck
<1>4. SystemInv => CheckIsNeverViolated
  BY <1>1, <1>2, <1>3 DEF CheckIsNeverViolated
<1>5. QED
  BY <1>4, SystemSound, PTL
=============================================================================
