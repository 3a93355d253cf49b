# Slusko: a verification project in TLA+

Slusko records, transcribes and summarises meetings. A web app
(`src/web`, React Router on Node) takes uploads and shows results; a worker
(`src/worker`, Python) normalises, transcribes, diarizes and summarises; Postgres
holds everything and is also the queue between the two. Neither side calls the
other: they meet in the `meetings` row, and both write it with single SQL
statements whose `WHERE` clauses are the whole concurrency control.

That is what this project models first: who may write the row when, what a
process does with a row it read some time ago, and whether the row, the
transcript, the summaries and the audio on disk still fit each other after
crashes, retries, changes of language, renames and deletions. Then, how the
worker learns at all that there is something to do; what happens inside each of its
four stages; and, on the other side of the row, how a recording gets into the
system and what a browser tab shows of it.

1. [Inventory](#inventory)
2. [Modules](#modules)
3. [Model and code](#model-and-code)
4. [Properties](#properties)
5. [Runs](#runs)
6. [Fairness](#fairness)
7. [Proofs](#proofs)
8. [Findings](#findings)
9. [Variants](#variants)
10. [What is not modelled](#what-is-not-modelled)
11. [Plan](#plan)

## Inventory

`W` is `src/worker/src/slusko_worker`, `A` is `src/web/app`.

| Component | State it keeps | Operations | Talks to | Hard behaviour | Correct when |
| --- | --- | --- | --- | --- | --- |
| Meeting row and statements (`W/db/queue.py`, `A/lib/meetings-mutations.server.ts`, `A/db/schema.ts`) | status, resume stage, failure, progress, language, detected language, regeneration status, latest summary, timestamps | claim, status writes, failure writes, retry, language, regeneration, title, delete | everything | lost updates, stale reads, check constraints | columns always fit each other and the data they refer to |
| Worker pipeline (`W/pipeline/runner.py`, `errors.py`, `main.py`) | the claimed snapshot in memory, the advisory lock | claim, four stages, regeneration, failure mapping | row, files, models, LLM | crash between steps, five-minute reclaim, lock session lost, writes refused | one worker per meeting; resuming skips nothing; every meeting settles |
| Meeting mutations (`A/lib/meetings-mutations.server.ts`) | one request's reads | retry, language, regeneration, title, speaker mapping, delete | row, files | read, then write under a weaker guard | retry resumes the failed stage; transcripts match the language |
| Audio normalization (`W/pipeline/normalization.py`) | upload, `normalized.wav`, partial files | convert, rename, probe, remove the upload | files, ffmpeg | crash between steps, two processes in one directory | audio is never lost |
| Upload (`A/lib/meetings-upload.server.ts`) | stream, temporary file, directory | receive, validate, insert and notify, clean up | files, row, NOTIFY | half a stream, insert that fails or whose answer is lost | a row has its recording, a refused upload leaves nothing |
| Queue loop (`W/queue_loop.py`) | LISTEN connection, back-off | scan, listen, drain, poll, reconnect | pipeline, NOTIFY | lost wake-ups, restart sooner than the reclaim interval | every queued meeting is claimed |
| Transcription (`W/pipeline/transcription.py`) | progress, last report | segment by segment progress, detected language | row (progress) | throttle, duration zero, segment past the end | progress stays below 100 and close to what was heard |
| Diarization (`W/pipeline/diarization.py`) | turns, segments | assign a speaker to each segment | transcript | ties, gaps, empty turns | the speaker with the largest overlap wins |
| Summarization (`W/pipeline/summarization.py`) | attempt number | request with three retries, validation of the answer | LLM | retries at 1, 5, 25 s, answers that are no summary | bounded attempts, an answer is final |
| List of meetings (`A/routes/home.tsx`, `api.meetings.ts`, `A/lib/meetings-list.ts`) | query cache, upload dialog, fetcher | poll, upload, refetch | upload, row | three writers of one cache, answers out of order | an accepted upload is listed and stays; polling ends when all is over |
| Page of a meeting (`A/routes/meetings.$meetingId.tsx`, `A/lib/meetings-list.server.ts`, `meeting-detail-action.server.ts`) | loader data, polling timer, notice, open editors | load, poll, submit | row | four reads that are not one snapshot, edits over refreshed data | at rest it shows what is stored, and shows it whole |
| Speaker display, mapping and export (`A/lib/speaker-display.ts`, `meeting-export.ts`, mutations) | mappings by label | assign, show, list, export | segments, summary | labels inside labels, names that are labels, labels only the model uses | names replace labels that are words; an export lists every speaker in it |
| Presentation, configuration, seed data, evaluation scripts | none, or read once at start | format, parse | - | - | formatting only |

How they interact: an upload stores the file, inserts a `pending` row and
notifies; the queue loop claims the row (`FOR UPDATE SKIP LOCKED`, one statement,
committed at once) and hands a snapshot to the pipeline; the pipeline never reads
the row again, it only writes it, each write guarded by the status it expects;
requests of the web app write the same row under guards of their own. What keeps
a second worker off a claimed row is not a database lock but `updated_at` (a row
at a worker stage is claimable again after five minutes) and the advisory lock
that makes the worker a singleton.

## Modules

| Module | What it is |
| --- | --- |
| `MeetingRows` | the `meetings` row, and each SQL statement as an operator from the row it finds to the row it leaves |
| `MeetingPipeline` | worker processes, web requests, files, lock, crashes and time; the specification, its fairness and its properties |
| `MeetingLifecycle` | the abstract promise: the state machine of ADR 0007 with versioned summaries |
| `MCMeetingPipeline` | symmetry for TLC; the `Pipeline*.cfg` files give the instances |
| `MeetingPipelineProofs` | what each statement operator does, column by column; types, one worker per meeting, valid claims, append-only summaries, the recording that survives whatever overlaps |
| `MeetingDataProofs` | row, transcript, summaries and audio of a meeting fit each other |
| `MeetingLifecycleProofs` | the pipeline implements `MeetingLifecycle`; retry resumes the failed stage; the pages let the worker and other tabs do all that the pipeline does |
| `QueueLoop` | the loop of one worker process: LISTEN, drain, sleep, poll, back-off, reconnect, shutdown |
| `MCQueueLoop` | small instances for TLC; the `QueueLoop*.cfg` files give the meetings |
| `QueueLoopProofs` | no lost wake-up |
| `AudioFiles` | the abstract promise of normalization: the upload goes only when `normalized.wav` is there to stay |
| `Normalization` | `AudioNormalizer.normalize`, file by file |
| `TranscriptionLoop` | the loop over Whisper's segments: throttled progress, empty transcripts |
| `SpeakerAssignment` | which speaker a segment gets, as functions of the diarizer's turns |
| `SummaryRequest` | the request to the language model, its retries, the validation of the answer |
| `StageWork` | the four above as the stages of one meeting, with crashes, failures and retries |
| `MCStageWork` | turns and delays for TLC; `StageWork.cfg` |
| `StageWorkProofs` | normalization keeps the audio; types, progress, requests to the model; who a segment is given to |
| `UploadRequest` | one upload on the server: parts of the form, write, limits, broken connection, insert, cleanup |
| `HomePage` | the list of meetings in a browser tab, uploading through `UploadRequest` |
| `MeetingPage` | the page of a meeting in a browser tab |
| `SpeakerDisplay` | labels and names in text |
| `MeetingReport` | what page and export say of a meeting and its speakers |
| `WebApp` | the routes; `WebApp.cfg`, `WebAppOversized.cfg` |
| `WebAppProofs` | what an upload leaves behind, the list keeps it; what the page shows at rest, its notice, its editors; the types of `WebApp` |
| `ReportProofs` | labels and names in texts of any length; the line of speakers of an export |
| `CountingProofs` | induction over numbers, least and greatest, sums, ranks |

`MeetingPipeline` EXTENDS `MeetingRows` and instantiates `MeetingLifecycle` under
the refinement mapping `Lifecycle`. `QueueLoop` stands beside it: there a meeting
is only what a claim sees of it, here the loop is only a worker that claims at
any time. What `MeetingPipeline` assumes of the loop, that `Claim` is weakly fair,
is what `QueueIsWorkedOff` of `QueueLoop` is about.

`StageWork` EXTENDS the four stage modules and looks inside steps that
`MeetingPipeline` takes whole: `Convert` and `Cleanup` there are `AudioFiles`
here, which `Normalization` is shown to implement (`NormalizationKeepsAudio`);
`Stage` there is weakly fair because `WorkEnds` holds here. `HomePage` EXTENDS
`UploadRequest`; `WebApp` EXTENDS the pages and takes one route per behaviour,
since a tab is on one route at a time and pages share nothing but the database.
The worker and other tabs are in each page as the steps that change what that page
reads; that the pipeline changes it only so is proved (`TabsAreServed`).

## Model and code

**The row.** `Row` has the columns that decide something. Titles, file names,
error messages and times are left out, except that a normalization failure whose
message `isCorruptAudioNormalizationFailure` recognises is an error kind of its
own (`corrupt_audio`), because it decides whether retry is offered; and that
`overdue` stands for the comparison of `updated_at` (or the start of a
regeneration) with the five minutes of `RECOVERY_RECLAIM_INTERVAL_SQL`. Every
statement that refreshes the timestamp clears `overdue`, and `Age` sets it: time
is nothing but that. Only `updated_at` of a row at a worker stage and the start
of a regeneration can become overdue, since nothing else is compared.

**Statements.** The `SET` list of a statement is an operator of `MeetingRows`;
its `WHERE` clause is the guard of the action. `Claimed` and `ClaimedStatus` are
separate because the `SET` and the `RETURNING` of `CLAIM_NEXT_MEETING_SQL` read
different columns: a first claim moves the row to `normalizing` and returns
`pending`.

**A worker** is a control point `at`, the snapshot it claimed (meeting, status,
language), the language the transcriber detected and the segments in hand. Each
control point is one step the code does between two moments at which others can
interleave: a statement with its commit, a model call, a load. The maps at the
top of `MeetingPipeline` say for each point which statuses its statement accepts
(`Accepts`), and at which stage (`FailureStage`) and with which error kinds
(`FailureKinds`) a failure is recorded. So one action each is enough for

- `StageFails`: an exception inside a `try` block of the processor, mapped by
  `errors.py` and written by `mark_failure` if the row is still non-terminal;
- `WriteRefused`: the statement matched no row, `RuntimeError` leaves the
  processor and the queue loop backs off;
- `DatabaseError`: any other statement raises and the row keeps its status;
- `CrashWorker`: the process is gone, and with its session the lock.

The three differ in what the row shows afterwards, which is what recovery works
from. A refused or failed success write leaves the meeting at its stage with the
work thrown away; only the five-minute reclaim takes it up again.

**Files** are the directory, the upload ("original") and `normalized.wav`.
Normalization is two steps, `Convert` and `Cleanup`, because a crash between them
and after them is the interesting case; a meeting claimed at `normalizing` may
find the upload gone and goes on.

**Transcripts** are tagged with the language they were made for and whether
speakers have been assigned. **Summary versions** are records with number,
source and the transcript they summarise. The summarizer's result reaches the
database in one statement, so producing and storing it is one action.

**Requests** that read, compute and write are a read action (`RetryRead`,
`LanguageRead`, `DeleteFind`) and a write action, with the computed update in the
handler in between; any step may interleave, and `RequestDies` ends a request
between two steps. A request whose statement repeats every condition it read
(`regenerateSummary`, `updateMeetingTitle`) is one action.

**Deletion** is three steps in the code's order: find, remove the directory,
delete the row. A worker may be in the middle of the same meeting; its next read
fails and its next write matches nothing.

**External behaviour** is modelled from its use: `SKIP LOCKED` may pass by any row
with a request in flight (`MayBeLocked`), a session-level advisory lock ends with
its session (`LockSessionLost`), a transcriber may report any detectable language
or none.

**The queue loop** (`QueueLoop`) is one process at a control point `loop`, the
head of one of the three nested loops of `queue_loop.py` or a call that may take
long. A meeting is `settled`, `queued`, `taken` (at a worker stage) or `overdue`;
which claimable row comes first is left open. The session that LISTENs is
separate from the connections that claim and write: `SessionDies` loses it, and
the notifications on their way, at any point, and the loop goes on draining and
polling without noticing; `DeathNoticed` may happen at the next sleep or never.
`notifies(stop_after=1)` returns one notification and may drop others that came
with it, so `Wake` keeps any subset of the rest. A statement of the web app that
changes a queued row holds it for a while (`HoldRow`, `ReleaseRow`); a claim skips
it, and nothing notifies when it is released. The stop event is looked at where
the code does, at the head of each loop and in each back-off, never in a claim
or in a stage. `passed` is a history variable: the queued meetings the last drain
left behind.

**Normalization** (`Normalization`) has the four names that may exist in a
meeting's directory and what each holds: nothing, a part, or the whole. Every
unlink, rename and ffmpeg's start and end is a step; a crash between any two
leaves the files and loses `step`.

**Transcription** (`TranscriptionLoop`) gets an arbitrary sequence of segments with
`start <= end`, out of order and past the audio's end too; whether the minimal
interval has passed and whether the write arrives are open. Words are counted up
to the threshold of an empty transcript, times are integers.

**Diarization** (`SpeakerAssignment`) is a function of the turns and of one segment:
usable turns, names by first appearance, longest overlap, earliest of equals,
nearest within the tolerance, fallback. TLC's times are half seconds, with the
tolerance at one of them. The reference is a definition of its own: no other
speaker is heard longer (`LongestHeardWins`).

**Summarization** (`SummaryRequest`): a status code class per decision of
`_request_with_retries`, and of an answer just what `_to_summary_draft` and
`_Owner` tell apart.

**The stages together** (`StageWork`): a worker is in at most one of them, so they
take turns; `Claim` returns the status that decides whether a missing upload is
accepted, `StageFails` records kind and stage, `Retry` goes back to it.

**An upload** (`UploadRequest`) is a record `up` with what the parser, the write and
the request know, and the directory's content. The client's part (`FilePart`,
`FieldPart`, `FileEnds`, `FormEnds`, or a broken connection) and the server's
(`MakesDirectory`, `StreamEnds`, `Renames`, `Settles`, `Enqueues`, `CleansUp`)
interleave freely, since each is a callback of its own. `WriteSettled` is
`Promise.all` of the writes: it is only there once the form has ended; a write that
fails before that is an unhandled rejection, which ends the process.

**The list** (`HomePage`) has two meetings, the uploaded one and another, each
absent, active (polled for) or ended. Its cache has three writers in flight at the
same time: `loader` (React Router's run after the upload), `poll` (React Query's
fetch, which `invalidateQueries` cancels and restarts) and the page's own load.
Besides the interval a fetch is sent on mount, since the loader's data are stale at
once (`HomeInit`, `Reload`), and when the browser is online again (`Reconnects`);
`root.tsx` turns off only the one on focus.

**The page** (`MeetingPage`) reads `db` with the four statements of `LoadOrder`; the
worker and other tabs step in between any two. `View.since` remembers the version
there was when the row was read, `fresh` and `sure` that nobody else has renamed
since: they are history variables of the properties. A `visit` is about forms, the
title or a speaker's name; the three share the loader and differ in what the user
does. The title's editor is local to the page until it is submitted; a speaker's
input is overwritten by every refresh unless it is protected (`kept`), and the
protection ends with `Released`. The forms are one navigation at a time, as React
Router has it; a speaker's name is saved by a fetcher beside it. The page may be
opened at any time in a meeting's life (`IsOpened`). Its first data are read at once:
whatever four statements with others between them may find, a later run of the loader
may find too.

**The report** (`MeetingReport`): texts are sequences of five symbols (SPEAKER_, two
digits, a letter of names, anything else). `Displayed` is the single pass of the
regular expression; the reference splits the text into words first (`Pieces`). The
owner of an action item is nobody, a label, or a name the model took from what was
said, which is shown as it is. One text stands for what is said in every segment: the
full export rewrites it, but does not search it for labels.

## Properties

Invariants (`MeetingPipeline`):

- `TypeOK`.
- `AudioIsNeverLost`: unless its deletion has begun, a meeting nobody has worked on
  yet has its upload, one to be normalized the upload or `normalized.wav`, and one
  whose next stage is a later one `normalized.wav`, also to be summarised, since a
  retry in another language transcribes it again.
- `StageHasItsInput`: a meeting to be diarized or summarised next has a
  transcript, a meeting to be summarised a diarized one, whether it gets there
  straight, by reclaim or by retry.
- `TranscriptMatchesLanguage`: a transcript that will be used as it is was made
  for the language the row asks for.
- `DoneIsComplete`: `done` and the first summary come together and stay together,
  `latest` is the highest version, and every version summarises the transcript
  shown.
- `CheckIsNeverViolated`: no write would be rejected by
  `meetings_detected_language_auto_only_check`, neither a worker's nor a
  request's, whatever happened since it read.
- `OneWorkerPerMeeting`.
- `ClaimStaysValid`: what a worker claimed stays true while it works. A write of
  its own is refused only because the meeting was deleted.

Action properties: `RetryResumesFailedStage`, `VersionsAreKept` (append-only
until deletion). Refinement: `ImplementsLifecycle`. Liveness:
`EverythingSettles`.

`QueueLoop`:

- `TypeOK`, which includes that a held row is still queued: no claim took it.
- `NoLostWakeup`: while the loop sleeps on a live session with no notification
  on its way, every queued meeting was already there when the last drain ended
  and was left behind by it (skipped because held, or an error ended the drain).
  Registering LISTEN before the first scan is what makes it true.
- `QueueIsWorkedOff` (liveness): what is left behind, and what a process that
  died left in the middle of a stage, is worked off in the end, by the poll.
- `StopEnds` (liveness): a stop request ends the process, however much work keeps
  coming in and however often things fail.

`StageWork` (the property's definition is in the module of its stage):

- `TypeOK`, which includes that reported progress stays in 0..99.
- `NormalizationKeepsAudio` (refinement of `AudioFiles`): however often
  normalization is cut short or fails, `normalized.wav` is never half written, once
  there it stays, and the upload is deleted only after.
- `ProgressKeepsUp`: the throttle holds back less than the minimal step, whatever
  the order of the segments and the clock, and however small the steps in which
  progress comes.
- `LongestSpeakerWins`: against the reference definition, for every segment and
  every set of turns of the instance.
- `SpeakersAreStable`: the names the diarizer uses and the order it lists turns in
  decide nothing.
- `AnswerIsFinal`: once the provider has answered, it is not asked again;
  `GivesUpLate`: a passing failure is reported only when all three delays have been
  waited out, in order.
- `WorkEnds` (liveness): once crashes and retries cease, the meeting ends up done or
  failed and stays so, also when the last retry has put it back into a stage; no
  loop, retry or restart goes on for ever.

`WebApp` (likewise):

- `QueuedMeetingHasRecording`: a row that can be claimed has the whole of what was
  sent, except after an insert that committed and whose answer was lost.
- `RefusedUploadLeavesNothing`: no directory stays, and no write that is still
  going on brings it back.
- `UploadIsAnswered` (liveness): the dialog is never left uploading.
- `ListKeepsUpload`: once listed, a meeting does not vanish because of an answer
  that comes late. (It may go back from ended to active for a moment, when a
  loader's answer is older than a poll that landed before it; the refetch corrects
  that.)
- `OwnUploadAppears`, `ListSettles` (liveness): an accepted upload is listed even
  when all later fetches fail; the list ends up right and only then stops polling.
- `PageAtRestIsComplete`: a page that has stopped polling shows transcript and
  summary, the summary at least as new as the status, though its four reads are not
  one snapshot. It rests on the row being read first.
- `NoticeIsTrue`: "Summary regenerated." stands next to a newer summary.
- `TypedNameSurvives`, `EditsAtRestAreStored`: what is typed is not lost to a
  refresh, and a quiet page shows the stored name and title.
- `PageSettles` (liveness): polling ends when nobody works on the meeting any more.
- `NamesReplaceWords`: every text of the instance, of the summary or of a segment, is
  shown with names in place of exactly the labels that are words of it.
- `SpeakersLineIsComplete`: every speaker an export shows, as a label of its summary,
  as an owner or as the speaker of a segment, is in its line of speakers, under the
  same name. Two that it shows may be missing there, and the property leaves them
  out: an owner given by name, and a label that is only *said* in a segment.

`OversizedUploadIsRefused` states what a test says of an upload over the limit;
`StartupPicksUp` and `UploadRemovedWithStatus` state sentences of ADR 0007 and ADR 0006 that the
code does not keep; see [Findings](#findings).

## Runs

The runs `queue_loop` and `startup_scan` are of `MCQueueLoop`, `stage_work` is of
`MCStageWork`, `web_app` and `upload_oversized` are of `WebApp`, the others of
`MCMeetingPipeline`. Distinct states are TLC's.

| Run | Instance | States | Shows |
| --- | --- | --- | --- |
| `one_meeting` | 1 meeting, 2 workers, 1 request, 2 languages to request, 2 to detect, progress 40 and 99, 2 versions | 32 thousand | every data invariant, retry and versions; the pipeline implements `MeetingLifecycle`; `EverythingSettles` |
| `two_meetings` | 2 meetings, 2 workers, 1 request, auto only, 1 version | 802 thousand | `OneWorkerPerMeeting`, and `ClaimStaysValid` against other workers, requests and deletion; that other languages and regenerations cannot break it either is proved (`ClaimValid`) |
| `settles_in_turn` | 2 meetings, 1 worker, no two-step request | 22 thousand | `EverythingSettles` when pipeline and regeneration compete |
| `lock_lost` | 1 meeting, 2 workers, the lock may be lost | 621 thousand | what two workers at once cannot break: `RetryResumesFailedStage` |
| `retry_race` | 1 meeting, 1 worker, 2 requests | - | violated: `RetryResumesFailedStage` |
| `lock_lost_race` | as `lock_lost` | - | violated: `OneWorkerPerMeeting` |
| `upload_removal` | 1 meeting, 1 worker, 1 request | - | violated: `UploadRemovedWithStatus` |
| `queue_loop` | 3 meetings | 64 thousand | `NoLostWakeup`, the held rows, `QueueIsWorkedOff`, `StopEnds` |
| `startup_scan` | 2 meetings, no error outside the pipeline policy | - | violated: `StartupPicksUp` |
| `stage_work` | 1 meeting, 5 points in time, audio of length 0 or 3, 2 segments with text, up to 3 of 8 turns, ten status codes | 129 thousand | the insides of the four stages |
| `web_app` | 1 upload beside another meeting; 1 page, up to 3 summary versions; texts of up to 3 symbols | 310 thousand | upload, list, page and report |
| `upload_oversized` | as `web_app`, 1 version | - | violated: `OversizedUploadIsRefused` |

**Bounds.** `MaxVersions` is the only cap on a counter: it stops
`RegenerateSummary`, and 2 lets a revision follow the initial version, which is
where numbering and the latest pointer can go wrong. Rows are independent of each
other but for the choice of the claim and the worker's attention, so one meeting
shows everything about its data and two are needed only for those. Two workers
succeed each other (or, without the lock, overlap); processes share nothing but
the lock, so a third adds nothing two do not show. Two explicit languages beside
"auto" allow every kind of change: auto to explicit, explicit to auto, explicit
to explicit. One detectable language that may be requested ("en") and one that
may not ("hr") are the two cases of a detection. Crashes, failures, retries,
changes of language and ages are not bounded at all: the state space is finite
without a bound on them.

In `StageWork` the numbers are scaled: a tolerance of one unit between turns, a step
of 66 percent where one unit of time is 33, an empty transcript below two words.
What matters is on which side of its threshold a value lies, and each side is
there: progress of one unit is held back unless the interval has passed, and several
such must add up to a report; two units are just the step (the code's default is 5
percent), three above it. Three turns are a speaker heard twice and one heard longer. The delays are
the code's.

In `WebApp`, three versions are the first summary and two regenerations, so that a
notice can be about the wrong one. One upload is followed to the meeting it makes;
refused ones before it are not bounded. A run of the loader or of the poll is over
before the next interval begins, so there is one of each at a time, as React Router
and React Query have it too. One speaker stands for all: their rows share the
loader's data and nothing else. Texts of three symbols have a label within a
longer one, after a word and before one; names include another speaker's label.

In `QueueLoop` nothing is capped. Two meetings are one in hand and one waiting;
the third gives several notifications in flight and several rows held.

**Symmetry** is over workers only, in runs without liveness or refinement; the
meetings of `MeetingPipeline` are ordered by creation and cannot be permuted.

**One request or two.** The data invariants are checked with one two-step
request in flight (the one-step requests interleave freely). With two, the retry
race below breaks `RetryResumesFailedStage`, and in its wake `AudioIsNeverLost`,
`StageHasItsInput`, `TranscriptMatchesLanguage`, `DoneIsComplete` and
`CheckIsNeverViolated`: a row sent to a stage that does not fit it. The proofs say
what it takes: any number of requests may be in flight as long as no two of them
are a retry or a change of language of the same meeting (`OneUpdatePerMeeting`).
What does not depend on it, `ClaimStaysValid` and `VersionsAreKept`, is proved
without.

**Deadlock** is checked except in `StageWork` and `WebApp`, where a meeting may be
done, or a tab may have nothing left to do. In the others every reachable state has
a successor (a title can be changed, a worker can crash or start, a loop can stop
or start).

## Fairness

`FairSpec` assumes, and the code justifies:

- `StartWorker`: the container is restarted (`restart: unless-stopped` in
  `src/docker-compose.prod.yml`). Weakly fair for some worker, not for each.
- `Claim` of each worker: `QueueLoop.run` claims again after every meeting, on
  every notification and at the latest at every poll.
- `Stage` of each worker: every stage ends, with a result or an exception. It is
  the disjunction that is fair: nothing says that a stage ever succeeds.
- `RequestStep` of each request: a request that started runs on.
- `Age`: time passes.

No `Request` is ever fair: users need not act. `EverythingSettles` is stated for
behaviours in which faults and requests cease from some point on
(`<>[][~(Fault \/ Request)]_vars`), because a user who keeps renaming a meeting
moves `updated_at` and postpones its recovery for as long as he likes, and so
does a worker that keeps crashing. Wherever they had left the system, all
meetings end up done, failed or deleted, and no regeneration stays queued.

`FairSpec` of `QueueLoop` assumes that the loop runs on (`LoopStep`: a claim or a
stage ends, the poll interval passes, the container is restarted), that a
statement of the web app ends (`ReleaseRow`) and that time passes (`Age`). It is
one weak fairness of the whole disjunction: no step is promised where the loop
can take another, so neither a notification nor the noticing of a dead session is
ever counted on. `StopEnds` needs no assumption that faults cease;
`QueueIsWorkedOff` does, as above.

`FairSpec` of `StageWork` assumes that an abandoned meeting is claimed again and that
a stage's next step is taken, whatever its outcome; it assumes neither that ffmpeg,
the models or the provider succeed, nor that they ever stop failing. That Whisper's
generator ends is not assumed either: it follows from the bounds on its segments
and on time, so `WorkEnds` says nothing of a generator that never ends.

`FairSpec` of `WebApp` assumes that a client that is sending goes on or breaks off,
that the server's callbacks run, that a timer ticks and that an answer that came is
taken. Strong fairness is assumed of one thing only: if the list is fetched again
and again, some fetch succeeds (`PollLands`); without it the list could fail to
refresh for ever. Users are never fair: nobody has to submit, save or reload.

## Proofs

TLAPS checks the following for every value of the constants that satisfies the
assumptions declared with them; TLC evaluates those in the runs of the module that
declares them. For the pipeline that is every set of meetings, workers, requests in
flight, languages, progress values and versions, with `LanguageAssumption` ("auto" and
"none" are no language codes) and `PipelineAssumption` (meetings are numbers, "none"
is no worker, progress reports lie in 0..99); for the stages, any turns in any number,
with times, lengths, thresholds and delays that are natural numbers and a minimal step
of progress that is not 0; for the web app, any bound on the length of a text, and at
least one version that there may be.

**The pipeline, whatever overlaps** (`MeetingPipelineProofs`)

- `LockLossTypeCorrect`, `TypeCorrect`: `[]TypeOK`. Not inductive as it stands,
  because a worker's meeting is 0 while it rests. `TypeInv` adds that a busy
  worker and a request in flight have a meeting. One lemma per statement operator
  (the first part of the module) says which columns it sets and which it keeps, one
  lemma per group of actions applies them.
- `OneWorkerCorrect`: `[]OneWorkerPerMeeting`. Inductive invariant `LockHeld`: a
  process that runs holds the lock. `RunningStep` shows that a running process
  changes nothing of any other.
- `ClaimValid`: `[]ClaimStaysValid`. Inductive invariant `ClaimKept`: at each
  control point of a busy worker its row shows one of the statuses `Expected`
  there, with the claimed language (and, when done, at `processing`), or has been
  deleted. It rests on `LockHeld` for the steps of other workers, and on the
  guards of the web app's statements for requests: what they write to is
  `pending`, `error` or `done` without a running regeneration, never a status
  a busy worker's row is at (`ClaimKeptByRow`). This holds with any number of
  overlapping requests, unlike the properties the retry race breaks.
- `VersionsKept`: `VersionsAreKept`, even when the lock is lost. Inductive
  invariant `SummarisedOnce`: a meeting that is not done has no version, so
  the upsert of version 1 (`on conflict ... do update`) never finds one.
- `RecordingKept`: `[]RecordingSurvives`, which is what is left of
  `AudioIsNeverLost` when updates of one meeting may overtake each other: until its
  deletion begins, a meeting has its upload or `normalized.wav`, and it has
  `normalized.wav` if it is done or is going to be entered behind normalization.
  Inductive invariant `RecordingInv`: whatever says that a meeting was normalized is
  right, be it a column of its row, the place a worker has reached, or the update
  of a request, however long ago that was computed. What does not survive is that a
  meeting to be normalized still has its upload, see the stale language update
  under [Findings](#findings).

**The data of a meeting** (`MeetingDataProofs`, `MeetingLifecycleProofs`)

These theorems have the form `Spec /\ []OneUpdatePerMeeting => ...`: no two retries or
changes of language *of the same meeting* are between their read and their write at
the same time. All else overlaps as it likes. The hypothesis is met by every
behaviour with one request at a time (`OneRequestAtATime`), which is what the run
`one_meeting` has, and `retry_race` shows that it cannot be dropped: the write
checks that the status is still `error`, not that the failure is the one the
update was computed from.

- `AudioKept`, `StageInputPresent`, `LanguageMatches`, `DoneComplete`, `CheckKept`: the
  five data invariants. None is inductive, since what a worker is about to write comes
  from its own memory, and what a request is about to write was computed from a row
  it read before. `DataSound` has three parts. `MeetingsSound` relates the row,
  transcript, versions and files of a meeting; `WorkersSound` says what a busy
  worker has in hand (segments in the claimed language, diarized once it is past
  diarization, equal to the stored transcript from then on), unless the meeting has
  been deleted under it; `RequestsSound`, that the update of a request in flight is
  still the one today's row asks for, or will be refused. A meeting to be summarised
  still has `normalized.wav`, more than that stage needs: without it, a retry with
  another language would find nothing to transcribe. `ClaimKept` is what keeps a worker's
  memory and the row together, and `OneUpdatePerMeeting` is used in one place only,
  where a write might make another request's update stale.
- `RetryResumes`: `RetryResumesFailedStage`, about the stage the row failed at when the
  write reaches it.
- `LifecycleImplemented`: `ImplementsLifecycle`. `Moves` says the transitions of
  ADR 0007 of one row; `StepMoves` shows that every step moves at most one row by
  one of them, action by action, and the theorem maps each to its action of
  `MeetingLifecycle` or to a stutter.
- `TabsAreServed` ties the pages to the pipeline. `OnPage` and `InList` give the columns
  of one meeting as `MeetingPage` (on a visit about its forms, the one with every such
  step) and `HomePage` have them. Each step of `MeetingPipeline` is then `WorkerWorks`
  or `OtherTabActs` of the page, or nothing, or the upload that makes the meeting;
  for the list it is `OtherStarts`, `MeetingEnds`, nothing, or
  the deletion, which the list's model leaves out. `Moves` says where a regeneration
  is, too, and `TranscriptStep` that a transcript changes only while its meeting is
  worked on or deleted. `ShownInv` is what the pages take for granted (only a finished
  meeting is regenerated), `DataSound` gives the diarized transcript under a finished
  one. Names and titles are not in the pipeline; the web app's own statements on them
  are in `MeetingPage`.

**The queue loop** (`QueueLoopProofs`)

- `WakeupsKept`: `[]NoLostWakeup` of `QueueLoop`, and `LoopTypeCorrect`: its
  `[]TypeOK`, for any set of meetings, without assumptions. `NoLostWakeup` is not
  inductive because the loop goes to sleep from a back-off too, without another
  look at the queue; `NothingUnseen` extends it to that point. `InHand` says that
  the meeting being processed is not queued.

**The stages** (`StageWorkProofs`)

- `AudioKept`: `NormalizationKeepsAudio`, that is, `StageWork` implements `AudioFiles`,
  whatever the other stages' constants. Inductive invariant `AudioInv`: the file a
  rename, the probe or the deletion is about to rely on is whole, `normalized.wav`
  is never half written, and without the upload it is there. Every step is then a
  step of `AudioFiles` or leaves its two files alone; a crash forgets the point in
  `normalize`, so the next attempt needs nothing but the last two parts.
- `StageTypes`, `ProgressFollows`, `DelaysAreUsedUp`, `NoAnswerTwice`: `TypeOK`,
  `ProgressKeepsUp`, `GivesUpLate` and `AnswerIsFinal`, from `StageInv`. Its parts:
  what was heard is less than the minimal step ahead of what was reported last; a
  request has slept through the first `attempt` delays, sent one request for each and,
  once answered, is over (`RequestSound`); a stage is entered only in a meeting that is
  claimed, and a failed meeting names a stage to go back to (`RowSound`).
- `LongestSpeakerIsChosen`: `[]LongestSpeakerWins`. Inductive invariant `SpeakerSound`:
  the speaker at hand is the one `AssignedSpeaker` gives the segment and the turns at
  hand, through every crash and retry. The rest is about that function. `Votes` is
  defined by recursion over the turns, the property counts the moments at which someone
  is heard; by induction over the first n turns both are the same. Sorting is not in
  the way, because it is a bijection from the usable turns to their places.
- `NamesDecideNothing`: `[]SpeakersAreStable`. A renaming of the speakers and another
  order of the turns come with a bijection between the sorted turns, under which starts
  and overlaps are the same; the number of a speaker is a rank by first start, and
  without two equal first starts no rank looks at a name.
- `SpeakersAreNumbered`, `AssignmentIsTotal`, `SpeakerHasTurn`: what no run states by
  itself. Speakers are numbered from 0 without a gap or a repetition, also when two
  begin together; `TurnsAssigned` is never stuck because `Assigned` gives no answer or
  one outside its range; and a segment never goes to a number nobody has, the fallback
  included, since a meeting with a usable turn has a speaker numbered 0.

**Upload and list** (`WebAppProofs`)

- `QueuedCorrect` and `RefusedCorrect`: `[]QueuedMeetingHasRecording` and
  `[]RefusedUploadLeavesNothing` of `WebApp`, for any constants. Inductive invariant
  `UploadSound`: the request gets to the insert only with a stored file that was not
  cut off and without an error, and to the cleanup only when no write is left; from
  then on neither directory nor row can come back.
- `UploadStaysListed`: `ListKeepsUpload`. Inductive invariant `HomeSound`: what the
  page lists or has fetched is in the table, and, once the meeting is listed, every
  fetch of the poll that has been read contains it. The second part is where
  `invalidateQueries` matters: when the loader's data puts the meeting on the
  list, a fetch that was read too early is cancelled with the same step.

**The page** (`WebAppProofs`)

- `RestIsComplete`, `NoticeTrue`: `[]PageAtRestIsComplete` and `[]NoticeIsTrue`.
  `LoadSound` follows a run of the loader: what was read after the row is at
  least as new as the row and, from the summary on, as what the page shows, and a row
  read as done is followed by a transcript. `PageSound` is the same of the page it
  ends in, with the version its notice compares. Both use that the database only
  grows until the meeting is gone (`DbGrows`).
- `EditsStored`, `TypedSurvives`: `[]EditsAtRestAreStored` and `TypedNameSurvives`.
  `TitleSound` and `NameSound` say when page and loader have the stored title and
  name: always, unless somebody else has written since or the answer to an edit of
  this page has yet to be read; an editor's row that is not protected shows the page's
  name, so whatever differs from it is protected. `FormSound` keeps the visits apart.
- `WebTypes`: `[]TypeOK` of `WebApp`, from the invariants of the three routes.

**The report** (`ReportProofs`)

- `NamesStandForLabels`: `[]NamesReplaceWords`, for summaries of any length. The code
  rewrites the text from the left, the longest label first; the property says what
  each *piece*, a maximal run of word symbols or of others, is shown as. The proof
  follows the rewriting from piece to piece: a label that is found is all of a piece
  (`FoundIsPiece`) and a piece that has a name is found (`PieceIsFound`), so a piece is
  shown as its name or symbol by symbol as it is (`PieceShown`).
- `EveryoneIsListed`: `[]SpeakersLineIsComplete`, with its two exceptions. A label that the text shows as a
  word of its own is one that the line's own search of the text finds
  (`SpokenIsExtracted`), and a label alone is shown as its name (`LabelShown`).

Labels and names are those of the model: SPEAKER_0, SPEAKER_1 and SPEAKER_01, of which
one is the beginning of another, and two names, of which one is itself a label.

**Counting** (`CountingProofs`). The library's induction theorems take an operator as a
parameter, which the provers cannot instantiate. Here induction is stated about a *set*
of numbers: one that has 0, and the successor of each of its numbers, has all of them
(`SetInduction`, `BoundedInduction`), because `<` is well-founded and a number left out
would have a least one below it. The set {n : the claim holds up to n} takes the place
of the predicate. The same way a non-empty set of numbers has a least and, below a
bound, a greatest one; a recursive sum exists; and counting what is not above an
element is a bijection to 1 .. n (`RankIsBijection`), from which sorting, numbering
and the pieces of a text all follow. `Oldest` is a `CHOOSE`, too; that it returns a
member of a non-empty set of meetings (`OldestIsMember`) uses the same fact.

**Only model-checked.** Every invariant and action property of the passing runs is
proved. What is left to TLC is what must happen eventually, which needs fairness and
`ENABLED`: `EverythingSettles`, `QueueIsWorkedOff`, `StopEnds`, `WorkEnds`,
`UploadIsAnswered`, `OwnUploadAppears`, `ListSettles` and `PageSettles`.

## Findings

- **Two retries, one failure** (`retry_race`). `retryMeeting` computes the stage
  to resume and the language from the failure it read; `retryMeetingById` checks
  only that the status is `error`. If the other retry's run has failed at another
  stage in between, the row is queued with the stage of the earlier failure.
- **The lock is never looked at again** (`lock_lost_race`). `main.run` holds the
  advisory lock in a connection nothing uses afterwards. When that session ends,
  a second worker starts, and claims a meeting whose stage runs longer than five
  minutes without a write. The row lock of the claim does not help: it ends with
  the claim's transaction. Without the lock `StageHasItsInput`,
  `TranscriptMatchesLanguage`, `DoneIsComplete`, `ClaimStaysValid` and
  `CheckIsNeverViolated` are violated too.
- **The upload is removed before the status moves** (`upload_removal`), not in the
  same transactional step, as ADR 0006 has it. The code copes: a meeting claimed
  at `normalizing` may lack its upload. `AudioIsNeverLost` holds.

- **An upload over the limit may end the server** (`upload_oversized`). The promise
  of the write is awaited only when the form has been received as a whole. If the
  recording is cut off at the limit (or the disk is full) while the rest of the form
  is still on its way, the rejection has no handler, and Node's default is to end
  the process: no 413, every other upload in progress is gone too, and the partial
  file stays. The test that says otherwise sends its body in one chunk.
- **The start-up scan passes by what a crash interrupted** (`startup_scan`). The
  scan is the claim of every drain, and takes a row at a worker stage only after
  five minutes without a write. A container that restarts at once, as it does,
  scans, finds nothing and sleeps; some later poll recovers the meeting. ADR 0007
  has the scan pick up any non-terminal status. That the poll makes up for it is
  `QueueIsWorkedOff`.

Smaller things met while modelling, none of which a property states:

- An insert that commits but whose answer is lost is answered with an error and its
  directory removed; the meeting then fails at normalization, and the user who
  retries the upload has two.
- A change of language that was read while the meeting was still new and is written
  after its transcription failed and was retried takes the resume stage away again.
  The meeting then starts at normalization without its upload and fails there once;
  the next retry resumes from `normalized.wav`, so nothing is lost
  (`RecordingKept`).
- After a save, the old name (or title) is shown for a moment, until the loader's
  next run lands. A row that is unmounted while protected stays protected, and a
  name that was typed but not saved is then shown until a reload.
- A regeneration that ends before the first poll shows no notice. "The previous
  summary is unchanged" can be inaccurate when another tab regenerated in between.
- An unexpected error while saving the title is rethrown
  (`meeting-detail-action.server.ts:267`), so the draft is lost with the page; every
  other form answers with 500 and stays.
- The export replaces labels in the text of transcript segments, the page does not.
  A label that is only said there is shown under its name but is not searched for, so
  it is missing under "Speakers"; so is an owner the model gave by name, since
  `collectSpeakerLabels` adds owners of kind "speaker" only. The other way around, a
  mapping whose label is gone from the transcript is still listed, and so is a label
  the summary has within a longer word.
- One transcript segment of length zero makes the diarization of the whole meeting
  fail (`diarization.py:273`).

## Variants

To see that each property can fail, some operators have a *variant* beside them
that is wrong on purpose, in a way the code could have been wrong. Nothing uses
them; put in the place of the original, each makes TLC report the property.

| Variant | In place of | Property that fails |
| --- | --- | --- |
| `ClaimedWithoutDefault`: no `coalesce` around the resume stage | `Claimed` | `TypeOK` |
| `CleanupOfEverything`: the pattern of files to delete is too wide | `Cleanup` | `AudioIsNeverLost` |
| `FailureStageLate`: a transcription failure is recorded at diarization | `FailureStage` | `StageHasItsInput` |
| `RetryUpdateInPlace`: a changed language does not send the meeting back | `RetryUpdate` | `TranscriptMatchesLanguage` |
| `RegenerationSucceededUnlinked`: latest is not moved | `RegenerationSucceeded` | `DoneIsComplete` |
| `RetryUpdateKeepingDetected`: detected language kept when the language changes | `RetryUpdate` | `CheckIsNeverViolated` |
| `RetriedFromScratch`: retry starts over | `Retried` | `RetryResumesFailedStage` |
| `RegenerateInPlace`: a revision replaces what it revises | `Regenerate` | `VersionsAreKept` |
| `StartWorkerUnlocked`: no waiting for the lock | `StartWorker` | `OneWorkerPerMeeting` |
| `ClaimedStatusUnresumed`: the claim does not tell the worker the stage to resume from | `ClaimedStatus` | `ClaimStaysValid` (two meetings) |
| `LanguageWriteUnguarded`: the language statement has no status guard | `LanguageWrite` | `ClaimStaysValid` (with two requests in flight) |
| `TranscriptionSucceededTooFar`: the wrong next status | `TranscriptionSucceeded` | `ImplementsLifecycle` |
| `RegenerationClaimableOnce`: an abandoned regeneration is not reclaimed | `RegenerationClaimable` | `EverythingSettles` |
| `ClaimOneWithoutLock`: no `for update skip locked` | `ClaimOne` | `TypeOK` (`QueueLoop`) |
| `ListenThenSleep`: no scan after LISTEN | `Listen` | `NoLostWakeup` |
| `PollTimeoutIfAlive`: no poll without the listener | `PollTimeout` | `QueueIsWorkedOff` |
| `DrainToTheEnd`: a drain does not look at the stop event | `Drain` | `StopEnds` |
| `FfmpegOutputInPlace`: ffmpeg writes `normalized.wav` itself | `FfmpegOutput` | `NormalizationKeepsAudio` |
| `ProgressUncapped`: no cap at 99 | `ProgressOf` | `TypeOK` (`StageWork`) |
| `IsReportedByStep`: progress is compared with that of the segments before, not with what was reported last | `IsReported` | `ProgressKeepsUp` |
| `VotesOfLast`: a speaker's overlaps are not added up | `Votes` | `LongestSpeakerWins` |
| `CanonicalLabelsByName`: speakers are numbered by name | `CanonicalLabels` | `SpeakersAreStable` |
| `IsTransientToo`: a refusal is tried again | `IsTransient` | `AnswerIsFinal` |
| `ExhaustedEarly`: attempts counted from one | `Exhausted` | `GivesUpLate` |
| `ClaimPendingOnly`: interrupted meetings are not claimed | `Claim` (`StageWork`) | `WorkEnds` |
| `FilePartUnlimited`: any number of files | `FilePart` | `TypeOK` (`WebApp`) |
| `SettledAsForgetful`: an error after the write is not looked at | `SettledAs` | `QueuedMeetingHasRecording` |
| `WriteSettledEarly`: the write is not waited for | `WriteSettled` | `RefusedUploadLeavesNothing` |
| `WriteSettledStuck`: only a successful write settles | `WriteSettled` | `UploadIsAnswered` |
| `InvalidatedKeepingFetch`: a fetch under way answers the refetch | `Invalidated` | `ListKeepsUpload` |
| `ListWithQueryData`: the loader's data is left to the refetch | `ListWithLoaderData` | `OwnUploadAppears` |
| `ShouldPollAllMeetings`: `every` for `some` | `ShouldPollMeetings` | `ListSettles` |
| `LoadOrderReversed`: the row is read last | `LoadOrder` | `PageAtRestIsComplete` |
| `ObservedNoticeOfEnd`: a regeneration that is over has succeeded | `ObservedNotice` | `NoticeIsTrue` |
| `TypedUnprotected`: the input's focus protects nothing | `Typed` | `TypedNameSurvives` |
| `SavedStillKept`: a saved name stays protected | `Saved` | `EditsAtRestAreStored` |
| `ReadAgainNever`: the page is not read again after an answer | `ReadAgain` | `EditsAtRestAreStored` |
| `ShouldPollStatusOnly`: a regeneration is not polled for | `ShouldPollMeetingDetail` | `PageSettles` |
| `DisplayedInWords`: labels are replaced inside words | `Displayed` | `NamesReplaceWords` |
| `CollectedFromTranscript`: summary and owners are not searched | `CollectedLabels` | `SpeakersLineIsComplete` |

## What is not modelled

- Real time: that recovery takes *five minutes*, that polling is *every n
  seconds*. `Age` may happen at any moment, so a stage may always look abandoned.
- Postgres transactions below the statement: each action is one committed
  transaction. Statements of one transaction are one action.
- In `HomePage`, that a listed meeting is deleted: it leaves the list with the next
  fetch. `MeetingPage` has deletion, by this tab and by others.
- In `QueueLoop`, `max_wakeups` and `before_startup_scan` (only tests pass them), and
  a second process (it does not get the advisory lock).
- With the lock lost, two ffmpeg processes would share partial file names;
  `Convert` is one step, so `AudioIsNeverLost` is not claimed there.
- Two browser tabs as two pages, or a page and the pipeline in one state space: the
  other side is a set of steps that may happen at any time, which is more than it
  really does.
- The copy buttons of the export menu, the drop zone (another way to submit), the
  navigation inside the page, search, relative times, layout and wording.
- Labels that are no `SPEAKER_nn`: the worker writes no others.
- Loading of models, prompts, Serbian transliteration (a table of characters),
  Markdown, file names and headers of an export.
- Configuration, model download, seed data, evaluation scripts.

## Plan

Done: every component with state or ordering of its own, see [Modules](#modules),
the proofs of every invariant and action property, and the pages tied to the pipeline,
see [Proofs](#proofs). What is left could only add detail: the parts under
[What is not modelled](#what-is-not-modelled).
