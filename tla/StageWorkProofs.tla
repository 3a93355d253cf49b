---------------------------- MODULE StageWorkProofs ----------------------------
(***************************************************************************)
(* The stages of one meeting, for every value of the constants and through *)
(* any number of crashes, failures and retries: normalization keeps the    *)
(* audio, the progress shown keeps up with the transcription, a segment    *)
(* goes to the speaker who is heard longest in it, whatever the diarizer   *)
(* calls its speakers, and the language model is asked as often as its     *)
(* answers call for.                                                       *)
(***************************************************************************)
EXTENDS StageWork, CountingProofs, SequenceTheorems

\* What each point of normalize may rely on.  The last part is the promise
\* itself: without the upload there is a whole normalized.wav.
AudioInv ==
  /\ files \in [Names -> Contents]
  /\ step = "rename" => files["transient"] = "whole"
  /\ step = "replace" => files["partial"] = "whole"
  /\ step \in {"probe", "remove"} => files["normalized"] = "whole"
  /\ files["normalized"] # "part"
  /\ files["original"] # "none" \/ files["normalized"] = "whole"

audio == <<files["original"] # "none", files["normalized"] = "whole">>

\* The processor may enter a stage, but never in the middle of normalize.
LEMMA EnterKeepsAudio ==
  ASSUME NEW stage, AudioInv, Enter(stage), files' = files
  PROVE  AudioInv'
BY DEF AudioInv, Enter

\* A new meeting has its upload and nothing else.
LEMMA AudioInit == Init => AudioInv /\ Promise!Init
BY DEF Init, FilesInit, AudioInv, Names, Contents, Promise!Init

\* Every step of normalize keeps the invariant, and either does not touch what
\* AudioFiles speaks of or is one of its steps.
LEMMA NormalizeKeepsAudio ==
  ASSUME NEW claim, AudioInv, NormalizeStep(claim)
  PROVE  AudioInv' /\ [Promise!Next]_audio
<1> USE DEF AudioInv, Names, Contents
<1>1. CASE UnlinkPartial
  BY <1>1 DEF UnlinkPartial, audio
<1>2. CASE UnlinkTransient
  BY <1>2 DEF UnlinkTransient, audio
<1>3. CASE FindOriginal(claim)
  BY <1>3 DEF FindOriginal, audio
<1>4. CASE FfmpegStarts
  BY <1>4 DEF FfmpegStarts, FfmpegOutput, audio
<1>5. CASE FfmpegEnds
  BY <1>5 DEF FfmpegEnds, FfmpegOutput, audio
<1>6. CASE FfmpegFails
  BY <1>6 DEF FfmpegFails, NormalizationKinds, audio
<1>7. CASE RenameTransient
  BY <1>7 DEF RenameTransient, Move, audio
<1>8. CASE ReplaceNormalized
  <2>1. /\ files["partial"] = "whole"
        /\ files' = [files EXCEPT !["normalized"] = "whole", !["partial"] = "none"]
        /\ step' = "probe"
    BY <1>8 DEF ReplaceNormalized, Move
  <2>2. AudioInv'
    BY <2>1
  <2>3. CASE files["normalized"] = "whole"
    BY <2>1, <2>3 DEF audio
  <2>4. CASE files["normalized"] # "whole"
    BY <2>1, <2>4 DEF Promise!Next, Promise!Convert
  <2> QED
    BY <2>2, <2>3, <2>4
<1>9. CASE Probe
  BY <1>9 DEF Probe, NormalizationKinds, audio
<1>10. CASE DeleteOriginal
  <2>1. /\ files["normalized"] = "whole"
        /\ files' = [files EXCEPT !["original"] = "none"]
        /\ step' = "done"
    BY <1>10 DEF DeleteOriginal
  <2>2. AudioInv'
    BY <2>1
  <2>3. CASE files["original"] = "none"
    BY <2>1, <2>3 DEF audio
  <2>4. CASE files["original"] # "none"
    BY <2>1, <2>4 DEF Promise!Next, Promise!Remove
  <2> QED
    BY <2>2, <2>3, <2>4
<1> QED
  BY <1>1, <1>2, <1>3, <1>4, <1>5, <1>6, <1>7, <1>8, <1>9, <1>10
  DEF NormalizeStep

\* So does every step of the meeting: outside normalize no file is touched, and
\* a crash leaves the files to an attempt that starts from the beginning.
LEMMA AudioStep ==
  ASSUME AudioInv, [Next]_vars
  PROVE  AudioInv' /\ [Promise!Next]_audio
<1>1. CASE Claim
  BY <1>1, EnterKeepsAudio DEF Claim, audio
<1>2. CASE NormalizationWork
  BY <1>2, NormalizeKeepsAudio DEF NormalizationWork
<1>3. CASE Normalized
  BY <1>3, EnterKeepsAudio DEF Normalized, audio
<1>4. CASE TranscriptionWork
  BY <1>4 DEF TranscriptionWork, AudioInv, audio
<1>5. CASE Transcribed
  BY <1>5, EnterKeepsAudio DEF Transcribed, audio
<1>6. CASE DiarizationWork
  BY <1>6 DEF DiarizationWork, AudioInv, audio
<1>7. CASE Diarized
  BY <1>7, EnterKeepsAudio DEF Diarized, audio
<1>8. CASE SummarizationWork
  BY <1>8 DEF SummarizationWork, AudioInv, audio
<1>9. CASE Summarized
  BY <1>9, EnterKeepsAudio DEF Summarized, audio
<1>10. CASE StageFails
  BY <1>10, EnterKeepsAudio DEF StageFails, audio
<1>11. CASE Crash
  BY <1>11, EnterKeepsAudio DEF Crash, audio
<1>12. CASE Retry
  BY <1>12 DEF Retry, AudioInv, audio
<1>13. CASE UNCHANGED vars
  BY <1>13 DEF vars, AudioInv, audio
<1> QED
  BY <1>1, <1>2, <1>3, <1>4, <1>5, <1>6, <1>7, <1>8, <1>9, <1>10, <1>11, <1>12,
     <1>13 DEF Next, Work

-----------------------------------------------------------------------------
\* However often AudioNormalizer.normalize is cut short, fails or is repeated,
\* normalized.wav is never half written, stays once it is there, and the upload
\* is deleted only after: what Convert and Cleanup of MeetingPipeline assume.
THEOREM AudioKept == Spec => NormalizationKeepsAudio
<1>1. Init => AudioInv /\ Promise!Init
  BY AudioInit
<1>2. AudioInv /\ [Next]_vars => AudioInv' /\ [Promise!Next]_audio
  BY AudioStep
<1> QED
  BY <1>1, <1>2, PTL DEF Spec, NormalizationKeepsAudio, Promise!Spec, audio

-----------------------------------------------------------------------------
(* The local variables of the four stages.                                  *)

\* A call of the summarizer: it has waited out the first delays, one per request
\* that failed for a passing reason, and stops at an answer.
RequestSound(r) ==
  /\ r.at \in RequestPoints /\ r.answered \in BOOLEAN
  /\ r.attempt \in 0 .. Len(Delays) /\ r.sent \in 0 .. r.attempt + 1
  /\ r.slept = SubSeq(Delays, 1, r.attempt)
  /\ r.at \in {"off", "begin"} => r.sent = 0 /\ r.attempt = 0
  /\ r.at = "request" => r.sent = r.attempt
  /\ r.at = "sleep" => r.sent = r.attempt + 1 /\ r.attempt < Len(Delays)
  /\ r.at \in {"off", "begin", "request", "sleep"} => ~r.answered
  /\ r.at = "summarization_failed" /\ r.sent > 0 /\ ~r.answered
       => r.attempt = Len(Delays) /\ r.sent = r.attempt + 1

LocalsSound ==
  /\ step \in NormalizePoints
  /\ tr \in TranscribeType /\ tr.seen - tr.last < MinDelta
  /\ dia \in DiarizeType
  /\ req \in RequestType /\ RequestSound(req)

NobodyWorks == step = "off" /\ tr.at = "off" /\ dia.at = "off" /\ req.at = "off"

\* Nobody is in a stage of a meeting that nobody works on; a failure names the
\* stage that a retry puts the meeting back to.
RowSound ==
  /\ status \in {"pending", "done", "error"} \union StageNames
  /\ claimed \in {"none", "pending"} \union StageNames
  /\ failure \in [kind : Kinds \union {"none"}, stage : StageNames \union {"none"}]
  /\ transcript \in StoredTranscript
  /\ claimed = "none" => NobodyWorks
  /\ claimed # "none" => status \in StageNames
  /\ status = "error" => failure.stage \in StageNames

StageInv == AudioInv /\ LocalsSound /\ RowSound

\* The delays waited out so far, one more, and all of them.
LEMMA DelaysFacts ==
  /\ SubSeq(Delays, 1, 0) = << >> /\ SubSeq(Delays, 1, Len(Delays)) = Delays
  /\ \A n \in 0 .. Len(Delays) : Len(SubSeq(Delays, 1, n)) = n
  /\ \A n \in 0 .. Len(Delays) - 1 :
       SubSeq(Delays, 1, n + 1) = Append(SubSeq(Delays, 1, n), Delays[n + 1])
<1>1. Delays \in Seq(Nat)
  BY SummaryAssumption
<1>2. QED
  BY <1>1

\* Progress is capped at 99, whatever Whisper says of the end of a segment.
LEMMA ProgressBounds ==
  ASSUME NEW end \in Int, NEW duration \in Nat \ {0}
  PROVE  ProgressOf(end, duration) \in 0 .. 99
  BY SMT DEF ProgressOf, Most, Least

\* Entering a stage starts it afresh and leaves the others.
LEMMA EnterSound ==
  ASSUME NEW stage, Enter(stage)
  PROVE  /\ LocalsSound'
         /\ stage = "none" => NobodyWorks'
<1>1. step' \in NormalizePoints
  BY DEF Enter, NormalizePoints
<1>2. tr' \in TranscribeType /\ tr'.seen - tr'.last < MinDelta
  BY TranscriptionAssumption
     DEF Enter, NoTranscription, TranscribeType, TranscribePoints
<1>3. dia' \in DiarizeType
  <2>1. PICK point \in {"off", "load"} : dia' = [NoDiarization EXCEPT !.at = point]
    BY DEF Enter, NoDiarization
  <2>2. dia' = [at |-> point, turns |-> << >>, speaker |-> -1]
    BY <2>1 DEF NoDiarization
  <2>3. << >> \in Seq(Turns) /\ -1 \in -1 .. MaxTurns /\ point \in DiarizePoints
    BY SpeakerAssumption DEF DiarizePoints
  <2>4. QED
    BY <2>2, <2>3, Zenon DEF DiarizeType
<1>4. req' \in RequestType /\ RequestSound(req')
  <2>1. PICK point \in {"off", "begin"} : req' = [NoRequest EXCEPT !.at = point]
    BY DEF Enter, NoRequest
  <2>2. /\ req'.at = point /\ req'.attempt = 0 /\ req'.sent = 0
        /\ req'.slept = << >> /\ req'.answered = FALSE
        /\ req' = [at |-> point, attempt |-> 0, sent |-> 0, slept |-> << >>,
                   answered |-> FALSE]
    BY <2>1 DEF NoRequest
  <2>3. Len(Delays) \in Nat
    BY SummaryAssumption
  <2>4. req' \in RequestType
    BY <2>2, <2>3, DelaysFacts DEF RequestType, RequestPoints
  <2>5. RequestSound(req')
    BY <2>2, <2>3, DelaysFacts DEF RequestSound, RequestPoints
  <2>6. QED
    BY <2>4, <2>5
<1>5. stage = "none" => NobodyWorks'
  BY DEF Enter, NoTranscription, NoDiarization, NoRequest, NobodyWorks
<1>6. QED
  BY <1>1, <1>2, <1>3, <1>4, <1>5 DEF LocalsSound

\* One step of the transcriber: the throttle holds back a report only while it is
\* less than MinDelta ahead of the last one.
LEMMA TranscribeSound ==
  ASSUME tr \in TranscribeType, tr.seen - tr.last < MinDelta, TranscribeStep
  PROVE  tr' \in TranscribeType /\ tr'.seen - tr'.last < MinDelta
<1>1. /\ tr.at \in TranscribePoints /\ tr.duration \in Nat
      /\ tr.last \in 0 .. 99 /\ tr.shown \in 0 .. 99 /\ tr.seen \in 0 .. 99
      /\ tr.words \in 0 .. MinWords /\ tr.drafts \in SUBSET Interval
  <2>1. tr.duration \in Durations \union {0}
    BY Zenon DEF TranscribeType
  <2>2. tr.duration \in Nat
    <3>1. Durations \subseteq Nat
      BY Zenon, TranscriptionAssumption
    <3>2. 0 \in Nat
      OBVIOUS
    <3>3. QED
      BY <2>1, <3>1, <3>2, Zenon
  <2>3. QED
    BY <2>2, Zenon DEF TranscribeType
<1>2. CASE ModelAnswers
  <2>1. "loop" \in TranscribePoints /\ "transcription_failed" \in TranscribePoints
    BY DEF TranscribePoints, TranscribeKinds
  <2>2. \A d \in Durations :
          LET t == [tr EXCEPT !.at = "loop", !.duration = d]
          IN  t \in TranscribeType /\ t.seen = tr.seen /\ t.last = tr.last
    BY <2>1, Zenon DEF TranscribeType
  <2>3. LET t == [tr EXCEPT !.at = "transcription_failed"]
        IN  t \in TranscribeType /\ t.seen = tr.seen /\ t.last = tr.last
    BY <2>1, Zenon DEF TranscribeType
  <2>4. tr' \in TranscribeType /\ tr'.seen = tr.seen /\ tr'.last = tr.last
    BY <1>2, <2>2, <2>3, Zenon DEF ModelAnswers
  <2>5. QED
    BY <2>4
<1>3. CASE GeneratorEnds \/ GeneratorRaises
  BY <1>1, <1>3
     DEF GeneratorEnds, GeneratorRaises, TranscribeType, TranscribePoints,
         TranscribeKinds
<1>4. ASSUME NEW i \in Interval, NEW words \in 0 .. 2, NEW elapsed \in BOOLEAN,
             NEW written \in BOOLEAN, NextSegment(i, words, elapsed, written)
      PROVE  tr' \in TranscribeType /\ tr'.seen - tr'.last < MinDelta
  <2> DEFINE t == IF tr.duration = 0 THEN tr
                  ELSE Reported(tr, ProgressOf(i.end, tr.duration), elapsed, written)
  <2>1. t \in TranscribeType /\ t.seen - t.last < MinDelta
    <3>1. CASE tr.duration = 0
      BY <3>1
    <3>2. CASE tr.duration # 0
      <4> DEFINE candidate == ProgressOf(i.end, tr.duration)
      <4>1. candidate \in 0 .. 99
        BY <1>1, <3>2, TranscriptionAssumption, ProgressBounds, SMTT(30) DEF Interval
      <4> HIDE DEF candidate
      <4>2. PICK last, shown \in 0 .. 99 :
              /\ Reported(tr, candidate, elapsed, written) =
                   [tr EXCEPT !.seen = Most(tr.seen, candidate), !.last = last,
                              !.shown = shown]
              /\ IF IsReported(candidate, elapsed) THEN last = candidate
                                                   ELSE last = tr.last
        <5>1. PICK last \in 0 .. 99 :
                last = IF IsReported(candidate, elapsed) THEN candidate ELSE tr.last
          BY <1>1, <4>1
        <5>2. PICK shown \in 0 .. 99 :
                shown = IF IsReported(candidate, elapsed) /\ written THEN candidate
                                                                     ELSE tr.shown
          BY <1>1, <4>1
        <5>3. QED
          BY <5>1, <5>2 DEF Reported
      <4>3. Most(tr.seen, candidate) \in 0 .. 99
        BY <1>1, <4>1 DEF Most
      <4>4. Most(tr.seen, candidate) - last < MinDelta
        <5>1. /\ IsReported(candidate, elapsed) => candidate > tr.last
              /\ ~IsReported(candidate, elapsed) =>
                   ~(candidate > tr.last) \/ ~(candidate - tr.last >= MinDelta)
          BY Zenon DEF IsReported
        <5>2. MinDelta \in Nat /\ MinDelta > 0
          BY TranscriptionAssumption
        <5>3. CASE IsReported(candidate, elapsed)
          <6>1. last = candidate /\ candidate > tr.last
            BY <4>2, <5>1, <5>3
          <6>2. /\ tr.seen \in Int /\ tr.last \in Int /\ candidate \in Int
                /\ tr.seen - tr.last < MinDelta
            BY <1>1, <4>1
          <6>3. QED
            BY <5>2, <6>1, <6>2 DEF Most
        <5>4. CASE ~IsReported(candidate, elapsed)
          <6>1. last = tr.last
            BY <4>2, <5>4
          <6>2. QED
            BY <1>1, <4>1, <5>1, <5>2, <5>4, <6>1 DEF Most
        <5>5. QED
          BY <5>3, <5>4
      <4>5. t = [tr EXCEPT !.seen = Most(tr.seen, candidate), !.last = last,
                           !.shown = shown]
        BY <3>2, <4>2 DEF candidate
      <4> HIDE DEF t
      <4>6. /\ t.seen = Most(tr.seen, candidate) /\ t.last = last
            /\ t \in TranscribeType
        BY <4>2, <4>3, <4>5, Zenon DEF TranscribeType
      <4>7. QED
        BY <4>4, <4>6
    <3>3. QED
      BY <3>1, <3>2
  <2>2. tr' = IF words = 0 THEN t
              ELSE [t EXCEPT !.drafts = @ \union {i}, !.words = Least(MinWords, @ + words)]
    BY <1>4 DEF NextSegment
  <2> HIDE DEF t
  <2>3. CASE words = 0
    BY <2>1, <2>2, <2>3
  <2>4. CASE words # 0
    <3>1. t.words \in 0 .. MinWords /\ t.drafts \in SUBSET Interval
      BY <2>1 DEF TranscribeType
    <3>2. Least(MinWords, t.words + words) \in 0 .. MinWords
      BY <1>4, <3>1, TranscriptionAssumption DEF Least
    <3>3. t.drafts \union {i} \in SUBSET Interval
      BY <3>1
    <3>4. tr' = [t EXCEPT !.drafts = t.drafts \union {i},
                          !.words = Least(MinWords, t.words + words)]
      BY <2>2, <2>4
    <3>5. tr' \in TranscribeType /\ tr'.seen = t.seen /\ tr'.last = t.last
      BY <2>1, <3>2, <3>3, <3>4, Zenon DEF TranscribeType
    <3>6. QED
      BY <2>1, <3>5
  <2>5. QED
    BY <2>3, <2>4
<1>5. QED
  BY <1>2, <1>3, <1>4 DEF TranscribeStep

\* A step of the diarization.
LEMMA DiarizeSound ==
  ASSUME NEW t, dia \in DiarizeType, DiarizeStep(t)
  PROVE  dia' \in DiarizeType
<1>1. CASE DiarizerAnswers
  <2>1. CASE \E kind \in DiarizeKinds : dia' = [dia EXCEPT !.at = kind]
    BY <2>1 DEF DiarizeType, DiarizePoints
  <2>2. CASE \E turns \in BoundedSeq(Turns, MaxTurns) :
               dia' = [dia EXCEPT !.at = "assign", !.turns = turns]
    <3>1. PICK turns \in BoundedSeq(Turns, MaxTurns) :
            dia' = [dia EXCEPT !.at = "assign", !.turns = turns]
      BY <2>2
    <3>2. turns \in Seq(Turns) /\ "assign" \in DiarizePoints
      BY SpeakerAssumption DEF BoundedSeq, SeqOf, DiarizePoints
    <3>3. QED
      BY <3>1, <3>2, Zenon DEF DiarizeType
  <2>3. QED
    BY <1>1, <2>1, <2>2 DEF DiarizerAnswers
<1>2. CASE TurnsAssigned(t)
  <2>1. PICK speaker \in -1 .. MaxTurns :
          dia' = [dia EXCEPT !.speaker = speaker,
                             !.at = IF speaker = -1 THEN "diarization_failed" ELSE "done"]
    BY <1>2 DEF TurnsAssigned
  <2>2. (IF speaker = -1 THEN "diarization_failed" ELSE "done") \in DiarizePoints
    BY DEF DiarizePoints, DiarizeKinds
  <2>3. QED
    BY <2>1, <2>2, Zenon DEF DiarizeType
<1>3. QED
  BY <1>1, <1>2 DEF DiarizeStep

\* A request that succeeded is no passing failure.
LEMMA GoodStatus ==
  ASSUME NEW code \in 1 .. 399
  PROVE  ~IsTransient(code)
<1>1. code \in Int /\ 1 <= code /\ code <= 399
  OBVIOUS
<1>2. QED
  BY <1>1 DEF IsTransient

\* One step of the summarizer.
LEMMA SummarizeSound ==
  ASSUME req \in RequestType, RequestSound(req), SummarizeStep
  PROVE  req' \in RequestType /\ RequestSound(req')
<1> DEFINE N == Len(Delays)
<1>1. N \in Nat
  BY SummaryAssumption
<1>2. /\ req.at \in RequestPoints /\ req.answered \in BOOLEAN
      /\ req.attempt \in 0 .. N /\ req.sent \in 0 .. req.attempt + 1
      /\ req.slept = SubSeq(Delays, 1, req.attempt)
  BY Zenon DEF RequestSound
\* What the record is made of, whichever step changed it.
<1>3. ASSUME NEW r, NEW at \in RequestPoints, NEW attempt \in 0 .. N,
             NEW sent \in 0 .. attempt + 1, NEW slept, NEW answered \in BOOLEAN,
             r = [at |-> at, attempt |-> attempt, sent |-> sent, slept |-> slept,
                  answered |-> answered],
             slept = SubSeq(Delays, 1, attempt)
      PROVE  r \in RequestType
  <2>1. sent \in 0 .. N + 1
    BY <1>1
  <2>2. slept \in {SubSeq(Delays, 1, n) : n \in 0 .. N}
    BY <1>3
  <2>3. QED
    BY <1>3, <2>1, <2>2, Zenon DEF RequestType
<1>4. req = [at |-> req.at, attempt |-> req.attempt, sent |-> req.sent,
             slept |-> req.slept, answered |-> req.answered]
  BY Zenon DEF RequestType
<1> HIDE DEF N
<1>5. CASE Checked
  <2>1. PICK at \in {"request"} \union SummaryKinds : req' = [req EXCEPT !.at = at]
    BY <1>5 DEF Checked
  <2>2. /\ req.at = "begin" /\ req.sent = 0 /\ req.attempt = 0 /\ ~req.answered
    BY <1>5 DEF Checked, RequestSound
  <2>3. at \in RequestPoints
    BY DEF RequestPoints
  <2>4. /\ req'.at = at /\ req'.attempt = req.attempt /\ req'.sent = req.sent
        /\ req'.slept = req.slept /\ req'.answered = req.answered
        /\ req' = [at |-> at, attempt |-> req.attempt, sent |-> req.sent,
                   slept |-> req.slept, answered |-> req.answered]
    BY <1>4, <2>1
  <2>5. req' \in RequestType
    BY <1>2, <1>3, <2>3, <2>4
  <2>6. RequestSound(req')
    BY <1>1, <1>2, <2>2, <2>3, <2>4 DEF RequestSound, SummaryKinds, N
  <2>7. QED
    BY <2>5, <2>6
<1>6. CASE Requested
  <2>1. PICK code \in Codes, at \in RequestPoints :
          /\ req' = [req EXCEPT !.sent = req.sent + 1, !.answered = IsAnswer(code),
                                !.at = at]
          /\ at \in {"sleep", "config_missing", "summarization_failed", "done"}
          /\ at = "sleep" => IsTransient(code) /\ ~Exhausted
          /\ at = "summarization_failed" /\ IsTransient(code) => Exhausted
    <3>1. PICK code \in Codes :
            LET sent == [req EXCEPT !.sent = @ + 1, !.answered = IsAnswer(code)] IN
            \/ /\ IsTransient(code)
               /\ req' = [sent EXCEPT !.at = IF Exhausted THEN "summarization_failed"
                                                          ELSE "sleep"]
            \/ code \in {401, 403} /\ req' = [sent EXCEPT !.at = "config_missing"]
            \/ /\ code >= 400 /\ code \notin {401, 403} /\ ~IsTransient(code)
               /\ req' = [sent EXCEPT !.at = "summarization_failed"]
            \/ /\ code \in 1 .. 399
               /\ \E answer \in Answers :
                    req' = [sent EXCEPT !.at = IF Accepted(answer) THEN "done"
                                               ELSE "summarization_failed"]
      BY <1>6, Zenon DEF Requested
    <3> DEFINE Sent == [req EXCEPT !.sent = req.sent + 1, !.answered = IsAnswer(code)]
               To(at) == [req EXCEPT !.sent = req.sent + 1,
                                     !.answered = IsAnswer(code), !.at = at]
    <3>2. \A at : [Sent EXCEPT !.at = at] = To(at)
      BY <1>4
    <3>3. {"sleep", "config_missing", "summarization_failed", "done"}
            \subseteq RequestPoints
      BY DEF RequestPoints, SummaryKinds
    <3>4. code \in 1 .. 399 => ~IsTransient(code)
      BY GoodStatus
    <3>5. \/ \E at : /\ req' = To(at) /\ IsTransient(code)
                     /\ at = IF Exhausted THEN "summarization_failed" ELSE "sleep"
          \/ \E at \in {"config_missing"} : req' = To(at)
          \/ \E at \in {"summarization_failed", "done"} :
               req' = To(at) /\ ~IsTransient(code)
      BY <3>1, <3>2, <3>4, ZenonT(30)
    <3>6. QED
      BY <3>3, <3>5
  <2>2. req.at = "request" /\ req.sent = req.attempt /\ ~req.answered
    BY <1>6 DEF Requested, RequestSound
  <2>3. code \in Nat
    BY SummaryAssumption
  <2>4. ~IsAnswer(code) => code = 0 \/ code \in {408, 429} \union 500 .. 599
    BY <2>3 DEF IsAnswer
  <2>5. IsTransient(code) => ~IsAnswer(code)
    BY DEF IsTransient, IsAnswer
  <2>6. ~IsAnswer(code) => IsTransient(code)
    BY <2>4 DEF IsTransient
  <2> DEFINE sent == req.sent + 1
             answered == IsAnswer(code)
  <2>7. answered \in BOOLEAN
    BY DEF IsAnswer
  <2>8. sent \in 0 .. req.attempt + 1 /\ sent = req.attempt + 1
    BY <1>1, <1>2, <2>2
  <2>9. ~Exhausted <=> req.attempt < N
    BY <1>1, <1>2 DEF Exhausted, N
  <2>10. /\ at = "sleep" => ~answered /\ req.attempt < N
         /\ at = "summarization_failed" /\ ~answered => req.attempt = N
    BY <1>1, <1>2, <2>1, <2>5, <2>6, <2>9
  <2>11. req' = [req EXCEPT !.sent = sent, !.answered = answered, !.at = at]
    BY <2>1
  <2> HIDE DEF sent, answered
  <2>12. /\ req'.at = at /\ req'.attempt = req.attempt /\ req'.sent = sent
         /\ req'.slept = req.slept /\ req'.answered = answered
         /\ req' = [at |-> at, attempt |-> req.attempt, sent |-> sent,
                    slept |-> req.slept, answered |-> answered]
    BY <1>4, <2>11
  <2>13. req' \in RequestType
    BY <1>2, <1>3, <2>7, <2>8, <2>12
  <2>14. RequestSound(req')
    BY <1>1, <1>2, <2>1, <2>7, <2>8, <2>10, <2>12 DEF RequestSound, N
  <2>15. QED
    BY <2>13, <2>14
<1>7. CASE Slept
  <2>1. /\ req.at = "sleep" /\ req.sent = req.attempt + 1 /\ req.attempt < N
        /\ ~req.answered
    BY <1>7 DEF Slept, RequestSound, N
  <2> DEFINE attempt == req.attempt + 1
             slept == Append(req.slept, Delays[attempt])
  <2>2. attempt \in 0 .. N /\ req.sent \in 0 .. attempt + 1 /\ req.sent = attempt
    BY <1>1, <1>2, <2>1
  <2>3. slept = SubSeq(Delays, 1, attempt)
    BY <1>1, <1>2, <2>1, DelaysFacts DEF N
  <2>4. req' = [req EXCEPT !.at = "request", !.attempt = attempt, !.slept = slept]
    BY <1>7 DEF Slept
  <2> HIDE DEF attempt, slept
  <2>5. /\ req'.at = "request" /\ req'.attempt = attempt /\ req'.sent = req.sent
        /\ req'.slept = slept /\ req'.answered = req.answered
        /\ req' = [at |-> "request", attempt |-> attempt, sent |-> req.sent,
                   slept |-> slept, answered |-> req.answered]
    BY <1>4, <2>4
  <2>6. "request" \in RequestPoints
    BY DEF RequestPoints
  <2>7. req' \in RequestType
    BY <1>2, <1>3, <2>2, <2>3, <2>5, <2>6
  <2>8. RequestSound(req')
    BY <1>1, <1>2, <2>1, <2>2, <2>3, <2>5, <2>6 DEF RequestSound, N
  <2>9. QED
    BY <2>7, <2>8
<1>8. QED
  BY <1>5, <1>6, <1>7 DEF SummarizeStep

\* A step of the normalization.
LEMMA NormalizeSound ==
  ASSUME NEW claim, step \in NormalizePoints, NormalizeStep(claim)
  PROVE  step # "off" /\ step' \in NormalizePoints
BY DEF NormalizeStep, NormalizePoints, NormalizationKinds, UnlinkPartial,
       UnlinkTransient, FindOriginal, FfmpegStarts, FfmpegEnds, FfmpegFails,
       RenameTransient, ReplaceNormalized, Probe, DeleteOriginal

\* What is stored of a transcript.
LEMMA TranscriptFacts ==
  /\ EmptyTranscript \in StoredTranscript
  /\ \A i \in Interval, timed \in BOOLEAN :
       [timed |-> timed, segment |-> i] \in StoredTranscript
<1>1. [start |-> 0, end |-> 0] \in Interval
  BY TranscriptionAssumption DEF Interval
<1>2. QED
  BY <1>1, Zenon DEF EmptyTranscript, StoredTranscript

\* It holds of an uploaded meeting.
LEMMA StageInit == Init => StageInv
<1> SUFFICES ASSUME Init PROVE StageInv
  OBVIOUS
<1>1. AudioInv
  BY AudioInit
<1>2. NobodyWorks /\ step \in NormalizePoints
  BY DEF Init, FilesInit, NoTranscription, NoDiarization, NoRequest, NobodyWorks,
         NormalizePoints
<1>3. tr \in TranscribeType /\ tr.seen - tr.last < MinDelta
  BY TranscriptionAssumption
     DEF Init, NoTranscription, TranscribeType, TranscribePoints
<1>4. dia \in DiarizeType
  <2>1. dia = [at |-> "off", turns |-> << >>, speaker |-> -1]
    BY DEF Init, NoDiarization
  <2>2. << >> \in Seq(Turns) /\ -1 \in -1 .. MaxTurns /\ "off" \in DiarizePoints
    BY SpeakerAssumption DEF DiarizePoints
  <2>3. QED
    BY <2>1, <2>2, Zenon DEF DiarizeType
<1>5. req \in RequestType /\ RequestSound(req)
  <2>1. /\ req.at = "off" /\ req.attempt = 0 /\ req.sent = 0
        /\ req.slept = << >> /\ req.answered = FALSE
        /\ req = [at |-> "off", attempt |-> 0, sent |-> 0, slept |-> << >>,
                  answered |-> FALSE]
    BY DEF Init, NoRequest
  <2>2. Len(Delays) \in Nat
    BY SummaryAssumption
  <2>3. req \in RequestType
    BY <2>1, <2>2, DelaysFacts DEF RequestType, RequestPoints
  <2>4. RequestSound(req)
    BY <2>1, <2>2, DelaysFacts DEF RequestSound, RequestPoints
  <2>5. QED
    BY <2>3, <2>4
<1>6. RowSound
  <2>1. failure \in [kind : Kinds \union {"none"}, stage : StageNames \union {"none"}]
    BY DEF Init, NoFailure
  <2>2. QED
    BY <1>2, <2>1, TranscriptFacts DEF Init, RowSound
<1>7. QED
  BY <1>1, <1>2, <1>3, <1>4, <1>5, <1>6 DEF StageInv, LocalsSound

\* Every step of the meeting keeps the local variables and the row as they should
\* be; that it keeps the files so is AudioStep.
LEMMA StageStep ==
  ASSUME StageInv, [Next]_vars
  PROVE  StageInv'
<1>1. AudioInv'
  BY AudioStep DEF StageInv
<1>2. /\ step \in NormalizePoints /\ tr \in TranscribeType
      /\ tr.seen - tr.last < MinDelta /\ dia \in DiarizeType
      /\ req \in RequestType /\ RequestSound(req)
  BY DEF StageInv, LocalsSound
<1>3. RowSound
  BY DEF StageInv
<1> SUFFICES LocalsSound' /\ RowSound'
  BY <1>1 DEF StageInv
\* A stage that is under way has a worker, who sees a status of a stage.
<1>4. ~NobodyWorks => claimed # "none" /\ status \in StageNames
  BY <1>3 DEF RowSound
<1>5. CASE Claim
  <2>1. LocalsSound'
    BY <1>5, EnterSound DEF Claim
  <2>2. RowSound'
    BY <1>3, <1>5 DEF Claim, RowSound, StageNames
  <2>3. QED
    BY <2>1, <2>2
<1>6. CASE NormalizationWork
  <2>1. step # "off" /\ step' \in NormalizePoints
    BY <1>2, <1>6, NormalizeSound DEF NormalizationWork
  <2>2. LocalsSound'
    BY <1>2, <1>6, <2>1 DEF NormalizationWork, LocalsSound
  <2>3. RowSound'
    BY <1>3, <1>4, <1>6, <2>1 DEF NormalizationWork, RowSound, NobodyWorks
  <2>4. QED
    BY <2>2, <2>3
<1>7. CASE Normalized
  <2>1. LocalsSound'
    BY <1>7, EnterSound DEF Normalized
  <2>2. ~NobodyWorks
    BY <1>7 DEF Normalized, NobodyWorks
  <2>3. RowSound'
    BY <1>3, <1>4, <1>7, <2>2, TranscriptFacts DEF Normalized, RowSound, StageNames
  <2>4. QED
    BY <2>1, <2>3
<1>8. CASE TranscriptionWork
  <2>1. tr' \in TranscribeType /\ tr'.seen - tr'.last < MinDelta
    BY <1>2, <1>8, TranscribeSound DEF TranscriptionWork
  <2>2. LocalsSound'
    BY <1>2, <1>8, <2>1 DEF TranscriptionWork, LocalsSound
  <2>3. ~NobodyWorks
    BY <1>8 DEF TranscriptionWork, TranscribeStep, ModelAnswers, NextSegment,
               GeneratorEnds, GeneratorRaises, NobodyWorks
  <2>4. RowSound'
    BY <1>3, <1>4, <1>8, <2>3 DEF TranscriptionWork, RowSound
  <2>5. QED
    BY <2>2, <2>4
<1>9. CASE Transcribed
  <2>1. LocalsSound'
    BY <1>9, EnterSound DEF Transcribed
  <2>2. ~NobodyWorks
    BY <1>9 DEF Transcribed, NobodyWorks
  <2>3. transcript' \in StoredTranscript
    <3>1. PICK i \in tr.drafts :
            transcript' = [timed |-> \A j \in tr.drafts : IsValidInterval(j),
                           segment |-> i]
      BY <1>9 DEF Transcribed
    <3>2. i \in Interval
      BY <1>2, Zenon DEF TranscribeType
    <3>3. (\A j \in tr.drafts : IsValidInterval(j)) \in BOOLEAN
      OBVIOUS
    <3>4. QED
      BY <3>1, <3>2, <3>3, TranscriptFacts, Zenon
  <2>4. RowSound'
    BY <1>3, <1>4, <1>9, <2>2, <2>3 DEF Transcribed, RowSound, StageNames
  <2>5. QED
    BY <2>1, <2>4
<1>10. CASE DiarizationWork
  <2>1. dia' \in DiarizeType
    BY <1>2, <1>10, DiarizeSound DEF DiarizationWork
  <2>2. LocalsSound'
    BY <1>2, <1>10, <2>1 DEF DiarizationWork, LocalsSound
  <2>3. ~NobodyWorks
    BY <1>10 DEF DiarizationWork, DiarizeStep, DiarizerAnswers, TurnsAssigned,
                NobodyWorks
  <2>4. RowSound'
    BY <1>3, <1>4, <1>10, <2>3 DEF DiarizationWork, RowSound
  <2>5. QED
    BY <2>2, <2>4
<1>11. CASE Diarized
  <2>1. LocalsSound'
    BY <1>11, EnterSound DEF Diarized
  <2>2. ~NobodyWorks
    BY <1>11 DEF Diarized, NobodyWorks
  <2>3. RowSound'
    BY <1>3, <1>4, <1>11, <2>2, TranscriptFacts DEF Diarized, RowSound, StageNames
  <2>4. QED
    BY <2>1, <2>3
<1>12. CASE SummarizationWork
  <2>1. req' \in RequestType /\ RequestSound(req')
    BY <1>2, <1>12, SummarizeSound DEF SummarizationWork
  <2>2. LocalsSound'
    BY <1>2, <1>12, <2>1 DEF SummarizationWork, LocalsSound
  <2>3. ~NobodyWorks
    BY <1>12 DEF SummarizationWork, SummarizeStep, Checked, Requested, Slept,
                NobodyWorks
  <2>4. RowSound'
    BY <1>3, <1>4, <1>12, <2>3 DEF SummarizationWork, RowSound
  <2>5. QED
    BY <2>2, <2>4
<1>13. CASE Summarized
  <2>1. LocalsSound' /\ NobodyWorks'
    BY <1>13, EnterSound DEF Summarized
  <2>2. RowSound'
    BY <1>3, <1>13, <2>1 DEF Summarized, RowSound
  <2>3. QED
    BY <2>1, <2>2
<1>14. CASE StageFails
  <2>1. LocalsSound' /\ NobodyWorks'
    BY <1>14, EnterSound DEF StageFails
  <2>2. PICK kind \in {step, tr.at, dia.at, req.at} \intersect Kinds :
          failure' = [kind |-> kind, stage |-> status]
    BY <1>14 DEF StageFails
  <2>3. ~NobodyWorks
    BY <2>2 DEF NobodyWorks, Kinds, NormalizationKinds, TranscribeKinds,
               DiarizeKinds, SummaryKinds
  <2>4. status \in StageNames /\ kind \in Kinds
    BY <1>4, <2>2, <2>3
  <2>5. /\ failure' \in [kind : Kinds \union {"none"},
                         stage : StageNames \union {"none"}]
        /\ failure'.stage \in StageNames
    BY <2>2, <2>4
  <2>6. RowSound'
    BY <1>3, <1>14, <2>1, <2>5 DEF StageFails, RowSound
  <2>7. QED
    BY <2>1, <2>6
<1>15. CASE Crash
  <2>1. LocalsSound' /\ NobodyWorks'
    BY <1>15, EnterSound DEF Crash
  <2>2. RowSound'
    BY <1>3, <1>15, <2>1 DEF Crash, RowSound, StageNames
  <2>3. QED
    BY <2>1, <2>2
<1>16. CASE Retry
  <2>1. LocalsSound'
    BY <1>2, <1>16 DEF Retry, LocalsSound
  <2>2. NobodyWorks /\ NobodyWorks'
    BY <1>4, <1>16 DEF Retry, NobodyWorks, StageNames
  <2>3. failure' \in [kind : Kinds \union {"none"}, stage : StageNames \union {"none"}]
    BY <1>16 DEF Retry, NoFailure
  <2>4. claimed' = "none" /\ status' \in StageNames
    BY <1>3, <1>16 DEF Retry, RowSound, StageNames
  <2>5. RowSound'
    BY <1>3, <1>16, <2>2, <2>3, <2>4 DEF Retry, RowSound, StageNames
  <2>6. QED
    BY <2>1, <2>5
<1>17. CASE UNCHANGED vars
  BY <1>2, <1>3, <1>17 DEF vars, LocalsSound, RowSound, NobodyWorks
<1>18. QED
  BY <1>5, <1>6, <1>7, <1>8, <1>9, <1>10, <1>11, <1>12, <1>13, <1>14, <1>15, <1>16,
     <1>17 DEF Next, Work

\* A call that has its answer sends nothing more; whatever else changes req
\* starts a call or ends one, with nothing sent.
LEMMA AnsweredStep ==
  ASSUME StageInv, [Next]_vars
  PROVE  [req.answered => req'.sent <= req.sent]_req
<1>1. req.sent \in Nat
  BY SummaryAssumption DEF StageInv, LocalsSound, RequestSound
<1>2. ASSUME NEW stage, Enter(stage)
      PROVE  req'.sent = 0
  BY <1>2 DEF Enter, NoRequest
<1>3. CASE SummarizationWork
  <2>1. req.at \in {"begin", "request", "sleep"}
    BY <1>3 DEF SummarizationWork, SummarizeStep, Checked, Requested, Slept
  <2>2. ~req.answered
    BY <2>1 DEF StageInv, LocalsSound, RequestSound
  <2>3. QED
    BY <2>2
<1>4. CASE \/ Claim \/ Normalized \/ Transcribed \/ Diarized \/ Summarized
           \/ StageFails \/ Crash
  <2>1. req'.sent = 0
    BY <1>2, <1>4
    DEF Claim, Normalized, Transcribed, Diarized, Summarized, StageFails, Crash
  <2>2. QED
    BY <1>1, <2>1
<1>5. CASE \/ NormalizationWork \/ TranscriptionWork \/ DiarizationWork \/ Retry
           \/ UNCHANGED vars
  BY <1>5 DEF NormalizationWork, TranscriptionWork, DiarizationWork, Retry, vars
<1>6. QED
  BY <1>3, <1>4, <1>5 DEF Next, Work

-----------------------------------------------------------------------------
(* Speakers: what is heard of each, and what they are given.                *)

\* A segment and a turn, with times of any size.
Segment == [start : Nat, end : Nat]
Turn == [start : Nat, end : Nat, label : Nat]

\* The moments of a turn that lie in a segment.
Moments(s, t) == {m \in s.start .. s.end - 1 : t.start <= m /\ m < t.end}

\* There are as many as the overlap is long.
LEMMA MomentsCounted ==
  ASSUME NEW s \in Segment, NEW t \in Turn
  PROVE  /\ IsFiniteSet(Moments(s, t))
         /\ Cardinality(Moments(s, t)) = Overlap(s, t)
         /\ Overlap(s, t) \in Nat
<1>1. /\ s.start \in Nat /\ s.end \in Nat
      /\ t.start \in Nat /\ t.end \in Nat
  BY DEF Segment, Turn
<1> DEFINE end   == IF s.end <= t.end THEN s.end ELSE t.end
           start == IF s.start >= t.start THEN s.start ELSE t.start
<1>2. start \in Nat /\ end \in Nat
  BY <1>1
<1>3. Moments(s, t) = start .. end - 1
  BY <1>1 DEF Moments
<1>4. Overlap(s, t) = IF end > start THEN end - start ELSE 0
  BY DEF Overlap
<1> HIDE DEF start, end
<1>5. /\ IsFiniteSet(start .. end - 1)
      /\ Cardinality(start .. end - 1) = IF start > end - 1 THEN 0 ELSE end - 1 - start + 1
  <2>1. start \in Int /\ end - 1 \in Int
    BY <1>2
  <2>2. QED
    BY <2>1, FS_Interval
<1>6. (IF start > end - 1 THEN 0 ELSE end - 1 - start + 1) = Overlap(s, t)
  BY <1>2, <1>4
<1>7. Overlap(s, t) \in Nat
  BY <1>2, <1>4
<1>8. QED
  BY <1>3, <1>5, <1>6, <1>7

\* What the turns up to number n say for a speaker, moment by moment.
HeardUpTo(s, turns, raw, n) ==
  {heard \in (1 .. n) \X (s.start .. s.end - 1) :
     LET turn == turns[heard[1]]
     IN turn.label = raw /\ turn.start <= heard[2] /\ heard[2] < turn.end}

LEMMA OneMoreTurn ==
  ASSUME NEW s \in Segment, NEW turns \in Seq(Turn), NEW raw,
         NEW n \in 0 .. Len(turns) - 1,
         IsFiniteSet(HeardUpTo(s, turns, raw, n))
  PROVE  /\ IsFiniteSet(HeardUpTo(s, turns, raw, n + 1))
         /\ Cardinality(HeardUpTo(s, turns, raw, n + 1)) =
              Cardinality(HeardUpTo(s, turns, raw, n))
                + (IF turns[n + 1].label = raw THEN Overlap(s, turns[n + 1]) ELSE 0)
<1> DEFINE old == HeardUpTo(s, turns, raw, n)
           all == HeardUpTo(s, turns, raw, n + 1)
           t   == turns[n + 1]
           new == {n + 1} \X Moments(s, t)
<1>1. t \in Turn /\ n \in Nat
  BY ElementOfSeq
<1>2. IsFiniteSet({n + 1}) /\ Cardinality({n + 1}) = 1
  BY FS_Singleton
<1>3. /\ IsFiniteSet(new) /\ Cardinality(new) = Overlap(s, t)
      /\ Overlap(s, t) \in Nat
  <2>1. /\ IsFiniteSet(Moments(s, t)) /\ Cardinality(Moments(s, t)) = Overlap(s, t)
        /\ Overlap(s, t) \in Nat
    BY <1>1, MomentsCounted
  <2>2. IsFiniteSet(new) /\ Cardinality(new) = 1 * Cardinality(Moments(s, t))
    BY <1>2, <2>1, FS_Product
  <2>3. QED
    BY <2>1, <2>2
<1>4. Cardinality(old) \in Nat
  BY FS_CardinalityType
<1>5. CASE t.label = raw
  <2>1. all = old \union new
    <3>1. \A h \in all : h \in old \/ h \in new
      BY <1>1, <1>5 DEF HeardUpTo, Moments
    <3>2. \A h \in old : h \in all
      BY <1>1 DEF HeardUpTo
    <3>3. \A h \in new : h \in all
      BY <1>1, <1>5 DEF HeardUpTo, Moments
    <3>4. QED
      BY <3>1, <3>2, <3>3
  <2>2. old \cap new = {}
    BY <1>1 DEF HeardUpTo
  <2> HIDE DEF old, all, new
  <2>3. /\ IsFiniteSet(all)
        /\ Cardinality(all) = Cardinality(old) + Cardinality(new) - Cardinality({})
    BY <1>3, <2>1, <2>2, FS_Union DEF old
  <2>4. QED
    BY <1>3, <1>4, <1>5, <2>3, FS_EmptySet DEF old, all
<1>6. CASE t.label # raw
  <2>1. all = old
    BY <1>1, <1>6 DEF HeardUpTo
  <2>2. QED
    BY <1>4, <1>6, <2>1
<1>7. QED
  BY <1>5, <1>6

\* The votes of a speaker are the moments it is heard.
LEMMA VotesAreMoments ==
  ASSUME NEW s \in Segment, NEW turns \in Seq(Turn), NEW raw \in RawLabels(turns)
  PROVE  /\ IsFiniteSet(HeardIn(s, turns, raw))
         /\ Votes(s, turns)[raw] = Cardinality(HeardIn(s, turns, raw))
<1> DEFINE N == Len(turns)
           x == [n \in 1 .. N |-> IF turns[n].label = raw THEN Overlap(s, turns[n]) ELSE 0]
           Sums(f) == f = [n \in 0 .. N |->
                 IF n = 0 THEN 0
                 ELSE f[n - 1] + (IF turns[n].label = raw THEN Overlap(s, turns[n]) ELSE 0)]
           sum == CHOOSE f : Sums(f)
<1>1. N \in Nat /\ DOMAIN turns = 1 .. N
  BY LenProperties
<1>2. x \in [1 .. N -> Nat]
  <2>1. \A n \in 1 .. N : turns[n] \in Turn
    BY ElementOfSeq
  <2>2. \A n \in 1 .. N : Overlap(s, turns[n]) \in Nat
    BY <2>1, MomentsCounted
  <2>3. QED
    BY <2>2
<1>3. \E f : Sums(f)
  <2>1. PICK f : IsSumOf(f, x, N)
    <3> HIDE DEF x, N
    <3>1. QED
      BY <1>1, <1>2, SumsExist
  <2>2. f = [n \in 0 .. N |-> IF n = 0 THEN 0 ELSE f[n - 1] + x[n]]
    <3> HIDE DEF x, N
    <3>1. QED
      BY <1>1, <2>1 DEF IsSumOf
  <2>3. \A n \in 0 .. N :
          (IF n = 0 THEN 0 ELSE f[n - 1] + x[n]) =
            IF n = 0 THEN 0
            ELSE f[n - 1] + (IF turns[n].label = raw THEN Overlap(s, turns[n]) ELSE 0)
    <3>1. \A n \in 0 .. N : n # 0 => n \in 1 .. N
      BY <1>1
    <3> HIDE DEF N
    <3>2. QED
      BY <3>1
  <2>4. Sums(f)
    <3> HIDE DEF x, N
    <3>1. QED
      BY <2>2, <2>3, Zenon
  <2>5. QED
    BY <2>4
<1>4. Sums(sum)
  <2> HIDE DEF Sums
  <2>1. QED
    BY <1>3
<1>5. Votes(s, turns)[raw] = sum[N]
  BY DEF Votes
<1> HIDE DEF sum
<1> DEFINE S == {n \in 0 .. N : /\ IsFiniteSet(HeardUpTo(s, turns, raw, n))
                                /\ sum[n] = Cardinality(HeardUpTo(s, turns, raw, n))}
<1>6. 0 \in S
  <2>1. HeardUpTo(s, turns, raw, 0) = {}
    BY DEF HeardUpTo
  <2>2. sum[0] = 0
    BY <1>1, <1>4
  <2>3. /\ IsFiniteSet(HeardUpTo(s, turns, raw, 0))
        /\ sum[0] = Cardinality(HeardUpTo(s, turns, raw, 0))
    BY <2>1, <2>2, FS_EmptySet, Zenon
  <2>4. 0 \in 0 .. N
    BY <1>1
  <2>5. QED
    BY <2>3, <2>4, Zenon
<1>7. ASSUME NEW n \in 0 .. N - 1, n \in S PROVE n + 1 \in S
  <2>1. sum[n + 1] = sum[n] + (IF turns[n + 1].label = raw
                               THEN Overlap(s, turns[n + 1]) ELSE 0)
    <3>1. n + 1 \in 0 .. N /\ n + 1 # 0 /\ n + 1 - 1 = n
      BY <1>1
    <3>2. QED
      BY <1>4, <3>1
  <2>2. IsFiniteSet(HeardUpTo(s, turns, raw, n))
    BY <1>7
  <2>3. /\ IsFiniteSet(HeardUpTo(s, turns, raw, n + 1))
        /\ Cardinality(HeardUpTo(s, turns, raw, n + 1)) =
              Cardinality(HeardUpTo(s, turns, raw, n))
                + (IF turns[n + 1].label = raw THEN Overlap(s, turns[n + 1]) ELSE 0)
    BY <2>2, OneMoreTurn
  <2>4. QED
    BY <1>1, <1>7, <2>1, <2>3
<1>8. 0 .. N \subseteq S
  <2> HIDE DEF S, N
  <2>1. QED
    BY <1>1, <1>6, <1>7, BoundedInduction
<1>9. HeardUpTo(s, turns, raw, N) = HeardIn(s, turns, raw)
  BY <1>1 DEF HeardUpTo, HeardIn
<1>10. N \in S
  BY <1>1, <1>8
<1>11. QED
  BY <1>5, <1>9, <1>10

-----------------------------------------------------------------------------
(* Filtering and sorting.                                                   *)

\* Places of usable turns in the order they are sorted in.
SortedAt(reported) ==
  {p \in UsableAt(reported) \X UsableAt(reported) :
     \/ Earlier(reported[p[1]], reported[p[2]])
     \/ reported[p[1]] = reported[p[2]] /\ p[1] <= p[2]}

\* The turns' key orders them.
LEMMA EarlierOrders ==
  /\ \A a, b \in Turn : a = b \/ Earlier(a, b) \/ Earlier(b, a)
  /\ \A a, b \in Turn : Earlier(a, b) => ~Earlier(b, a) /\ a # b
  /\ \A a, b, c \in Turn : Earlier(a, b) /\ Earlier(b, c) => Earlier(a, c)
<1>1. \A a \in Turn : a.start \in Nat /\ a.end \in Nat /\ a.label \in Nat
  BY DEF Turn
<1>2. \A a, b \in Turn :
        a.start = b.start /\ a.end = b.end /\ a.label = b.label => a = b
  BY DEF Turn
<1>3. QED
  BY <1>1, <1>2, SMT DEF Earlier

LEMMA SortedOrders ==
  ASSUME NEW reported \in Seq(Turn)
  PROVE  /\ UsableAt(reported) \subseteq 1 .. Len(reported)
         /\ IsFiniteSet(UsableAt(reported))
         /\ Cardinality(UsableAt(reported)) \in 0 .. Len(reported)
         /\ Orders(SortedAt(reported), UsableAt(reported))
<1> DEFINE A == UsableAt(reported)
           R == SortedAt(reported)
<1>1. DOMAIN reported = 1 .. Len(reported) /\ Len(reported) \in Nat
  BY LenProperties
<1>2. A \in SUBSET (1 .. Len(reported))
  BY <1>1 DEF UsableAt
<1>3. IsFiniteSet(A) /\ Cardinality(A) \in 0 .. Len(reported)
  <2>1. IsFiniteSet(1 .. Len(reported)) /\ Cardinality(1 .. Len(reported)) = Len(reported)
    <3>1. /\ 1 \in Int /\ Len(reported) \in Int
          /\ (IF 1 > Len(reported) THEN 0 ELSE Len(reported) - 1 + 1) = Len(reported)
      BY <1>1
    <3>2. QED
      BY <3>1, FS_Interval
  <2> HIDE DEF A
  <2>2. IsFiniteSet(A) /\ Cardinality(A) <= Len(reported)
    BY <1>2, <2>1, FS_Subset
  <2>3. Cardinality(A) \in Nat
    BY <2>2, FS_CardinalityType
  <2>4. QED
    BY <1>1, <2>2, <2>3
<1>4. \A i \in A : reported[i] \in Turn /\ i \in Nat
  BY <1>2, ElementOfSeq
<1>5. \A i, j \in A : <<i, j>> \in R <=>
        \/ Earlier(reported[i], reported[j])
        \/ reported[i] = reported[j] /\ i <= j
  BY DEF SortedAt
<1> HIDE DEF A, R
<1>6. /\ \A x \in A : <<x, x>> \in R
      /\ \A x, y \in A : <<x, y>> \in R \/ <<y, x>> \in R
  BY <1>4, <1>5, EarlierOrders
<1>7. \A x, y \in A : <<x, y>> \in R /\ <<y, x>> \in R => x = y
  BY <1>4, <1>5, EarlierOrders
<1>8. \A x, y, z \in A : <<x, y>> \in R /\ <<y, z>> \in R => <<x, z>> \in R
  BY <1>4, <1>5, EarlierOrders
<1>9. Orders(R, A)
  BY <1>6, <1>7, <1>8 DEF Orders
<1>10. QED
  BY <1>2, <1>3, <1>9 DEF A, R

\* _usable_diarization_segments: each usable turn is there once, and nothing else.
LEMMA UsableFacts ==
  ASSUME NEW reported \in Seq(Turn)
  PROVE  /\ UsableTurns(reported) \in Seq(Turn)
         /\ Len(UsableTurns(reported)) \in 0 .. Len(reported)
         /\ \E b \in Bijection(DOMAIN UsableTurns(reported), UsableAt(reported)) :
              \A k \in DOMAIN UsableTurns(reported) :
                UsableTurns(reported)[k] = reported[b[k]]
<1> DEFINE A == UsableAt(reported)
           R == SortedAt(reported)
           N == Cardinality(A)
           f == Rank(R, A)
           b == [k \in 1 .. N |-> CHOOSE i \in A : f[i] = k]
<1>1. /\ A \subseteq 1 .. Len(reported) /\ IsFiniteSet(A)
      /\ N \in 0 .. Len(reported) /\ Orders(R, A) /\ Len(reported) \in Nat
  BY SortedOrders, LenProperties
<1>2. f \in Bijection(A, 1 .. N)
  <2> HIDE DEF A, R
  <2>1. QED
    BY <1>1, RankIsBijection
<1>3. b \in Bijection(1 .. N, A)
  <2> HIDE DEF A, N, f
  <2>1. QED
    BY <1>2, ChosenIsBijection
<1>4. \A i \in A : f[i] = PlaceOf(reported, i)
  <2> SUFFICES ASSUME NEW i \in A PROVE f[i] = PlaceOf(reported, i)
    OBVIOUS
  <2>1. {j \in A : <<j, i>> \in R} =
          {j \in A : \/ Earlier(reported[j], reported[i])
                     \/ reported[j] = reported[i] /\ j <= i}
    <3>1. \A j \in A : <<j, i>> \in R <=>
            \/ Earlier(reported[j], reported[i])
            \/ reported[j] = reported[i] /\ j <= i
      <4> HIDE DEF A
      <4>1. QED
        BY DEF SortedAt, A
    <3> HIDE DEF A, R
    <3>2. QED
      BY <3>1
  <2>2. f[i] = Cardinality({j \in A : <<j, i>> \in R})
    BY DEF Rank
  <2>3. PlaceOf(reported, i) =
          Cardinality({j \in A : \/ Earlier(reported[j], reported[i])
                                 \/ reported[j] = reported[i] /\ j <= i})
    BY DEF PlaceOf
  <2> HIDE DEF A, R, f
  <2>4. QED
    BY <2>1, <2>2, <2>3, Zenon
<1>5. /\ UsableTurns(reported) = [k \in 1 .. N |-> reported[b[k]]]
      /\ b \in [1 .. N -> A]
  <2>1. \A k \in 1 .. N : (CHOOSE i \in A : PlaceOf(reported, i) = k) = b[k]
    <3>1. \A k : (CHOOSE i \in A : PlaceOf(reported, i) = k) = CHOOSE i \in A : f[i] = k
      <4> HIDE DEF A, f
      <4>1. QED
        BY <1>4, Zenon
    <3> HIDE DEF A, f, N
    <3>2. \A k \in 1 .. N : b[k] = CHOOSE i \in A : f[i] = k
      BY Zenon
    <3>3. QED
      BY <3>1, <3>2, Zenon
  <2>2. UsableTurns(reported) =
          [k \in 1 .. N |-> reported[CHOOSE i \in A : PlaceOf(reported, i) = k]]
    BY Zenon DEF UsableTurns
  <2> HIDE DEF A, f, b, N
  <2>3. b \in [1 .. N -> A]
    BY <1>3, Fun_BijectionProperties
  <2>4. QED
    BY <2>1, <2>2, <2>3
<1> HIDE DEF b, f, R, A, N
<1>6. \A k \in 1 .. N : reported[b[k]] \in Turn
  BY <1>1, <1>5, ElementOfSeq
<1>7. UsableTurns(reported) \in [1 .. N -> Turn]
  BY <1>5, <1>6
<1>8. /\ UsableTurns(reported) \in Seq(Turn)
      /\ Len(UsableTurns(reported)) = N /\ DOMAIN UsableTurns(reported) = 1 .. N
  BY <1>1, <1>7
<1>9. \A k \in 1 .. N : UsableTurns(reported)[k] = reported[b[k]]
  BY <1>5
<1>10. QED
  BY <1>1, <1>3, <1>8, <1>9 DEF A

-----------------------------------------------------------------------------
(* What is heard does not depend on where a turn is listed.                 *)

LEMMA HeardIsFinite ==
  ASSUME NEW s \in Segment, NEW turns \in Seq(Turn)
  PROVE  \E M \in Nat : \A raw :
           /\ IsFiniteSet(HeardIn(s, turns, raw))
           /\ Cardinality(HeardIn(s, turns, raw)) \in 0 .. M
<1> DEFINE all == (DOMAIN turns) \X (s.start .. s.end - 1)
<1>1. IsFiniteSet(DOMAIN turns) /\ IsFiniteSet(s.start .. s.end - 1)
  <2>1. /\ DOMAIN turns = 1 .. Len(turns) /\ Len(turns) \in Int
        /\ s.start \in Int /\ s.end - 1 \in Int /\ 1 \in Int
    BY LenProperties DEF Segment
  <2>2. QED
    BY <2>1, FS_Interval
<1>2. IsFiniteSet(all)
  BY <1>1, FS_Product
<1>3. Cardinality(all) \in Nat
  BY <1>2, FS_CardinalityType
<1>4. \A raw : HeardIn(s, turns, raw) \in SUBSET all
  BY DEF HeardIn
<1> HIDE DEF all
<1>5. ASSUME NEW raw
      PROVE  /\ IsFiniteSet(HeardIn(s, turns, raw))
             /\ Cardinality(HeardIn(s, turns, raw)) \in 0 .. Cardinality(all)
  <2>1. /\ IsFiniteSet(HeardIn(s, turns, raw))
        /\ Cardinality(HeardIn(s, turns, raw)) <= Cardinality(all)
    BY <1>2, <1>4, FS_Subset
  <2>2. Cardinality(HeardIn(s, turns, raw)) \in Nat
    BY <2>1, FS_CardinalityType
  <2>3. QED
    BY <1>3, <2>1, <2>2
<1>6. QED
  BY <1>3, <1>5

\* c carries each turn to one with the same times, of the matching speaker, and
\* leaves out only turns without a length.
LEMMA HeardMoved ==
  ASSUME NEW s \in Segment, NEW T \in Seq(Turn), NEW T2 \in Seq(Turn), NEW raw, NEW raw2,
         NEW I \in SUBSET DOMAIN T2, NEW c \in Bijection(DOMAIN T, I),
         \A k \in DOMAIN T : /\ T2[c[k]].start = T[k].start /\ T2[c[k]].end = T[k].end
                             /\ T2[c[k]].label = raw2 <=> T[k].label = raw,
         \A i \in DOMAIN T2 : T2[i].label = raw2 /\ IsValidInterval(T2[i]) => i \in I
  PROVE  /\ Cardinality(HeardIn(s, T2, raw2)) = Cardinality(HeardIn(s, T, raw))
         /\ HeardIn(s, T2, raw2) = {} <=> HeardIn(s, T, raw) = {}
<1> DEFINE A == HeardIn(s, T, raw)
           B == HeardIn(s, T2, raw2)
           g == [h \in A |-> <<c[h[1]], h[2]>>]
<1>1. /\ c \in [DOMAIN T -> I]
      /\ \A a, b \in DOMAIN T : c[a] = c[b] => a = b
      /\ \A i \in I : \E k \in DOMAIN T : c[k] = i
  BY Fun_BijectionProperties
<1>2. \A h : h \in A <=>
        /\ h \in (DOMAIN T) \X (s.start .. s.end - 1)
        /\ T[h[1]].label = raw /\ T[h[1]].start <= h[2] /\ h[2] < T[h[1]].end
  BY DEF HeardIn
<1>3. \A h : h \in B <=>
        /\ h \in (DOMAIN T2) \X (s.start .. s.end - 1)
        /\ T2[h[1]].label = raw2 /\ T2[h[1]].start <= h[2] /\ h[2] < T2[h[1]].end
  BY DEF HeardIn
<1> HIDE DEF A, B
<1>4. ASSUME NEW h \in A PROVE <<c[h[1]], h[2]>> \in B
  <2>1. /\ h[1] \in DOMAIN T /\ h[2] \in s.start .. s.end - 1
        /\ T[h[1]].label = raw /\ T[h[1]].start <= h[2] /\ h[2] < T[h[1]].end
    BY <1>2
  <2>2. c[h[1]] \in DOMAIN T2
    BY <1>1, <2>1
  <2>3. QED
    BY <1>3, <2>1, <2>2
<1>5. g \in [A -> B]
  BY <1>4
<1>6. \A x, y \in A : g[x] = g[y] => x = y
  <2> SUFFICES ASSUME NEW x \in A, NEW y \in A, g[x] = g[y] PROVE x = y
    OBVIOUS
  <2>1. /\ x = <<x[1], x[2]>> /\ y = <<y[1], y[2]>>
        /\ x[1] \in DOMAIN T /\ y[1] \in DOMAIN T
    BY <1>2
  <2>2. c[x[1]] = c[y[1]] /\ x[2] = y[2]
    OBVIOUS
  <2>3. x[1] = y[1]
    BY <1>1, <2>1, <2>2
  <2>4. QED
    BY <2>1, <2>2, <2>3
<1>7. \A z \in B : \E x \in A : g[x] = z
  <2> SUFFICES ASSUME NEW z \in B PROVE \E x \in A : g[x] = z
    OBVIOUS
  <2>1. /\ z[1] \in DOMAIN T2 /\ z[2] \in s.start .. s.end - 1 /\ z = <<z[1], z[2]>>
        /\ T2[z[1]].label = raw2 /\ T2[z[1]].start <= z[2] /\ z[2] < T2[z[1]].end
    BY <1>3
  <2>2. T2[z[1]] \in Turn
    BY <2>1, ElementOfSeq, LenProperties
  <2>3. IsValidInterval(T2[z[1]])
    <3>1. /\ T2[z[1]].start \in Nat /\ T2[z[1]].end \in Nat /\ z[2] \in Int
      <4>1. T2[z[1]].start \in Nat /\ T2[z[1]].end \in Nat
        BY <2>2 DEF Turn, Segment
      <4>2. z[2] \in Int
        BY <2>1
      <4>3. QED
        BY <4>1, <4>2
    <3>2. QED
      BY <2>1, <3>1 DEF IsValidInterval
  <2>4. PICK k \in DOMAIN T : c[k] = z[1]
    BY <1>1, <2>1, <2>3
  <2>5. <<k, z[2]>> \in A
    BY <1>2, <2>1, <2>4
  <2>6. g[<<k, z[2]>>] = z
    BY <2>1, <2>4, <2>5
  <2>7. QED
    BY <2>5, <2>6
<1> HIDE DEF g
<1>8. g \in Bijection(A, B)
  BY <1>5, <1>6, <1>7, Fun_IsBij
<1>9. IsFiniteSet(A)
  BY HeardIsFinite DEF A
<1>10. Cardinality(B) = Cardinality(A)
  <2>1. ExistsBijection(A, B)
    BY <1>8 DEF ExistsBijection
  <2>2. QED
    BY <1>9, <2>1, FS_Bijection
<1>11. B = {} <=> A = {}
  BY <1>5, <1>7
<1>12. QED
  BY <1>10, <1>11 DEF A, B

\* Sorting out the turns that do not count takes nothing from a speaker.
LEMMA HeardUsable ==
  ASSUME NEW s \in Segment, NEW reported \in Seq(Turn), NEW raw, raw # 0
  PROVE  /\ Cardinality(HeardIn(s, UsableTurns(reported), raw)) =
              Cardinality(HeardIn(s, reported, raw))
         /\ HeardIn(s, UsableTurns(reported), raw) = {} <=> HeardIn(s, reported, raw) = {}
<1> DEFINE U == UsableTurns(reported)
           I == UsableAt(reported)
<1>1. PICK b \in Bijection(DOMAIN U, I) : \A k \in DOMAIN U : U[k] = reported[b[k]]
  BY UsableFacts
<1>2. U \in Seq(Turn) /\ I \in SUBSET DOMAIN reported
  BY UsableFacts DEF UsableAt
<1>3. \A i \in DOMAIN reported :
        reported[i].label = raw /\ IsValidInterval(reported[i]) => i \in I
  BY DEF UsableAt
<1> HIDE DEF U, I
<1>4. \A k \in DOMAIN U : /\ reported[b[k]].start = U[k].start
                          /\ reported[b[k]].end = U[k].end
                          /\ reported[b[k]].label = raw <=> U[k].label = raw
  BY <1>1
<1>5. /\ Cardinality(HeardIn(s, reported, raw)) = Cardinality(HeardIn(s, U, raw))
      /\ HeardIn(s, reported, raw) = {} <=> HeardIn(s, U, raw) = {}
  BY <1>2, <1>3, <1>4, HeardMoved
<1>6. QED
  BY <1>5 DEF U

-----------------------------------------------------------------------------
(* Who wins.                                                                *)

LEMMA SmallestIsIn ==
  ASSUME NEW S \in SUBSET Nat, S # {}
  PROVE  Smallest(S) \in S /\ \A y \in S : Smallest(S) <= y
<1>1. \E x \in S : \A y \in S : x <= y
  BY LeastExists
<1>2. QED
  BY <1>1, Zenon DEF Smallest

\* A speaker with a vote has a turn that overlaps.
LEMMA HeardOverlaps ==
  ASSUME NEW s \in Segment, NEW turns \in Seq(Turn), NEW raw,
         HeardIn(s, turns, raw) # {}
  PROVE  EarliestOverlap(s, turns, raw) \in Nat
<1> DEFINE J == {j \in DOMAIN turns : turns[j].label = raw /\ Overlap(s, turns[j]) > 0}
           S == {IF s.start >= turns[i].start THEN s.start ELSE turns[i].start : i \in J}
<1>1. PICK h \in HeardIn(s, turns, raw) : TRUE
  OBVIOUS
<1>2. /\ h[1] \in DOMAIN turns /\ turns[h[1]].label = raw
      /\ h[2] \in Moments(s, turns[h[1]])
  BY <1>1 DEF HeardIn, Moments
<1>3. \A i \in DOMAIN turns : turns[i] \in Turn
  BY ElementOfSeq, LenProperties
<1>4. h[1] \in J
  <2> DEFINE t == turns[h[1]]
  <2>1. t \in Turn
    BY <1>2, <1>3
  <2> HIDE DEF t
  <2>2. /\ IsFiniteSet(Moments(s, t))
        /\ Cardinality(Moments(s, t)) = Overlap(s, t)
        /\ Overlap(s, t) \in Nat
    BY <2>1, MomentsCounted
  <2>3. Overlap(s, t) # 0
    BY <1>2, <2>2, FS_EmptySet DEF t
  <2>4. Overlap(s, t) > 0
    BY <2>2, <2>3
  <2>5. QED
    BY <1>2, <2>4 DEF t
<1>5. S # {}
  <2> HIDE DEF J
  <2>1. QED
    BY <1>4
<1>6. S \subseteq Nat
  <2>1. s.start \in Nat /\ \A i \in J : turns[i].start \in Nat
    BY <1>3 DEF Turn, Segment
  <2> HIDE DEF J
  <2>2. QED
    BY <2>1
<1>7. EarliestOverlap(s, turns, raw) = Smallest(S)
  BY DEF EarliestOverlap
<1> HIDE DEF S
<1>8. QED
  BY <1>5, <1>6, <1>7, SmallestIsIn

\* Of the speakers heard, one who is heard the longest.
LEMMA MostHeardWins ==
  ASSUME NEW s \in Segment, NEW turns \in Seq(Turn),
         NEW canonical \in [RawLabels(turns) -> Nat],
         \E raw \in RawLabels(turns) : HeardIn(s, turns, raw) # {}
  PROVE  \E raw \in RawLabels(turns) :
           /\ HeardIn(s, turns, raw) # {}
           /\ \A other \in RawLabels(turns) :
                Cardinality(HeardIn(s, turns, other)) <= Cardinality(HeardIn(s, turns, raw))
           /\ SpeakerFor(s, turns, canonical) = canonical[raw]
<1> DEFINE L == RawLabels(turns)
           time(raw) == Cardinality(HeardIn(s, turns, raw))
           votes == Votes(s, turns)
           most == {a \in L : votes[a] > 0 /\ \A b \in L : votes[b] <= votes[a]}
           start(a) == EarliestOverlap(s, turns, a)
           early == {a \in most : \A b \in most : start(a) <= start(b)}
<1>1. PICK M \in Nat : \A raw : /\ IsFiniteSet(HeardIn(s, turns, raw))
                                /\ Cardinality(HeardIn(s, turns, raw)) \in 0 .. M
  BY HeardIsFinite
<1>2. \A a \in L : votes[a] = time(a) /\ time(a) \in 0 .. M
  BY <1>1, VotesAreMoments
<1>3. \A a \in L : HeardIn(s, turns, a) = {} <=> time(a) = 0
  BY <1>1, FS_EmptySet
<1>4. most # {}
  <2> DEFINE S == {time(a) : a \in L}
  <2>1. S \in SUBSET (0 .. M) /\ S # {}
    BY <1>2
  <2>2. PICK x \in S : \A y \in S : y <= x
    <3> HIDE DEF S
    <3>1. QED
      BY <2>1, GreatestExists
  <2>3. PICK a \in L : x = time(a)
    BY <2>2
  <2>4. \A b \in L : time(b) <= time(a)
    BY <2>2, <2>3
  <2> HIDE DEF time, votes, L
  <2>5. \A b \in L : votes[b] <= votes[a]
    BY <1>2, <2>4
  <2>6. PICK b \in L : time(b) # 0
    BY <1>3 DEF L
  <2>7. votes[a] > 0
    BY <1>2, <2>4, <2>6
  <2>8. QED
    BY <2>5, <2>7
<1>5. \A a \in most : HeardIn(s, turns, a) # {}
  <2> HIDE DEF time, votes, L
  <2>1. \A a \in most : time(a) # 0
    BY <1>2
  <2>2. QED
    BY <1>3, <2>1
<1>6. \A a \in most : start(a) \in Nat
  <2> HIDE DEF most
  <2>1. QED
    BY <1>5, HeardOverlaps
<1>7. early # {}
  <2> DEFINE S == {start(a) : a \in most}
  <2> HIDE DEF most, start
  <2>1. S \in SUBSET Nat /\ S # {}
    BY <1>4, <1>6
  <2>2. PICK x \in S : \A y \in S : x <= y
    <3> HIDE DEF S
    <3>1. QED
      BY <2>1, LeastExists
  <2>3. PICK a \in most : x = start(a)
    BY <2>2
  <2>4. \A b \in most : start(a) <= start(b)
    BY <2>2, <2>3
  <2>5. QED
    BY <2>4
<1>8. SpeakerFor(s, turns, canonical) = Smallest({canonical[a] : a \in early})
  <2>1. SpeakerFor(s, turns, canonical) =
          IF most = {} THEN NearestSpeaker(s, turns, canonical)
          ELSE Smallest({canonical[a] : a \in early})
    BY Zenon DEF SpeakerFor
  <2> HIDE DEF most, early
  <2>2. QED
    BY <1>4, <2>1
<1>9. \A a \in early : a \in most /\ a \in L
  OBVIOUS
<1>10. Smallest({canonical[a] : a \in early}) \in {canonical[a] : a \in early}
  <2> DEFINE S == {canonical[a] : a \in early}
  <2>1. \A a \in early : canonical[a] \in Nat
    <3> HIDE DEF early, most
    <3>1. QED
      BY <1>9
  <2>2. S \in SUBSET Nat /\ S # {}
    <3> HIDE DEF early, most
    <3>1. QED
      BY <1>7, <2>1
  <2> HIDE DEF S
  <2>3. Smallest(S) \in S
    BY <2>2, SmallestIsIn
  <2>4. QED
    BY <2>3 DEF S
<1>11. PICK a \in early : SpeakerFor(s, turns, canonical) = canonical[a]
  <2> HIDE DEF early
  <2>1. QED
    BY <1>8, <1>10
<1>12. \A b \in L : time(b) <= time(a)
  <2> HIDE DEF time, votes
  <2>1. \A b \in L : votes[b] <= votes[a]
    BY <1>9
  <2> HIDE DEF L, early
  <2>2. QED
    BY <1>2, <1>9, <2>1
<1>13. QED
  BY <1>5, <1>9, <1>11, <1>12

LEMMA LabelsOfUsable ==
  ASSUME NEW reported \in Seq(Turn)
  PROVE  RawLabels(UsableTurns(reported)) \subseteq RawLabels(reported) \ {0}
<1> DEFINE U == UsableTurns(reported)
           I == UsableAt(reported)
<1>1. PICK b \in Bijection(DOMAIN U, I) : \A k \in DOMAIN U : U[k] = reported[b[k]]
  BY UsableFacts
<1>2. b \in [DOMAIN U -> I]
  BY Fun_BijectionProperties
<1>3. \A i \in I : i \in DOMAIN reported /\ reported[i].label # 0
  BY DEF UsableAt
<1> HIDE DEF U, I
<1>4. \A k \in DOMAIN U : U[k].label \in RawLabels(reported) \ {0}
  BY <1>1, <1>2, <1>3 DEF RawLabels
<1>5. QED
  BY <1>4 DEF U, RawLabels

\* Every speaker has one turn at least, so there are finitely many.
LEMMA LabelsAreFinite ==
  ASSUME NEW turns \in Seq(Turn)
  PROVE  IsFiniteSet(RawLabels(turns)) /\ Cardinality(RawLabels(turns)) \in 0 .. Len(turns)
<1> DEFINE f == [i \in DOMAIN turns |-> turns[i].label]
           L == RawLabels(turns)
<1>1. /\ f \in [DOMAIN turns -> L]
      /\ \A raw \in L : \E i \in DOMAIN turns : f[i] = raw
  BY DEF RawLabels
<1>2. IsFiniteSet(DOMAIN turns) /\ Cardinality(DOMAIN turns) = Len(turns) /\ Len(turns) \in Nat
  <2>1. DOMAIN turns = 1 .. Len(turns) /\ Len(turns) \in Nat
    BY LenProperties
  <2>2. 1 \in Int /\ Len(turns) \in Int
        /\ (IF 1 > Len(turns) THEN 0 ELSE Len(turns) - 1 + 1) = Len(turns)
    BY <2>1
  <2>3. QED
    BY <2>1, <2>2, FS_Interval
<1> HIDE DEF f, L
<1>3. f \in Surjection(DOMAIN turns, L)
  BY <1>1, Fun_IsSurj
<1>4. IsFiniteSet(L) /\ Cardinality(L) <= Cardinality(DOMAIN turns)
  BY <1>2, <1>3, FS_Surjection
<1>5. Cardinality(L) \in Nat
  BY <1>4, FS_CardinalityType
<1>6. QED
  BY <1>2, <1>4, <1>5 DEF L

LEMMA CanonicalIsNat ==
  ASSUME NEW turns \in Seq(Turn)
  PROVE  CanonicalLabels(turns) \in [RawLabels(turns) -> Nat]
<1> DEFINE before(a, b) == \/ FirstStart(turns, a) < FirstStart(turns, b)
                           \/ FirstStart(turns, a) = FirstStart(turns, b) /\ a < b
           L == RawLabels(turns)
           below(raw) == {r \in L : before(r, raw)}
<1>1. IsFiniteSet(L)
  BY LabelsAreFinite
<1>2. \A raw \in L : Cardinality(below(raw)) \in Nat
  <2> SUFFICES ASSUME NEW raw \in L PROVE Cardinality(below(raw)) \in Nat
    OBVIOUS
  <2>1. below(raw) \in SUBSET L
    OBVIOUS
  <2> HIDE DEF L, below
  <2>2. IsFiniteSet(below(raw))
    BY <1>1, <2>1, FS_Subset
  <2>3. QED
    BY <2>2, FS_CardinalityType
<1>3. CanonicalLabels(turns) = [raw \in L |-> Cardinality(below(raw))]
  BY Zenon DEF CanonicalLabels
<1> HIDE DEF L, below
<1>4. QED
  BY <1>2, <1>3 DEF L

\* assign_speakers gives the segment to one of those who are heard the longest in
\* what the diarizer reported, valid turn or not.
LEMMA LongestHeard ==
  ASSUME NEW s \in Segment, NEW reported \in Seq(Turn),
         \E raw \in RawLabels(reported) \ {0} : HeardIn(s, reported, raw) # {}
  PROVE  \E raw \in RawLabels(reported) \ {0} :
           /\ HeardIn(s, reported, raw) # {}
           /\ \A other \in RawLabels(reported) \ {0} :
                Cardinality(HeardIn(s, reported, other)) <=
                  Cardinality(HeardIn(s, reported, raw))
           /\ AssignedSpeaker(s, reported) = CanonicalLabels(UsableTurns(reported))[raw]
<1> DEFINE U == UsableTurns(reported)
           L == RawLabels(reported) \ {0}
           K == RawLabels(U)
           canonical == CanonicalLabels(U)
<1>1. U \in Seq(Turn) /\ K \subseteq L
  BY UsableFacts, LabelsOfUsable
<1>2. canonical \in [K -> Nat]
  BY <1>1, CanonicalIsNat
<1>3. \A raw \in L : /\ Cardinality(HeardIn(s, U, raw)) = Cardinality(HeardIn(s, reported, raw))
                     /\ HeardIn(s, U, raw) = {} <=> HeardIn(s, reported, raw) = {}
  BY HeardUsable
<1> HIDE DEF U, canonical
<1>4. \A raw : HeardIn(s, U, raw) # {} => raw \in K
  BY DEF HeardIn, RawLabels
<1>5. PICK raw \in K :
           /\ HeardIn(s, U, raw) # {}
           /\ \A other \in K :
                Cardinality(HeardIn(s, U, other)) <= Cardinality(HeardIn(s, U, raw))
           /\ SpeakerFor(s, U, canonical) = canonical[raw]
  <2>1. \E raw \in K : HeardIn(s, U, raw) # {}
    BY <1>3, <1>4
  <2>2. QED
    BY <1>1, <1>2, <2>1, MostHeardWins
<1>6. U # << >>
  BY <1>5 DEF RawLabels
<1>7. AssignedSpeaker(s, reported) = SpeakerFor(s, U, canonical)
  BY <1>6 DEF AssignedSpeaker, U, canonical
<1>8. ASSUME NEW other \in L
      PROVE  Cardinality(HeardIn(s, reported, other)) <= Cardinality(HeardIn(s, reported, raw))
  <2>1. CASE other \in K
    BY <1>1, <1>3, <1>5, <2>1
  <2>2. CASE other \notin K
    <3>1. HeardIn(s, reported, other) = {}
      BY <1>3, <1>4, <2>2
    <3>2. /\ Cardinality(HeardIn(s, reported, other)) = 0
          /\ Cardinality(HeardIn(s, reported, raw)) \in Nat
      BY <3>1, FS_EmptySet, HeardIsFinite
    <3>3. QED
      BY <3>2
  <2>3. QED
    BY <2>1, <2>2
<1>9. QED
  BY <1>1, <1>3, <1>5, <1>7, <1>8 DEF U, canonical

-----------------------------------------------------------------------------
(* Every segment has a speaker.                                             *)

\* Everyone who has a turn begins at some time.
LEMMA FirstStartIsTime ==
  ASSUME NEW turns \in Seq(Turn), NEW raw \in RawLabels(turns)
  PROVE  FirstStart(turns, raw) \in Nat
<1> DEFINE S == {turns[i].start : i \in {j \in DOMAIN turns : turns[j].label = raw}}
<1>1. \A i \in DOMAIN turns : turns[i].start \in Nat
  <2>1. \A i \in DOMAIN turns : turns[i] \in Turn
    BY ElementOfSeq, LenProperties
  <2>2. QED
    BY <2>1 DEF Turn
<1>2. \E i \in DOMAIN turns : turns[i].label = raw
  BY DEF RawLabels
<1>3. S \in SUBSET Nat /\ S # {}
  BY <1>1, <1>2
<1>4. FirstStart(turns, raw) = Smallest(S)
  BY Zenon DEF FirstStart
<1> HIDE DEF S
<1>5. QED
  BY <1>3, <1>4, SmallestIsIn

\* Labels as the diarizer has them are numbers.
LEMMA RawLabelsAreNat ==
  ASSUME NEW turns \in Seq(Turn)
  PROVE  RawLabels(turns) \subseteq Nat
<1>1. \A i \in DOMAIN turns : turns[i].label \in Nat
  <2>1. \A i \in DOMAIN turns : turns[i] \in Turn
    BY ElementOfSeq, LenProperties
  <2>2. QED
    BY <2>1 DEF Turn
<1>2. QED
  BY <1>1 DEF RawLabels

\* _canonical_label_map: the speakers of any number of turns are numbered from 0,
\* without a gap, and no two have the same number, also when they begin together.
THEOREM SpeakersAreNumbered ==
  ASSUME NEW turns \in Seq(Turn)
  PROVE  CanonicalLabels(turns)
           \in Bijection(RawLabels(turns), 0 .. Cardinality(RawLabels(turns)) - 1)
<1> DEFINE L == RawLabels(turns)
           K == Cardinality(L)
           before(a, b) == \/ FirstStart(turns, a) < FirstStart(turns, b)
                           \/ FirstStart(turns, a) = FirstStart(turns, b) /\ a < b
           below(raw) == {r \in L : before(r, raw)}
           R == {p \in L \X L : before(p[1], p[2]) \/ p[1] = p[2]}
           C == CanonicalLabels(turns)
<1>1. IsFiniteSet(L) /\ K \in Nat
  BY LabelsAreFinite, FS_CardinalityType
<1>2. \A raw \in L : FirstStart(turns, raw) \in Nat /\ raw \in Nat
  BY FirstStartIsTime, RawLabelsAreNat
<1>3. C = [raw \in L |-> Cardinality(below(raw))]
  BY Zenon DEF CanonicalLabels
<1>4. \A a, b \in L : <<a, b>> \in R <=> (before(a, b) \/ a = b)
  <2> HIDE DEF L, before
  <2>1. QED
    OBVIOUS
<1>5. Orders(R, L)
  <2> HIDE DEF L, R
  <2>1. \A x \in L : <<x, x>> \in R
    BY <1>4
  <2>2. ASSUME NEW x \in L, NEW y \in L PROVE <<x, y>> \in R \/ <<y, x>> \in R
    <3>1. /\ FirstStart(turns, x) \in Nat /\ FirstStart(turns, y) \in Nat
          /\ x \in Nat /\ y \in Nat
      BY <1>2
    <3>2. before(x, y) \/ before(y, x) \/ x = y
      BY <3>1
    <3> HIDE DEF before
    <3>3. QED
      BY <1>4, <3>2
  <2>3. \A x, y \in L : <<x, y>> \in R /\ <<y, x>> \in R => x = y
    BY <1>2, <1>4
  <2>4. \A x, y, z \in L : <<x, y>> \in R /\ <<y, z>> \in R => <<x, z>> \in R
    BY <1>2, <1>4
  <2>5. QED
    BY <2>1, <2>2, <2>3, <2>4 DEF Orders
<1>6. ASSUME NEW x \in L PROVE Rank(R, L)[x] = C[x] + 1 /\ C[x] \in Nat
  <2>1. {y \in L : <<y, x>> \in R} = below(x) \union {x}
    <3> HIDE DEF L, R, before
    <3>1. QED
      BY <1>4
  <2>2. x \notin below(x)
    <3> HIDE DEF L, R
    <3>1. QED
      BY <1>2
  <2>3. below(x) \in SUBSET L
    OBVIOUS
  <2>4. C[x] = Cardinality(below(x))
    BY <1>3
  <2>5. Rank(R, L)[x] = Cardinality({y \in L : <<y, x>> \in R})
    BY Zenon DEF Rank
  <2> HIDE DEF L, R, below, C
  <2>6. IsFiniteSet(below(x)) /\ Cardinality(below(x)) \in Nat
    BY <1>1, <2>3, FS_Subset, FS_CardinalityType
  <2>7. Cardinality(below(x) \union {x}) = Cardinality(below(x)) + 1
    BY <2>2, <2>6, FS_AddElement
  <2>8. QED
    BY <2>1, <2>4, <2>5, <2>6, <2>7
<1>7. /\ Rank(R, L) \in [L -> 1 .. K]
      /\ \A x, y \in L : Rank(R, L)[x] = Rank(R, L)[y] => x = y
      /\ \A k \in 1 .. K : \E x \in L : Rank(R, L)[x] = k
  <2> HIDE DEF L, R
  <2>1. QED
    BY <1>1, <1>5, RankFacts
<1> DEFINE T == 0 .. K - 1
<1> HIDE DEF L, R, K, before, below
<1>8. \A x \in L : C[x] \in T
  <2>1. \A x \in L : Rank(R, L)[x] \in 1 .. K
    BY <1>7
  <2> HIDE DEF C
  <2>2. QED
    BY <1>1, <1>6, <2>1
<1>9. C \in [L -> T]
  <2>1. C = [x \in L |-> C[x]]
    BY <1>3
  <2> HIDE DEF C, T
  <2>2. QED
    BY <1>8, <2>1
<1>10. \A x, y \in L : C[x] = C[y] => x = y
  <2> HIDE DEF C
  <2>1. QED
    BY <1>6, <1>7
<1>11. \A k \in T : \E x \in L : C[x] = k
  <2> SUFFICES ASSUME NEW k \in T PROVE \E x \in L : C[x] = k
    OBVIOUS
  <2>1. k + 1 \in 1 .. K
    BY <1>1
  <2>2. PICK x \in L : Rank(R, L)[x] = k + 1
    BY <1>7, <2>1
  <2> HIDE DEF C
  <2>3. C[x] = k
    BY <1>6, <2>2
  <2>4. QED
    BY <2>3
<1> HIDE DEF C, T
<1>12. C \in Bijection(L, T)
  BY <1>9, <1>10, <1>11, Fun_IsBij
<1>13. QED
  BY <1>12 DEF C, T, L, K

\* Without anyone who is heard, the nearest turn's speaker or the fallback, who has
\* the number of the first to speak.
LEMMA NearestIsNumbered ==
  ASSUME NEW s \in Segment, NEW turns \in Seq(Turn), turns # << >>, NEW K \in Nat, K > 0,
         NEW canonical \in [RawLabels(turns) -> 0 .. K - 1]
  PROVE  NearestSpeaker(s, turns, canonical) \in 0 .. K - 1
<1> DEFINE D == {Distance(s, turns[i]) : i \in DOMAIN turns}
           near == Smallest(D)
           J == {j \in DOMAIN turns : Distance(s, turns[j]) = near}
           C == {canonical[turns[i].label] : i \in J}
<1>1. DOMAIN turns # {}
  <2>1. Len(turns) \in Nat \ {0}
    BY EmptySeq
  <2>2. DOMAIN turns = 1 .. Len(turns)
    BY LenProperties
  <2>3. QED
    BY <2>1, <2>2
<1>2. \A i \in DOMAIN turns : turns[i] \in Turn
  BY ElementOfSeq, LenProperties
<1>3. \A i \in DOMAIN turns : Distance(s, turns[i]) \in Nat
  <2> SUFFICES ASSUME NEW t \in Turn PROVE Distance(s, t) \in Nat
    BY <1>2
  <2>1. t.start \in Nat /\ t.end \in Nat /\ s.start \in Nat /\ s.end \in Nat
    BY DEF Turn, Segment
  <2>2. QED
    BY <2>1 DEF Distance
<1>4. D \in SUBSET Nat /\ D # {}
  BY <1>1, <1>3
<1>5. near \in D
  <2> HIDE DEF D
  <2>1. QED
    BY <1>4, SmallestIsIn
<1>6. J # {}
  <2> HIDE DEF near
  <2>1. QED
    BY <1>5
<1>7. C \in SUBSET (0 .. K - 1) /\ C # {}
  <2>1. \A i \in J : turns[i].label \in RawLabels(turns)
    BY DEF RawLabels
  <2> HIDE DEF J
  <2>2. \A i \in J : canonical[turns[i].label] \in 0 .. K - 1
    BY <2>1
  <2>3. QED
    BY <1>6, <2>2
<1>8. Smallest(C) \in 0 .. K - 1
  <2> HIDE DEF C
  <2>1. C \in SUBSET Nat
    BY <1>7
  <2>2. Smallest(C) \in C
    BY <1>7, <2>1, SmallestIsIn
  <2>3. QED
    BY <1>7, <2>2
<1>9. NearestSpeaker(s, turns, canonical)
        = IF near <= GapTolerance THEN Smallest(C) ELSE FallbackSpeaker
  BY Zenon DEF NearestSpeaker
<1> HIDE DEF near, C
<1>10. FallbackSpeaker \in 0 .. K - 1
  BY DEF FallbackSpeaker
<1>11. QED
  BY <1>8, <1>9, <1>10

\* Whoever a segment is given to is one of those who have a number.
LEMMA SpeakerIsNumbered ==
  ASSUME NEW s \in Segment, NEW turns \in Seq(Turn), turns # << >>, NEW K \in Nat, K > 0,
         NEW canonical \in [RawLabels(turns) -> 0 .. K - 1]
  PROVE  SpeakerFor(s, turns, canonical) \in 0 .. K - 1
<1>1. CASE \E raw \in RawLabels(turns) : HeardIn(s, turns, raw) # {}
  <2>1. canonical \in [RawLabels(turns) -> Nat]
    OBVIOUS
  <2>2. PICK raw \in RawLabels(turns) : SpeakerFor(s, turns, canonical) = canonical[raw]
    BY <1>1, <2>1, MostHeardWins
  <2>3. QED
    BY <2>2
<1>2. CASE \A raw \in RawLabels(turns) : HeardIn(s, turns, raw) = {}
  <2> DEFINE votes == Votes(s, turns)
             most == {a \in RawLabels(turns) :
                        votes[a] > 0 /\ \A b \in RawLabels(turns) : votes[b] <= votes[a]}
             early == {a \in most : \A b \in most :
                         EarliestOverlap(s, turns, a) <= EarliestOverlap(s, turns, b)}
  <2>1. \A raw \in RawLabels(turns) : votes[raw] = 0
    BY <1>2, VotesAreMoments, FS_EmptySet
  <2>2. most = {}
    <3> HIDE DEF votes
    <3>1. QED
      BY <2>1
  <2>3. SpeakerFor(s, turns, canonical) =
          IF most = {} THEN NearestSpeaker(s, turns, canonical)
          ELSE Smallest({canonical[a] : a \in early})
    BY Zenon DEF SpeakerFor
  <2> HIDE DEF most, early
  <2>4. SpeakerFor(s, turns, canonical) = NearestSpeaker(s, turns, canonical)
    BY <2>2, <2>3
  <2>5. QED
    BY <2>4, NearestIsNumbered
<1>3. QED
  BY <1>1, <1>2

\* assign_speakers: with a usable turn, every segment is given to one of the
\* speakers that have one.
LEMMA AssignedIsNumbered ==
  ASSUME NEW s \in Segment, NEW reported \in Seq(Turn), UsableTurns(reported) # << >>
  PROVE  /\ AssignedSpeaker(s, reported)
              \in 0 .. Cardinality(RawLabels(UsableTurns(reported))) - 1
         /\ \E raw \in RawLabels(UsableTurns(reported)) :
              AssignedSpeaker(s, reported) = CanonicalLabels(UsableTurns(reported))[raw]
<1> DEFINE U == UsableTurns(reported)
           L == RawLabels(U)
           K == Cardinality(L)
           canonical == CanonicalLabels(U)
<1>1. U \in Seq(Turn)
  BY UsableFacts
<1>2. L # {}
  <2>1. DOMAIN U # {}
    <3>1. U # << >>
      OBVIOUS
    <3> HIDE DEF U
    <3>2. Len(U) \in Nat \ {0}
      BY <1>1, <3>1, EmptySeq
    <3>3. DOMAIN U = 1 .. Len(U)
      BY <1>1, LenProperties
    <3>4. 1 \in 1 .. Len(U)
      BY <3>2
    <3>5. QED
      BY <3>3, <3>4
  <2>2. QED
    BY <2>1 DEF RawLabels
<1> HIDE DEF U
<1>3. IsFiniteSet(L) /\ K \in Nat
  BY <1>1, LabelsAreFinite, FS_CardinalityType
<1>4. K > 0
  <2> HIDE DEF L
  <2>1. K # 0
    BY <1>2, <1>3, FS_EmptySet
  <2>2. QED
    BY <1>3, <2>1
<1> DEFINE T == 0 .. K - 1
<1>5. canonical \in Bijection(L, T)
  BY <1>1, SpeakersAreNumbered
<1>6. canonical \in [L -> T] /\ \A k \in T : \E raw \in L : canonical[raw] = k
  <2> HIDE DEF canonical, L, T
  <2>1. /\ canonical \in [L -> T]
        /\ \A t \in T : \E x \in L : canonical[x] = t
    BY <1>5, Fun_BijectionProperties
  <2>2. QED
    BY <2>1
<1>7. SpeakerFor(s, U, canonical) \in T
  <2>1. U # << >>
    BY DEF U
  <2> HIDE DEF canonical, K
  <2>2. QED
    BY <1>1, <1>3, <1>4, <1>6, <2>1, SpeakerIsNumbered
<1>8. AssignedSpeaker(s, reported) = SpeakerFor(s, U, canonical)
  BY DEF AssignedSpeaker, U
<1> HIDE DEF canonical
<1>9. \E raw \in L : SpeakerFor(s, U, canonical) = canonical[raw]
  BY <1>6, <1>7
<1>10. QED
  BY <1>7, <1>8, <1>9 DEF U, canonical

-----------------------------------------------------------------------------
(* The same turns under other names and in another order.                   *)

\* c says where each turn went, n what each speaker is called now.
SameTurns(T, T2, c, n) ==
  /\ T \in Seq(Turn) /\ T2 \in Seq(Turn)
  /\ c \in Bijection(DOMAIN T, DOMAIN T2)
  /\ n \in Bijection(RawLabels(T), RawLabels(T2))
  /\ \A k \in DOMAIN T : /\ T2[c[k]].start = T[k].start
                         /\ T2[c[k]].end = T[k].end
                         /\ T2[c[k]].label = n[T[k].label]

LEMMA SameFacts ==
  ASSUME NEW T, NEW T2, NEW c, NEW n, SameTurns(T, T2, c, n)
  PROVE  /\ \A k \in DOMAIN T : /\ c[k] \in DOMAIN T2
                                /\ T[k].label \in RawLabels(T)
                                /\ T[k] \in Turn
                                /\ T2[c[k]].start = T[k].start
                                /\ T2[c[k]].end = T[k].end
                                /\ T2[c[k]].label = n[T[k].label]
         /\ \A i \in DOMAIN T2 : \E k \in DOMAIN T : c[k] = i
         /\ \A r \in RawLabels(T) : n[r] \in RawLabels(T2)
         /\ \A q \in RawLabels(T2) : \E r \in RawLabels(T) : n[r] = q
         /\ \A k \in DOMAIN T, r \in RawLabels(T) :
              T2[c[k]].label = n[r] <=> T[k].label = r
<1>1. /\ c \in [DOMAIN T -> DOMAIN T2]
      /\ \A i \in DOMAIN T2 : \E k \in DOMAIN T : c[k] = i
  BY Fun_BijectionProperties DEF SameTurns
<1>2. /\ n \in [RawLabels(T) -> RawLabels(T2)]
      /\ \A a, b \in RawLabels(T) : n[a] = n[b] => a = b
      /\ \A q \in RawLabels(T2) : \E r \in RawLabels(T) : n[r] = q
  BY Fun_BijectionProperties DEF SameTurns
<1>3. \A k \in DOMAIN T : T[k].label \in RawLabels(T) /\ T[k] \in Turn
  <2>1. \A k \in DOMAIN T : T[k] \in Turn
    BY ElementOfSeq, LenProperties DEF SameTurns
  <2>2. QED
    BY <2>1 DEF RawLabels
<1>4. \A k \in DOMAIN T : T2[c[k]].label = n[T[k].label]
  BY DEF SameTurns
<1>5. QED
  BY <1>1, <1>2, <1>3, <1>4 DEF SameTurns

\* A speaker begins when it did.
LEMMA SameFirstStart ==
  ASSUME NEW T, NEW T2, NEW c, NEW n, SameTurns(T, T2, c, n), NEW r \in RawLabels(T)
  PROVE  FirstStart(T2, n[r]) = FirstStart(T, r) /\ FirstStart(T, r) \in Nat
<1> DEFINE S == {T[i].start : i \in {j \in DOMAIN T : T[j].label = r}}
           S2 == {T2[i].start : i \in {j \in DOMAIN T2 : T2[j].label = n[r]}}
<1>1. ASSUME NEW x \in S PROVE x \in S2
  <2>1. PICK k \in DOMAIN T : T[k].label = r /\ x = T[k].start
    OBVIOUS
  <2>2. c[k] \in DOMAIN T2 /\ T2[c[k]].label = n[r] /\ x = T2[c[k]].start
    BY <2>1, SameFacts
  <2>3. QED
    BY <2>2
<1>2. ASSUME NEW x \in S2 PROVE x \in S
  <2>1. PICK i \in DOMAIN T2 : T2[i].label = n[r] /\ x = T2[i].start
    OBVIOUS
  <2>2. PICK k \in DOMAIN T : c[k] = i
    BY SameFacts
  <2>3. T[k].label = r /\ x = T[k].start
    BY <2>1, <2>2, SameFacts
  <2>4. QED
    BY <2>3
<1>3. S2 = S
  <2> HIDE DEF S, S2
  <2>1. QED
    BY <1>1, <1>2
<1>4. S \in SUBSET Nat /\ S # {}
  <2>1. \A k \in DOMAIN T : T[k].start \in Nat
    BY SameFacts DEF Turn
  <2>2. \E k \in DOMAIN T : T[k].label = r
    BY DEF RawLabels
  <2>3. QED
    BY <2>1, <2>2
<1>5. FirstStart(T2, n[r]) = Smallest(S2) /\ FirstStart(T, r) = Smallest(S)
  BY Zenon DEF FirstStart
<1> HIDE DEF S, S2
<1>6. QED
  BY <1>3, <1>4, <1>5, SmallestIsIn

\* Unless two begin together, the numbers go with the speakers.
LEMMA SameCanonical ==
  ASSUME NEW T, NEW T2, NEW c, NEW n, SameTurns(T, T2, c, n), ~NamesDecide(T),
         NEW raw \in RawLabels(T)
  PROVE  CanonicalLabels(T2)[n[raw]] = CanonicalLabels(T)[raw]
<1> DEFINE L == RawLabels(T)
           L2 == RawLabels(T2)
           A == {r \in L : FirstStart(T, r) < FirstStart(T, raw)}
           B == {q \in L2 : FirstStart(T2, q) < FirstStart(T2, n[raw])}
           g == [r \in A |-> n[r]]
<1>1. /\ \A r \in L : n[r] \in L2
      /\ \A q \in L2 : \E r \in L : n[r] = q
      /\ \A a, b \in L : n[a] = n[b] => a = b
  BY SameFacts, Fun_BijectionProperties DEF SameTurns
<1>2. \A r \in L : FirstStart(T2, n[r]) = FirstStart(T, r) /\ FirstStart(T, r) \in Nat
  BY SameFirstStart
<1>3. \A a, b \in L : a # b => FirstStart(T, a) # FirstStart(T, b)
  BY DEF NamesDecide
<1>4. L \subseteq Nat /\ L2 \subseteq Nat
  <2>1. T \in Seq(Turn) /\ T2 \in Seq(Turn)
    BY DEF SameTurns
  <2>2. /\ \A k \in DOMAIN T : T[k] \in Turn
        /\ \A k \in DOMAIN T2 : T2[k] \in Turn
    BY <2>1, ElementOfSeq, LenProperties
  <2>3. /\ \A k \in DOMAIN T : T[k].label \in Nat
        /\ \A k \in DOMAIN T2 : T2[k].label \in Nat
    BY <2>2 DEF Turn
  <2>4. QED
    BY <2>3 DEF RawLabels
<1>5. CanonicalLabels(T)[raw] = Cardinality(A)
  <2>1. {r \in L : \/ FirstStart(T, r) < FirstStart(T, raw)
                   \/ FirstStart(T, r) = FirstStart(T, raw) /\ r < raw} = A
    BY <1>3, <1>4
  <2>2. CanonicalLabels(T)[raw] =
          Cardinality({r \in L : \/ FirstStart(T, r) < FirstStart(T, raw)
                                 \/ FirstStart(T, r) = FirstStart(T, raw) /\ r < raw})
    BY DEF CanonicalLabels
  <2>3. QED
    BY <2>1, <2>2, Zenon
<1>6. CanonicalLabels(T2)[n[raw]] = Cardinality(B)
  <2>1. \A q \in L2 : q # n[raw] => FirstStart(T2, q) # FirstStart(T2, n[raw])
    BY <1>1, <1>2, <1>3
  <2>2. {r \in L2 : \/ FirstStart(T2, r) < FirstStart(T2, n[raw])
                    \/ FirstStart(T2, r) = FirstStart(T2, n[raw]) /\ r < n[raw]} = B
    BY <1>1, <1>4, <2>1
  <2>3. CanonicalLabels(T2)[n[raw]] =
          Cardinality({r \in L2 : \/ FirstStart(T2, r) < FirstStart(T2, n[raw])
                                  \/ FirstStart(T2, r) = FirstStart(T2, n[raw]) /\ r < n[raw]})
    BY <1>1 DEF CanonicalLabels
  <2>4. QED
    BY <2>2, <2>3, Zenon
<1>7. g \in [A -> B]
  BY <1>1, <1>2
<1>8. \A a, b \in A : g[a] = g[b] => a = b
  BY <1>1
<1>9. \A q \in B : \E r \in A : g[r] = q
  BY <1>1, <1>2
<1>10. IsFiniteSet(A)
  <2>1. IsFiniteSet(L)
    BY LabelsAreFinite DEF SameTurns
  <2>2. A \in SUBSET L
    OBVIOUS
  <2> HIDE DEF A, L
  <2>3. QED
    BY <2>1, <2>2, FS_Subset
<1> HIDE DEF A, B, g
<1>11. g \in Bijection(A, B)
  BY <1>7, <1>8, <1>9, Fun_IsBij
<1>12. Cardinality(B) = Cardinality(A)
  BY <1>10, <1>11, FS_Bijection DEF ExistsBijection
<1>13. QED
  BY <1>5, <1>6, <1>12

\* Each turn lies to the segment as it did.
LEMMA SameTimes ==
  ASSUME NEW T, NEW T2, NEW c, NEW n, SameTurns(T, T2, c, n), NEW s
  PROVE  \A k \in DOMAIN T : /\ Overlap(s, T2[c[k]]) = Overlap(s, T[k])
                             /\ Distance(s, T2[c[k]]) = Distance(s, T[k])
<1> SUFFICES ASSUME NEW k \in DOMAIN T
             PROVE  /\ Overlap(s, T2[c[k]]) = Overlap(s, T[k])
                    /\ Distance(s, T2[c[k]]) = Distance(s, T[k])
  OBVIOUS
<1>1. T2[c[k]].start = T[k].start /\ T2[c[k]].end = T[k].end
  BY SameFacts
<1>2. Overlap(s, T2[c[k]]) = Overlap(s, T[k])
  BY <1>1, Zenon DEF Overlap
<1>3. Distance(s, T2[c[k]]) = Distance(s, T[k])
  BY <1>1, Zenon DEF Distance
<1>4. QED
  BY <1>2, <1>3

LEMMA SameHeard ==
  ASSUME NEW T, NEW T2, NEW c, NEW n, SameTurns(T, T2, c, n), NEW s \in Segment,
         NEW raw \in RawLabels(T)
  PROVE  /\ Votes(s, T2)[n[raw]] = Votes(s, T)[raw]
         /\ EarliestOverlap(s, T2, n[raw]) = EarliestOverlap(s, T, raw)
<1> DEFINE m == n[raw]
           S == {IF s.start >= T[i].start THEN s.start ELSE T[i].start :
                   i \in {j \in DOMAIN T : T[j].label = raw /\ Overlap(s, T[j]) > 0}}
           S2 == {IF s.start >= T2[i].start THEN s.start ELSE T2[i].start :
                   i \in {j \in DOMAIN T2 : T2[j].label = m /\ Overlap(s, T2[j]) > 0}}
<1>1. T \in Seq(Turn) /\ T2 \in Seq(Turn) /\ c \in Bijection(DOMAIN T, DOMAIN T2)
  BY DEF SameTurns
<1>2. m \in RawLabels(T2)
  BY SameFacts
<1>3. \A k \in DOMAIN T : /\ T2[c[k]].start = T[k].start /\ T2[c[k]].end = T[k].end
                          /\ T2[c[k]].label = m <=> T[k].label = raw
  BY SameFacts
<1>4. Votes(s, T2)[m] = Votes(s, T)[raw]
  <2> HIDE DEF m
  <2>1. Cardinality(HeardIn(s, T2, m)) = Cardinality(HeardIn(s, T, raw))
    BY <1>1, <1>3, HeardMoved
  <2>2. QED
    BY <1>1, <1>2, <2>1, VotesAreMoments
<1>5. ASSUME NEW x \in S PROVE x \in S2
  <2>1. PICK k \in DOMAIN T :
          /\ T[k].label = raw /\ Overlap(s, T[k]) > 0
          /\ x = IF s.start >= T[k].start THEN s.start ELSE T[k].start
    OBVIOUS
  <2>2. /\ c[k] \in DOMAIN T2 /\ T2[c[k]].label = m /\ Overlap(s, T2[c[k]]) > 0
        /\ x = IF s.start >= T2[c[k]].start THEN s.start ELSE T2[c[k]].start
    BY <1>3, <2>1, SameFacts, SameTimes
  <2>3. QED
    BY <2>2
<1>6. ASSUME NEW x \in S2 PROVE x \in S
  <2>1. PICK i \in DOMAIN T2 :
          /\ T2[i].label = m /\ Overlap(s, T2[i]) > 0
          /\ x = IF s.start >= T2[i].start THEN s.start ELSE T2[i].start
    OBVIOUS
  <2>2. PICK k \in DOMAIN T : c[k] = i
    BY SameFacts
  <2>3. /\ T[k].label = raw /\ Overlap(s, T[k]) > 0
        /\ x = IF s.start >= T[k].start THEN s.start ELSE T[k].start
    BY <1>3, <2>1, <2>2, SameTimes
  <2>4. QED
    BY <2>3
<1>7. EarliestOverlap(s, T2, m) = Smallest(S2) /\ EarliestOverlap(s, T, raw) = Smallest(S)
  BY Zenon DEF EarliestOverlap
<1> HIDE DEF S, S2
<1>8. S2 = S
  BY <1>5, <1>6
<1>9. QED
  BY <1>4, <1>7, <1>8

\* The same distances to the same speakers.
LEMMA SameNearest ==
  ASSUME NEW T, NEW T2, NEW c, NEW n, SameTurns(T, T2, c, n), NEW s,
         NEW can, NEW can2, \A r \in RawLabels(T) : can2[n[r]] = can[r]
  PROVE  NearestSpeaker(s, T2, can2) = NearestSpeaker(s, T, can)
<1> DEFINE S == {Distance(s, T[i]) : i \in DOMAIN T}
           S2 == {Distance(s, T2[i]) : i \in DOMAIN T2}
           near == Smallest(S)
           C == {can[T[i].label] : i \in {j \in DOMAIN T : Distance(s, T[j]) = near}}
           C2 == {can2[T2[i].label] : i \in {j \in DOMAIN T2 : Distance(s, T2[j]) = near}}
<1>1. \A k \in DOMAIN T : /\ c[k] \in DOMAIN T2
                          /\ Distance(s, T2[c[k]]) = Distance(s, T[k])
                          /\ can2[T2[c[k]].label] = can[T[k].label]
  BY SameFacts, SameTimes
<1>2. \A i \in DOMAIN T2 : \E k \in DOMAIN T : c[k] = i
  BY SameFacts
<1>3. S2 = S
  <2>1. ASSUME NEW x \in S PROVE x \in S2
    BY <1>1
  <2>2. ASSUME NEW x \in S2 PROVE x \in S
    BY <1>1, <1>2
  <2> HIDE DEF S, S2
  <2>3. QED
    BY <2>1, <2>2
<1> HIDE DEF near
<1>4. ASSUME NEW x \in C PROVE x \in C2
  <2>1. PICK k \in DOMAIN T : Distance(s, T[k]) = near /\ x = can[T[k].label]
    OBVIOUS
  <2>2. /\ c[k] \in DOMAIN T2 /\ Distance(s, T2[c[k]]) = near
        /\ x = can2[T2[c[k]].label]
    BY <1>1, <2>1
  <2>3. QED
    BY <2>2
<1>5. ASSUME NEW x \in C2 PROVE x \in C
  <2>1. PICK i \in DOMAIN T2 : Distance(s, T2[i]) = near /\ x = can2[T2[i].label]
    OBVIOUS
  <2>2. PICK k \in DOMAIN T : c[k] = i
    BY <1>2
  <2>3. Distance(s, T[k]) = near /\ x = can[T[k].label]
    BY <1>1, <2>1, <2>2
  <2>4. QED
    BY <2>3
<1>6. C2 = C
  <2> HIDE DEF C, C2
  <2>1. QED
    BY <1>4, <1>5
<1>7. NearestSpeaker(s, T, can) =
        IF near <= GapTolerance THEN Smallest(C) ELSE FallbackSpeaker
  BY Zenon DEF NearestSpeaker, near
<1>8. NearestSpeaker(s, T2, can2) =
        IF near <= GapTolerance THEN Smallest(C2) ELSE FallbackSpeaker
  <2>1. near = Smallest(S2)
    BY <1>3, Zenon DEF near
  <2>2. NearestSpeaker(s, T2, can2) =
          LET nearest == Smallest(S2)
              labels == {can2[T2[i].label] :
                           i \in {j \in DOMAIN T2 : Distance(s, T2[j]) = nearest}}
          IN IF nearest <= GapTolerance THEN Smallest(labels) ELSE FallbackSpeaker
    BY Zenon DEF NearestSpeaker
  <2> HIDE DEF S2
  <2>3. QED
    BY <2>1, <2>2, Zenon
<1> HIDE DEF C, C2
<1>9. QED
  BY <1>6, <1>7, <1>8

\* And so the same speaker.
LEMMA SameSpeaker ==
  ASSUME NEW T, NEW T2, NEW c, NEW n, SameTurns(T, T2, c, n), NEW s \in Segment,
         NEW can, NEW can2, \A r \in RawLabels(T) : can2[n[r]] = can[r]
  PROVE  SpeakerFor(s, T2, can2) = SpeakerFor(s, T, can)
<1> DEFINE L == RawLabels(T)
           L2 == RawLabels(T2)
           v == Votes(s, T)
           v2 == Votes(s, T2)
           e(a) == EarliestOverlap(s, T, a)
           e2(a) == EarliestOverlap(s, T2, a)
           most == {a \in L : v[a] > 0 /\ \A b \in L : v[b] <= v[a]}
           most2 == {a \in L2 : v2[a] > 0 /\ \A b \in L2 : v2[b] <= v2[a]}
           early == {a \in most : \A b \in most : e(a) <= e(b)}
           early2 == {a \in most2 : \A b \in most2 : e2(a) <= e2(b)}
<1>1. /\ \A r \in L : n[r] \in L2 /\ v2[n[r]] = v[r] /\ e2(n[r]) = e(r)
      /\ \A q \in L2 : \E r \in L : n[r] = q
  BY SameFacts, SameHeard
<1> HIDE DEF L, L2, v, v2, e, e2
<1>2. \A r \in L : n[r] \in most2 <=> r \in most
  BY <1>1
<1>3. most2 = {} <=> most = {}
  BY <1>1, <1>2
<1>4. \A r \in L : n[r] \in early2 <=> r \in early
  <2>1. \A r \in most : n[r] \in early2 => r \in early
    BY <1>1, <1>2
  <2>2. \A r \in most : r \in early => n[r] \in early2
    <3> SUFFICES ASSUME NEW r \in most, r \in early, NEW b2 \in most2
                 PROVE  e2(n[r]) <= e2(b2)
      BY <1>2
    <3>1. PICK b \in L : n[b] = b2
      BY <1>1
    <3>2. b \in most
      BY <1>2, <3>1
    <3>3. e(r) <= e(b)
      BY <3>2
    <3>4. e2(n[r]) = e(r) /\ e2(b2) = e(b)
      BY <1>1, <3>1
    <3>5. QED
      BY <3>3, <3>4
  <2>3. QED
    BY <1>2, <2>1, <2>2
<1>5. {can2[a] : a \in early2} = {can[a] : a \in early}
  <2>1. \A q \in early2 : q \in L2
    OBVIOUS
  <2>2. \A r \in early : r \in L
    OBVIOUS
  <2>3. \A r \in L : can2[n[r]] = can[r]
    BY DEF L
  <2> HIDE DEF early, early2
  <2>4. ASSUME NEW x \in {can[a] : a \in early} PROVE x \in {can2[a] : a \in early2}
    <3>1. PICK r \in early : x = can[r]
      OBVIOUS
    <3>2. n[r] \in early2 /\ x = can2[n[r]]
      BY <1>4, <2>2, <2>3, <3>1
    <3>3. QED
      BY <3>2
  <2>5. ASSUME NEW x \in {can2[a] : a \in early2} PROVE x \in {can[a] : a \in early}
    <3>1. PICK q \in early2 : x = can2[q]
      OBVIOUS
    <3>2. PICK r \in L : n[r] = q
      BY <1>1, <2>1
    <3>3. r \in early /\ x = can[r]
      BY <1>4, <2>3, <3>1, <3>2
    <3>4. QED
      BY <3>3
  <2>6. QED
    BY <2>4, <2>5
<1>6. NearestSpeaker(s, T2, can2) = NearestSpeaker(s, T, can)
  BY SameNearest
<1>7. SpeakerFor(s, T, can) =
        IF most = {} THEN NearestSpeaker(s, T, can) ELSE Smallest({can[a] : a \in early})
  BY Zenon DEF SpeakerFor, L, v, e
<1>8. SpeakerFor(s, T2, can2) =
        IF most2 = {} THEN NearestSpeaker(s, T2, can2)
        ELSE Smallest({can2[a] : a \in early2})
  BY Zenon DEF SpeakerFor, L2, v2, e2
<1> DEFINE A == {can[a] : a \in early}
           A2 == {can2[a] : a \in early2}
<1>9. A2 = A
  BY <1>5
<1> HIDE DEF most, most2
<1>10. SpeakerFor(s, T, can) = IF most = {} THEN NearestSpeaker(s, T, can) ELSE Smallest(A)
  BY <1>7, Zenon
<1>11. SpeakerFor(s, T2, can2)
         = IF most2 = {} THEN NearestSpeaker(s, T2, can2) ELSE Smallest(A2)
  BY <1>8, Zenon
<1> HIDE DEF A, A2
<1>12. QED
  BY <1>3, <1>6, <1>9, <1>10, <1>11

-----------------------------------------------------------------------------
(* What the diarizer reports, with other names and in another order.        *)

Renamed(t, n) == IF t.label = 0 THEN t ELSE [t EXCEPT !.label = n[@]]

\* The usable turns are the usable turns again.
LEMMA RenamedAreSame ==
  ASSUME NEW reported \in Seq(Turn),
         NEW p \in Bijection(DOMAIN reported, DOMAIN reported),
         NEW n \in Bijection(RawLabels(reported) \ {0}, RawLabels(reported) \ {0})
  PROVE  LET other == [i \in DOMAIN reported |-> Renamed(reported[p[i]], n)]
         IN \E c, m : SameTurns(UsableTurns(reported), UsableTurns(other), c, m)
<1> DEFINE other == [i \in DOMAIN reported |-> Renamed(reported[p[i]], n)]
           K == RawLabels(reported) \ {0}
           U == UsableTurns(reported)
           I == UsableAt(reported)
           U2 == UsableTurns(other)
           I2 == UsableAt(other)
<1>1. DOMAIN reported = 1 .. Len(reported) /\ Len(reported) \in Nat
  BY LenProperties
<1>2. n \in Bijection(K, K)
  OBVIOUS
<1>4. /\ p \in [DOMAIN reported -> DOMAIN reported]
      /\ \A i, j \in DOMAIN reported : p[i] = p[j] => i = j
      /\ \A i \in DOMAIN reported : \E j \in DOMAIN reported : p[j] = i
  BY Fun_BijectionProperties
<1>5. /\ n \in [K -> K]
      /\ \A a, b \in K : n[a] = n[b] => a = b
      /\ \A a \in K : \E b \in K : n[b] = a
  <2> HIDE DEF K
  <2>1. QED
    BY <1>2, Fun_BijectionProperties
<1>6. \A i \in DOMAIN reported : reported[i] \in Turn /\ (reported[i].label # 0 => reported[i].label \in K)
  <2>1. \A i \in DOMAIN reported : reported[i] \in Turn
    BY <1>1, ElementOfSeq
  <2>2. QED
    BY <2>1 DEF RawLabels
<1>7. K \subseteq Nat \ {0}
  BY <1>6 DEF RawLabels, Turn
<1>8. ASSUME NEW i \in DOMAIN reported
      PROVE  /\ other[i] \in Turn
             /\ other[i].start = reported[p[i]].start /\ other[i].end = reported[p[i]].end
             /\ other[i].label = 0 <=> reported[p[i]].label = 0
             /\ reported[p[i]].label # 0 => other[i].label = n[reported[p[i]].label]
  <2> DEFINE t == reported[p[i]]
  <2>1. t \in Turn /\ (t.label # 0 => t.label \in K)
    BY <1>4, <1>6
  <2>2. other[i] = Renamed(t, n)
    OBVIOUS
  <2> HIDE DEF t, other, K
  <2>3. CASE t.label = 0
    BY <2>1, <2>2, <2>3 DEF Renamed, t
  <2>4. CASE t.label # 0
    <3>1. n[t.label] \in Nat \ {0}
      BY <1>5, <1>7, <2>1, <2>4
    <3>2. other[i] = [t EXCEPT !.label = n[t.label]]
      BY <2>2, <2>4 DEF Renamed
    <3>3. QED
      BY <2>1, <2>4, <3>1, <3>2 DEF Turn, t
  <2>5. QED
    BY <2>3, <2>4
<1>9. other \in Seq(Turn) /\ DOMAIN other = DOMAIN reported
  <2>1. DOMAIN other = 1 .. Len(reported)
    BY <1>1
  <2>2. other \in [1 .. Len(reported) -> Turn]
    <3> HIDE DEF other
    <3>1. \A i \in 1 .. Len(reported) : other[i] \in Turn
      BY <1>1, <1>8
    <3>2. other = [i \in 1 .. Len(reported) |-> other[i]]
      BY <1>1 DEF other
    <3>3. QED
      BY <3>1, <3>2
  <2> HIDE DEF other
  <2>3. QED
    BY <1>1, <2>1, <2>2
<1> HIDE DEF other
<1>10. PICK b \in Bijection(DOMAIN U, I) : \A k \in DOMAIN U : U[k] = reported[b[k]]
  BY UsableFacts
<1>11. PICK b2 \in Bijection(DOMAIN U2, I2) : \A k \in DOMAIN U2 : U2[k] = other[b2[k]]
  BY <1>9, UsableFacts
<1>12. U \in Seq(Turn) /\ U2 \in Seq(Turn)
  BY <1>9, UsableFacts
<1>13. \A i \in DOMAIN reported : i \in I2 <=> p[i] \in I
  <2>1. \A i \in DOMAIN reported :
          IsValidInterval(other[i]) <=> IsValidInterval(reported[p[i]])
    BY <1>8, Zenon DEF IsValidInterval
  <2>2. QED
    BY <1>4, <1>8, <1>9, <2>1 DEF UsableAt
<1>14. I \subseteq DOMAIN reported /\ I2 \subseteq DOMAIN reported
  BY <1>9 DEF UsableAt
<1>15. \A i \in I : reported[i].label # 0
  BY DEF UsableAt
<1> HIDE DEF U, I, U2, I2, K
<1>16. /\ b \in [DOMAIN U -> I]
       /\ \A k, l \in DOMAIN U : b[k] = b[l] => k = l
       /\ \A i \in I : \E k \in DOMAIN U : b[k] = i
  BY Fun_BijectionProperties
<1>17. /\ b2 \in [DOMAIN U2 -> I2]
       /\ \A k, l \in DOMAIN U2 : b2[k] = b2[l] => k = l
       /\ \A i \in I2 : \E k \in DOMAIN U2 : b2[k] = i
  BY Fun_BijectionProperties
\* Where each turn went.
<1> DEFINE c == [k \in DOMAIN U |-> CHOOSE l \in DOMAIN U2 : p[b2[l]] = b[k]]
<1>18. \A k \in DOMAIN U : c[k] \in DOMAIN U2 /\ p[b2[c[k]]] = b[k]
  <2> SUFFICES ASSUME NEW k \in DOMAIN U
               PROVE  \E l \in DOMAIN U2 : p[b2[l]] = b[k]
    OBVIOUS
  <2>1. b[k] \in I /\ b[k] \in DOMAIN reported
    BY <1>14, <1>16
  <2>2. PICK j \in DOMAIN reported : p[j] = b[k]
    BY <1>4, <2>1
  <2>3. j \in I2
    BY <1>13, <2>1, <2>2
  <2>4. PICK l \in DOMAIN U2 : b2[l] = j
    BY <1>17, <2>3
  <2>5. QED
    BY <2>2, <2>4
<1>19. c \in [DOMAIN U -> DOMAIN U2]
  BY <1>18
<1>20. \A k, l \in DOMAIN U : c[k] = c[l] => k = l
  <2> HIDE DEF c
  <2>1. QED
    BY <1>16, <1>18
<1>21. \A l \in DOMAIN U2 : \E k \in DOMAIN U : c[k] = l
  <2> SUFFICES ASSUME NEW l \in DOMAIN U2 PROVE \E k \in DOMAIN U : c[k] = l
    OBVIOUS
  <2>1. b2[l] \in I2 /\ b2[l] \in DOMAIN reported
    BY <1>14, <1>17
  <2>2. p[b2[l]] \in I
    BY <1>13, <2>1
  <2>3. PICK k \in DOMAIN U : b[k] = p[b2[l]]
    BY <1>16, <2>2
  <2> HIDE DEF c
  <2>4. c[k] \in DOMAIN U2 /\ b2[c[k]] \in DOMAIN reported /\ p[b2[c[k]]] = p[b2[l]]
    BY <1>14, <1>17, <1>18, <2>3
  <2>5. b2[c[k]] = b2[l]
    <3>1. \A i, j \in DOMAIN reported : p[i] = p[j] => i = j
      BY <1>4
    <3>2. QED
      BY <2>1, <2>4, <3>1
  <2>6. c[k] = l
    BY <1>17, <2>4, <2>5
  <2>7. QED
    BY <2>6
<1> HIDE DEF c
<1>22. c \in Bijection(DOMAIN U, DOMAIN U2)
  BY <1>19, <1>20, <1>21, Fun_IsBij
<1>23. \A k \in DOMAIN U : /\ U2[c[k]].start = U[k].start /\ U2[c[k]].end = U[k].end
                           /\ U2[c[k]].label = n[U[k].label] /\ U[k].label \in K
  <2> SUFFICES ASSUME NEW k \in DOMAIN U
               PROVE  /\ U2[c[k]].start = U[k].start /\ U2[c[k]].end = U[k].end
                      /\ U2[c[k]].label = n[U[k].label] /\ U[k].label \in K
    OBVIOUS
  <2> DEFINE i == b2[c[k]]
  <2>1. i \in DOMAIN reported /\ p[i] = b[k] /\ b[k] \in I /\ b[k] \in DOMAIN reported
    BY <1>14, <1>16, <1>17, <1>18
  <2>2. U2[c[k]] = other[i] /\ U[k] = reported[p[i]]
    BY <1>10, <1>11, <1>18, <2>1
  <2>3. reported[p[i]].label # 0 /\ reported[p[i]].label \in K
    BY <1>6, <1>15, <2>1
  <2> HIDE DEF i
  <2>4. QED
    BY <1>8, <2>1, <2>2, <2>3
\* What each speaker is called now.
<1> DEFINE m == [r \in RawLabels(U) |-> n[r]]
<1>24. RawLabels(U) \subseteq K
  BY <1>23 DEF RawLabels
<1>25. m \in [RawLabels(U) -> RawLabels(U2)]
  <2> SUFFICES ASSUME NEW r \in RawLabels(U) PROVE n[r] \in RawLabels(U2)
    OBVIOUS
  <2>1. PICK k \in DOMAIN U : U[k].label = r
    BY DEF RawLabels
  <2>2. c[k] \in DOMAIN U2 /\ U2[c[k]].label = n[r]
    BY <1>19, <1>23, <2>1
  <2>3. QED
    BY <2>2 DEF RawLabels
<1>26. \A q, r \in RawLabels(U) : m[q] = m[r] => q = r
  BY <1>5, <1>24
<1>27. \A q \in RawLabels(U2) : \E r \in RawLabels(U) : m[r] = q
  <2> SUFFICES ASSUME NEW q \in RawLabels(U2) PROVE \E r \in RawLabels(U) : m[r] = q
    OBVIOUS
  <2>1. PICK l \in DOMAIN U2 : U2[l].label = q
    BY DEF RawLabels
  <2>2. PICK k \in DOMAIN U : c[k] = l
    BY <1>21
  <2>3. U[k].label \in RawLabels(U) /\ n[U[k].label] = q
    BY <1>23, <2>1, <2>2 DEF RawLabels
  <2>4. QED
    BY <2>3
<1>28. \A k \in DOMAIN U : m[U[k].label] = n[U[k].label]
  BY DEF RawLabels
<1> HIDE DEF m
<1>29. m \in Bijection(RawLabels(U), RawLabels(U2))
  BY <1>25, <1>26, <1>27, Fun_IsBij
<1>30. SameTurns(U, U2, c, m)
  BY <1>12, <1>22, <1>23, <1>28, <1>29 DEF SameTurns
<1>31. QED
  BY <1>30 DEF U, U2, other

\* assign_speakers gives the segment to the same speaker.
LEMMA RenamedAssignment ==
  ASSUME NEW s \in Segment, NEW reported \in Seq(Turn), ~NamesDecide(UsableTurns(reported)),
         NEW p \in Bijection(DOMAIN reported, DOMAIN reported),
         NEW n \in Bijection(RawLabels(reported) \ {0}, RawLabels(reported) \ {0})
  PROVE  AssignedSpeaker(s, [i \in DOMAIN reported |-> Renamed(reported[p[i]], n)])
           = AssignedSpeaker(s, reported)
<1> DEFINE other == [i \in DOMAIN reported |-> Renamed(reported[p[i]], n)]
           U == UsableTurns(reported)
           U2 == UsableTurns(other)
<1>1. PICK c, m : SameTurns(U, U2, c, m)
  BY RenamedAreSame
<1> HIDE DEF U, U2, other
<1>2. \A raw \in RawLabels(U) : CanonicalLabels(U2)[m[raw]] = CanonicalLabels(U)[raw]
  BY <1>1, SameCanonical DEF U
<1>3. SpeakerFor(s, U2, CanonicalLabels(U2)) = SpeakerFor(s, U, CanonicalLabels(U))
  BY <1>1, <1>2, SameSpeaker
<1>4. U2 = << >> <=> U = << >>
  <2>1. /\ U \in Seq(Turn) /\ U2 \in Seq(Turn)
        /\ DOMAIN U = {} <=> DOMAIN U2 = {}
    BY <1>1, SameFacts DEF SameTurns
  <2>2. QED
    BY <2>1
<1>5. QED
  BY <1>3, <1>4 DEF AssignedSpeaker, U, U2, other

-----------------------------------------------------------------------------
(* Diarization as a stage of the meeting.                                   *)

\* The speaker at hand is the one assign_speakers gives the segment at hand.
SpeakerSound ==
  dia.at = "done" => /\ dia.speaker # -1
                     /\ <<transcript.segment, dia.turns, dia.speaker>> \in Assigned

LEMMA SpeakerSoundStep ==
  ASSUME StageInv, SpeakerSound, [Next]_vars
  PROVE  SpeakerSound'
<1>1. dia \in DiarizeType
  BY DEF StageInv, LocalsSound
<1>2. ASSUME NEW stage, Enter(stage)
      PROVE  SpeakerSound'
  BY <1>2 DEF Enter, NoDiarization, SpeakerSound
<1>3. CASE DiarizationWork
  <2>1. CASE DiarizerAnswers
    <3>1. PICK point \in DiarizeKinds \union {"assign"} : dia'.at = point
      BY <1>1, <2>1 DEF DiarizerAnswers, DiarizeType
    <3>2. QED
      BY <3>1 DEF SpeakerSound, DiarizeKinds
  <2>2. CASE TurnsAssigned(transcript)
    <3>1. PICK speaker \in -1 .. MaxTurns :
            /\ IF transcript.timed
               THEN <<transcript.segment, dia.turns, speaker>> \in Assigned
               ELSE speaker = -1
            /\ dia' = [dia EXCEPT !.speaker = speaker,
                         !.at = IF speaker = -1 THEN "diarization_failed" ELSE "done"]
      BY <2>2 DEF TurnsAssigned
    <3>2. /\ dia'.speaker = speaker /\ dia'.turns = dia.turns
          /\ dia'.at = "done" => speaker # -1
      BY <1>1, <3>1 DEF DiarizeType
    <3>3. transcript' = transcript
      BY <1>3 DEF DiarizationWork
    <3>4. QED
      BY <3>1, <3>2, <3>3 DEF SpeakerSound
  <2>3. QED
    BY <1>3, <2>1, <2>2 DEF DiarizationWork, DiarizeStep
<1>4. CASE \/ Claim \/ Normalized \/ Transcribed \/ Diarized \/ Summarized
           \/ StageFails \/ Crash
  BY <1>2, <1>4
  DEF Claim, Normalized, Transcribed, Diarized, Summarized, StageFails, Crash
<1>5. CASE \/ NormalizationWork \/ TranscriptionWork \/ SummarizationWork \/ Retry
           \/ UNCHANGED vars
  BY <1>5 DEF NormalizationWork, TranscriptionWork, SummarizationWork, Retry, vars,
             SpeakerSound
<1>6. QED
  BY <1>3, <1>4, <1>5 DEF Next, Work

\* The turns at hand are as many as the diarizer may report.
TurnsSound == dia.at = "assign" => dia.turns \in BoundedSeq(Turns, MaxTurns)

LEMMA TurnsSoundStep ==
  ASSUME StageInv, TurnsSound, [Next]_vars
  PROVE  TurnsSound'
<1>1. dia \in DiarizeType
  BY DEF StageInv, LocalsSound
<1>2. ASSUME NEW stage, Enter(stage)
      PROVE  TurnsSound'
  BY <1>2 DEF Enter, NoDiarization, TurnsSound
<1>3. CASE DiarizationWork
  <2>1. CASE DiarizerAnswers
    <3>1. CASE \E kind \in DiarizeKinds : dia' = [dia EXCEPT !.at = kind]
      <4>1. dia'.at \in DiarizeKinds
        BY <1>1, <3>1 DEF DiarizeType
      <4>2. QED
        BY <4>1 DEF TurnsSound, DiarizeKinds
    <3>2. CASE \E turns \in BoundedSeq(Turns, MaxTurns) :
                 dia' = [dia EXCEPT !.at = "assign", !.turns = turns]
      BY <1>1, <3>2 DEF DiarizeType, TurnsSound
    <3>3. QED
      BY <2>1, <3>1, <3>2 DEF DiarizerAnswers
  <2>2. CASE TurnsAssigned(transcript)
    <3>1. dia'.at \in {"diarization_failed", "done"}
      BY <1>1, <2>2 DEF TurnsAssigned, DiarizeType
    <3>2. QED
      BY <3>1 DEF TurnsSound
  <2>3. QED
    BY <1>3, <2>1, <2>2 DEF DiarizationWork, DiarizeStep
<1>4. CASE \/ Claim \/ Normalized \/ Transcribed \/ Diarized \/ Summarized
           \/ StageFails \/ Crash
  BY <1>2, <1>4
  DEF Claim, Normalized, Transcribed, Diarized, Summarized, StageFails, Crash
<1>5. CASE \/ NormalizationWork \/ TranscriptionWork \/ SummarizationWork \/ Retry
           \/ UNCHANGED vars
  BY <1>5 DEF NormalizationWork, TranscriptionWork, SummarizationWork, Retry, vars,
             TurnsSound
<1>6. QED
  BY <1>3, <1>4, <1>5 DEF Next, Work

\* The segment and the turns at hand are such as the lemmas above speak of.
LEMMA SpeakerAtHand ==
  ASSUME StageInv, SpeakerSound, dia.at = "done"
  PROVE  /\ transcript.segment \in Segment /\ dia.turns \in Seq(Turn)
         /\ dia.speaker = AssignedSpeaker(transcript.segment, dia.turns)
<1>1. transcript.segment \in Interval
  BY DEF StageInv, RowSound, StoredTranscript
<1>2. Interval \subseteq Segment
  BY TranscriptionAssumption DEF Interval, Segment
<1>3. dia.turns \in Seq(Turn)
  <2>1. dia.turns \in Seq(Turns)
    BY DEF StageInv, LocalsSound, DiarizeType
  <2>2. Turns \subseteq Turn
    BY SpeakerAssumption DEF Turn
  <2>3. QED
    BY <2>1, <2>2
<1>4. <<transcript.segment, dia.turns, dia.speaker>> \in Assigned
  BY DEF SpeakerSound
<1>5. PICK i \in Interval, reported \in BoundedSeq(Turns, MaxTurns) :
        <<transcript.segment, dia.turns, dia.speaker>> =
          <<i, reported, AssignedSpeaker(i, reported)>>
  BY <1>4 DEF Assigned
<1>6. QED
  BY <1>1, <1>2, <1>3, <1>5

-----------------------------------------------------------------------------
\* The inductive invariant of the four stages, from which the rest follows.
THEOREM StageSound == Spec => []StageInv
<1>1. Init => StageInv
  BY StageInit
<1>2. StageInv /\ [Next]_vars => StageInv'
  BY StageStep
<1> QED
  BY <1>1, <1>2, PTL DEF Spec

\* Files, local variables of the four stages, row and transcript have the values
\* the code gives them, through every crash and retry.
THEOREM StageTypes == Spec => []TypeOK
<1>1. StageInv => TypeOK
  BY DEF StageInv, AudioInv, LocalsSound, RowSound, TypeOK
<1> QED
  BY <1>1, StageSound, PTL

\* WhisperTranscriber.transcribe: for all segments, durations and thresholds, the
\* progress reported last is less than progress_min_delta behind what was heard.
THEOREM ProgressFollows == Spec => []ProgressKeepsUp
<1>1. StageInv => ProgressKeepsUp
  BY DEF StageInv, LocalsSound, ProgressKeepsUp
<1> QED
  BY <1>1, StageSound, PTL

\* OpenRouterSummarizer.summarize, whatever _RETRY_DELAYS_SECONDS: a call that
\* fails without an answer has waited out every delay between two requests.
THEOREM DelaysAreUsedUp == Spec => []GivesUpLate
<1>1. StageInv => GivesUpLate
  <2> SUFFICES ASSUME StageInv PROVE GivesUpLate
    OBVIOUS
  <2>1. RequestSound(req)
    BY DEF StageInv, LocalsSound
  <2>2. Len(Delays) \in Nat
    BY SummaryAssumption
  <2>3. ASSUME req.at = "request" PROVE Len(req.slept) = req.sent
    BY <2>1, <2>2, <2>3, DelaysFacts DEF RequestSound
  <2>4. ASSUME req.at = "summarization_failed", req.sent > 0, ~req.answered
        PROVE  req.slept = Delays /\ req.sent = Len(Delays) + 1
    BY <2>1, <2>2, <2>4, DelaysFacts DEF RequestSound
  <2>5. QED
    BY <2>3, <2>4 DEF GivesUpLate
<1> QED
  BY <1>1, StageSound, PTL

\* OpenRouterSummarizer.summarize: once the provider has answered, no further
\* request is sent in that call.
THEOREM NoAnswerTwice == Spec => AnswerIsFinal
<1>1. StageInv /\ [Next]_vars => [req.answered => req'.sent <= req.sent]_req
  BY AnsweredStep
<1> QED
  BY <1>1, StageSound, PTL DEF Spec, AnswerIsFinal

\* assign_speakers, through every crash and retry of the diarization: the speaker
\* is the one who was assigned.
THEOREM SpeakerIsAssigned == Spec => [](StageInv /\ SpeakerSound)
<1>1. Init => SpeakerSound
  BY DEF Init, NoDiarization, SpeakerSound
<1>2. StageInv /\ SpeakerSound /\ [Next]_vars => SpeakerSound'
  BY SpeakerSoundStep
<1> QED
  BY <1>1, <1>2, StageSound, PTL DEF Spec

\* assign_speakers answers for whatever the diarizer reports: it refuses, or names a
\* speaker that fits the type, so that the step which uses the answer can be taken.
AssignmentAnswers ==
  dia.at = "assign" =>
    \E speaker \in -1 .. MaxTurns :
      <<transcript.segment, dia.turns, speaker>> \in Assigned

THEOREM AssignmentIsTotal == Spec => []AssignmentAnswers
<1>1. Init => TurnsSound
  BY DEF Init, NoDiarization, TurnsSound
<1>2. StageInv /\ TurnsSound /\ [Next]_vars => TurnsSound'
  BY TurnsSoundStep
<1>3. StageInv /\ TurnsSound => AssignmentAnswers
  <2> SUFFICES ASSUME StageInv, TurnsSound, dia.at = "assign"
               PROVE  \E speaker \in -1 .. MaxTurns :
                        <<transcript.segment, dia.turns, speaker>> \in Assigned
    BY DEF AssignmentAnswers
  <2> DEFINE s == transcript.segment
             T == dia.turns
             a == AssignedSpeaker(s, T)
             U == UsableTurns(T)
  <2>1. s \in Interval /\ T \in BoundedSeq(Turns, MaxTurns)
    BY DEF StageInv, RowSound, StoredTranscript, TurnsSound
  <2>2. s \in Segment
    <3>1. Interval \subseteq Segment
      BY TranscriptionAssumption DEF Interval, Segment
    <3>2. QED
      BY <2>1, <3>1
  <2> HIDE DEF s, T
  <2>3. T \in Seq(Turn) /\ Len(T) \in 0 .. MaxTurns /\ MaxTurns \in Nat
    <3>1. PICK m \in 0 .. MaxTurns : T \in [1 .. m -> Turns]
      BY <2>1 DEF BoundedSeq, SeqOf
    <3>2. Turns \subseteq Turn /\ MaxTurns \in Nat
      BY SpeakerAssumption DEF Turn
    <3>3. T \in [1 .. m -> Turn] /\ m \in Nat
      BY <3>1, <3>2
    <3>4. QED
      BY <3>1, <3>2, <3>3
  <2>4. a \in -1 .. MaxTurns
    <3>1. CASE U = << >>
      <4>1. a = -1
        BY <3>1, Zenon DEF AssignedSpeaker
      <4>2. QED
        BY <2>3, <4>1
    <3>2. CASE U # << >>
      <4>1. a \in 0 .. Cardinality(RawLabels(U)) - 1
        BY <2>2, <2>3, <3>2, AssignedIsNumbered
      <4>2. U \in Seq(Turn) /\ Len(U) \in 0 .. Len(T)
        BY <2>3, UsableFacts
      <4> HIDE DEF U, a
      <4>3. Cardinality(RawLabels(U)) \in 0 .. Len(U)
        BY <4>2, LabelsAreFinite
      <4>4. QED
        BY <2>3, <4>1, <4>2, <4>3
    <3>3. QED
      BY <3>1, <3>2
  <2>5. <<s, T, a>> \in Assigned
    <3>1. \A i \in Interval, reported \in BoundedSeq(Turns, MaxTurns) :
            <<i, reported, AssignedSpeaker(i, reported)>> \in Assigned
      BY DEF Assigned
    <3>2. <<s, T, AssignedSpeaker(s, T)>> \in Assigned
      BY <2>1, <3>1, Zenon
    <3>3. QED
      BY <3>2
  <2> HIDE DEF a
  <2>6. QED
    BY <2>4, <2>5 DEF s, T
<1> QED
  BY <1>1, <1>2, <1>3, StageSound, PTL DEF Spec

\* _speaker_for_segment: a segment is given to someone who has a usable turn, and
\* the fallback is one of them, for the numbers start at SPEAKER_00.
SpeakerIsOfTheMeeting ==
  dia.at = "done" =>
    \E raw \in RawLabels(UsableTurns(dia.turns)) :
      dia.speaker = CanonicalLabels(UsableTurns(dia.turns))[raw]

THEOREM SpeakerHasTurn == Spec => []SpeakerIsOfTheMeeting
<1>1. StageInv /\ SpeakerSound => SpeakerIsOfTheMeeting
  <2> SUFFICES ASSUME StageInv, SpeakerSound, dia.at = "done"
               PROVE  \E raw \in RawLabels(UsableTurns(dia.turns)) :
                        dia.speaker = CanonicalLabels(UsableTurns(dia.turns))[raw]
    BY DEF SpeakerIsOfTheMeeting
  <2>1. /\ transcript.segment \in Segment /\ dia.turns \in Seq(Turn)
        /\ dia.speaker = AssignedSpeaker(transcript.segment, dia.turns)
    BY SpeakerAtHand
  <2>2. dia.speaker # -1
    BY DEF SpeakerSound
  <2>3. UsableTurns(dia.turns) # << >>
    BY <2>1, <2>2, Zenon DEF AssignedSpeaker
  <2>4. QED
    BY <2>1, <2>3, AssignedIsNumbered
<1> QED
  BY <1>1, SpeakerIsAssigned, PTL

\* _speaker_for_segment, for turns and segments of any length: a segment in which
\* anyone is heard goes to one who is heard the longest in it.
THEOREM LongestSpeakerIsChosen == Spec => []LongestSpeakerWins
<1>1. StageInv /\ SpeakerSound => LongestSpeakerWins
  <2> SUFFICES ASSUME StageInv, SpeakerSound, dia.at = "done",
                      {raw \in RawLabels(dia.turns) \ {0} :
                         HeardIn(transcript.segment, dia.turns, raw) # {}} # {}
               PROVE  \E raw \in {raw \in RawLabels(dia.turns) \ {0} :
                                    HeardIn(transcript.segment, dia.turns, raw) # {}} :
                        /\ \A other \in {r \in RawLabels(dia.turns) \ {0} :
                                   HeardIn(transcript.segment, dia.turns, r) # {}} :
                             Cardinality(HeardIn(transcript.segment, dia.turns, other)) <=
                               Cardinality(HeardIn(transcript.segment, dia.turns, raw))
                        /\ dia.speaker = CanonicalLabels(UsableTurns(dia.turns))[raw]
    BY Zenon DEF LongestSpeakerWins, LongestHeardWins
  <2>1. \E raw \in RawLabels(dia.turns) \ {0} :
          HeardIn(transcript.segment, dia.turns, raw) # {}
    OBVIOUS
  <2>2. PICK raw \in RawLabels(dia.turns) \ {0} :
           /\ HeardIn(transcript.segment, dia.turns, raw) # {}
           /\ \A other \in RawLabels(dia.turns) \ {0} :
                Cardinality(HeardIn(transcript.segment, dia.turns, other)) <=
                  Cardinality(HeardIn(transcript.segment, dia.turns, raw))
           /\ AssignedSpeaker(transcript.segment, dia.turns) =
                CanonicalLabels(UsableTurns(dia.turns))[raw]
    BY <2>1, SpeakerAtHand, LongestHeard
  <2>3. QED
    BY <2>2, SpeakerAtHand, Zenon
<1> QED
  BY <1>1, SpeakerIsAssigned, PTL

\* _canonical_label_map, for any number of turns: unless two speakers begin at the
\* same moment, who a segment is given to depends on neither the names the diarizer
\* has for its speakers nor the order in which it lists their turns.
THEOREM NamesDecideNothing == Spec => []SpeakersAreStable
<1>1. StageInv /\ SpeakerSound => SpeakersAreStable
  <2> SUFFICES ASSUME StageInv, SpeakerSound, dia.at = "done",
                      ~NamesDecide(UsableTurns(dia.turns)),
                      NEW p \in Bijection(DOMAIN dia.turns, DOMAIN dia.turns),
                      NEW n \in Bijection(RawLabels(dia.turns) \ {0},
                                          RawLabels(dia.turns) \ {0})
               PROVE  AssignedSpeaker(transcript.segment,
                        [i \in DOMAIN dia.turns |-> Renamed(dia.turns[p[i]], n)])
                        = dia.speaker
    BY Zenon DEF SpeakersAreStable, OnlyTheTurnsCount, Renamed
  <2>1. QED
    BY SpeakerAtHand, RenamedAssignment
<1> QED
  BY <1>1, SpeakerIsAssigned, PTL
=============================================================================
