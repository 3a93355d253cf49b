-------------------------- MODULE TranscriptionLoop --------------------------
(***************************************************************************)
(* WhisperTranscriber.transcribe: one pass over a generator of segments    *)
(* that reports throttled progress and collects the segments with text.    *)
(* Times are integers in a unit of the instance's choice.                  *)
(***************************************************************************)
EXTENDS Integers, FiniteSets

CONSTANTS MaxTime,       \* segments lie in 0 .. MaxTime
          Durations,     \* audio durations reported; 0: none, or not a number
          MinDelta,      \* progress_min_delta
          MinWords,      \* EMPTY_TRANSCRIPT_WORD_THRESHOLD
          LongSegment,   \* EMPTY_TRANSCRIPT_DURATION_THRESHOLD_SECONDS
          MaxSegments    \* bound: segments with text in one transcript

ASSUME TranscriptionAssumption ==
  /\ MaxTime \in Nat /\ Durations \subseteq Nat
  /\ MinDelta \in Nat \ {0} /\ MinWords \in Nat /\ LongSegment \in Nat
  /\ MaxSegments \in Nat

VARIABLE tr   \* the call's local variables, `shown` of the row, and its point

Interval == [start : 0 .. MaxTime, end : 0 .. MaxTime]

TranscribeKinds == {"transcription_failed", "transcription_empty"}

TranscribePoints == {"off", "load", "loop", "done"} \union TranscribeKinds

\* `words` stops counting at MinWords; `seen` (history) is the furthest the
\* segments so far reach, in percent.
TranscribeType ==
  [at : TranscribePoints, duration : Durations \union {0}, last : 0 .. 99,
   shown : 0 .. 99, seen : 0 .. 99, words : 0 .. MinWords,
   drafts : SUBSET Interval]

NoTranscription == [at |-> "off", duration |-> 0, last |-> 0, shown |-> 0,
                    seen |-> 0, words |-> 0, drafts |-> {}]

Least(a, b) == IF a <= b THEN a ELSE b

Most(a, b) == IF a >= b THEN a ELSE b

\* Variant: a segment past the end of the audio counts as it is.
ProgressUncapped(end, duration) == (end * 100) \div duration

\* _progress_from_segment_end: a segment may end after the audio does.
ProgressOf(end, duration) == Most(0, Least(99, (end * 100) \div duration))

\* The model is loaded and asked; normalized.wav may be missing.
ModelAnswers ==
  /\ tr.at = "load"
  /\ \/ \E d \in Durations : tr' = [tr EXCEPT !.at = "loop", !.duration = d]
     \/ tr' = [tr EXCEPT !.at = "transcription_failed"]

\* Variant: compared with what was heard before, not with what was reported.
IsReportedByStep(candidate, elapsed) ==
  candidate > tr.last /\ (candidate - tr.seen >= MinDelta \/ elapsed)

\* The throttle; `elapsed`: the minimal interval has passed since the last one.
IsReported(candidate, elapsed) ==
  candidate > tr.last /\ (candidate - tr.last >= MinDelta \/ elapsed)

\* The row takes the report unless the write fails, which only is logged.
Reported(t, candidate, elapsed, written) ==
  LET reported == IsReported(candidate, elapsed) IN
  [t EXCEPT !.seen  = Most(@, candidate),
            !.last  = IF reported THEN candidate ELSE @,
            !.shown = IF reported /\ written THEN candidate ELSE @]

\* One segment, with `words` words of text (none: it is skipped, but only after
\* its progress was reported).  Without a usable duration nothing is reported.
NextSegment(i, words, elapsed, written) ==
  LET t == IF tr.duration = 0 THEN tr
           ELSE Reported(tr, ProgressOf(i.end, tr.duration), elapsed, written)
  IN /\ tr.at = "loop"
     /\ words > 0 => Cardinality(tr.drafts \union {i}) <= MaxSegments
     /\ tr' = IF words = 0 THEN t
              ELSE [t EXCEPT !.drafts = @ \union {i},
                             !.words = Least(MinWords, @ + words)]

\* _is_empty_transcript
IsEmptyTranscript(t) ==
  \/ t.drafts = {}
  \/ t.words < MinWords /\ \A i \in t.drafts : i.end - i.start <= LongSegment

GeneratorEnds ==
  /\ tr.at = "loop"
  /\ tr' = [tr EXCEPT !.at = IF IsEmptyTranscript(tr)
                             THEN "transcription_empty" ELSE "done"]

GeneratorRaises ==
  tr.at = "loop" /\ tr' = [tr EXCEPT !.at = "transcription_failed"]

TranscribeStep ==
  \/ ModelAnswers
  \/ \E i \in Interval, words \in 0 .. 2, elapsed, written \in BOOLEAN :
       i.start <= i.end /\ NextSegment(i, words, elapsed, written)
  \/ GeneratorEnds
  \/ GeneratorRaises

-----------------------------------------------------------------------------
\* The throttle never holds back as much as MinDelta, whatever the order of the
\* segments and the clock: what was reported last is close to what was heard.
ProgressKeepsUp == tr.at = "loop" => tr.seen - tr.last < MinDelta
=============================================================================
