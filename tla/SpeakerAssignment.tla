-------------------------- MODULE SpeakerAssignment --------------------------
(***************************************************************************)
(* assign_speakers: which speaker said a transcript segment, given the     *)
(* turns the diarizer found.  Segments are treated one by one, so one of   *)
(* them stands for all.  Raw labels are numbers, 0 is a blank one; the     *)
(* canonical label SPEAKER_NN is the number NN.                            *)
(***************************************************************************)
EXTENDS TranscriptionLoop, SequencesExt

CONSTANTS GapTolerance,   \* DEFAULT_GAP_TOLERANCE_SECONDS
          Turns,          \* turns the diarizer may report
          MaxTurns        \* bound: turns in one annotation

ASSUME SpeakerAssumption ==
  /\ GapTolerance \in Nat /\ MaxTurns \in Nat
  /\ Turns \subseteq [start : Nat, end : Nat, label : Nat]

FallbackSpeaker == 0

IsValidInterval(i) == i.end > i.start

Earlier(a, b) ==
  \/ a.start < b.start
  \/ a.start = b.start /\ a.end < b.end
  \/ a.start = b.start /\ a.end = b.end /\ a.label < b.label

\* _usable_diarization_segments: which turns count,
UsableAt(reported) ==
  {i \in DOMAIN reported : IsValidInterval(reported[i]) /\ reported[i].label # 0}

\* the place of each when they are sorted; equal turns keep their order,
PlaceOf(reported, i) ==
  Cardinality({j \in UsableAt(reported) : \/ Earlier(reported[j], reported[i])
                                          \/ reported[j] = reported[i] /\ j <= i})

\* and the turns in their places.
UsableTurns(reported) ==
  [k \in 1 .. Cardinality(UsableAt(reported)) |->
     reported[CHOOSE i \in UsableAt(reported) : PlaceOf(reported, i) = k]]

\* Of a non-empty set of numbers.
Smallest(S) == CHOOSE x \in S : \A y \in S : x <= y

RawLabels(turns) == {turns[i].label : i \in DOMAIN turns}

FirstStart(turns, raw) ==
  Smallest({turns[i].start : i \in {j \in DOMAIN turns : turns[j].label = raw}})

\* Variant: numbered in the order the diarizer names them.
CanonicalLabelsByName(turns) ==
  [raw \in RawLabels(turns) |-> Cardinality({r \in RawLabels(turns) : r < raw})]

\* _canonical_label_map: numbered in the order they first speak, then by name.
CanonicalLabels(turns) ==
  LET before(a, b) == \/ FirstStart(turns, a) < FirstStart(turns, b)
                      \/ FirstStart(turns, a) = FirstStart(turns, b) /\ a < b
  IN [raw \in RawLabels(turns) |->
        Cardinality({r \in RawLabels(turns) : before(r, raw)})]

\* _overlap_duration
Overlap(s, t) ==
  LET end   == IF s.end <= t.end THEN s.end ELSE t.end
      start == IF s.start >= t.start THEN s.start ELSE t.start
  IN IF end > start THEN end - start ELSE 0

\* _temporal_distance
Distance(s, t) ==
  CASE s.end <= t.start -> t.start - s.end
    [] t.end <= s.start -> s.start - t.end
    [] OTHER -> 0

\* Variant: the turns of a speaker do not add up.
VotesOfLast(s, turns) ==
  [raw \in RawLabels(turns) |->
     LET last == CHOOSE i \in DOMAIN turns : /\ turns[i].label = raw
                                             /\ \A j \in DOMAIN turns :
                                                  turns[j].label = raw => j <= i
     IN Overlap(s, turns[last])]

Votes(s, turns) ==
  [raw \in RawLabels(turns) |->
     LET sum[n \in 0 .. Len(turns)] ==
           IF n = 0 THEN 0
           ELSE sum[n - 1] + (IF turns[n].label = raw THEN Overlap(s, turns[n]) ELSE 0)
     IN sum[Len(turns)]]

EarliestOverlap(s, turns, raw) ==
  Smallest({IF s.start >= turns[i].start THEN s.start ELSE turns[i].start :
            i \in {j \in DOMAIN turns : turns[j].label = raw /\ Overlap(s, turns[j]) > 0}})

\* _nearest_diarization_segment and the gap tolerance.
NearestSpeaker(s, turns, canonical) ==
  LET nearest == Smallest({Distance(s, turns[i]) : i \in DOMAIN turns})
      labels  == {canonical[turns[i].label] :
                    i \in {j \in DOMAIN turns : Distance(s, turns[j]) = nearest}}
  IN IF nearest <= GapTolerance THEN Smallest(labels) ELSE FallbackSpeaker

\* _speaker_for_segment: most votes, then the earliest overlap, then the
\* smallest canonical label; without a vote, the nearest.
SpeakerFor(s, turns, canonical) ==
  LET votes == Votes(s, turns)
      most  == {a \in RawLabels(turns) :
                  votes[a] > 0 /\ \A b \in RawLabels(turns) : votes[b] <= votes[a]}
      early == {a \in most : \A b \in most :
                  EarliestOverlap(s, turns, a) <= EarliestOverlap(s, turns, b)}
  IN IF most = {} THEN NearestSpeaker(s, turns, canonical)
     ELSE Smallest({canonical[a] : a \in early})

\* What assign_speakers gives a segment of a valid transcript; -1: it refuses.
AssignedSpeaker(s, reported) ==
  LET turns == UsableTurns(reported)
  IN IF turns = << >> THEN -1 ELSE SpeakerFor(s, turns, CanonicalLabels(turns))

\* The same as a relation, which TLC evaluates once.
Assigned ==
  {<<i, reported, AssignedSpeaker(i, reported)>> :
     i \in Interval, reported \in BoundedSeq(Turns, MaxTurns)}

-----------------------------------------------------------------------------
VARIABLE dia   \* the segment and the annotation at hand, and its point

DiarizeKinds == {"diarization_failed", "config_missing"}

DiarizePoints == {"off", "load", "assign", "done"} \union DiarizeKinds

NoDiarization == [at |-> "off", turns |-> << >>, speaker |-> -1]

DiarizeType == [at : DiarizePoints, turns : Seq(Turns), speaker : -1 .. MaxTurns]

\* The pipeline is loaded (its token may be missing) and run (it may fail).
DiarizerAnswers ==
  /\ dia.at = "load"
  /\ \/ \E kind \in DiarizeKinds : dia' = [dia EXCEPT !.at = kind]
     \/ \E turns \in BoundedSeq(Turns, MaxTurns) :
          dia' = [dia EXCEPT !.at = "assign", !.turns = turns]

\* Its turns are assigned; one segment without a length refuses all of them.
TurnsAssigned(transcript) ==
  /\ dia.at = "assign"
  /\ \E speaker \in -1 .. MaxTurns :
       /\ IF transcript.timed THEN <<transcript.segment, dia.turns, speaker>> \in Assigned
                              ELSE speaker = -1
       /\ dia' = [dia EXCEPT !.speaker = speaker,
                             !.at = IF speaker = -1 THEN "diarization_failed" ELSE "done"]

DiarizeStep(transcript) == DiarizerAnswers \/ TurnsAssigned(transcript)

-----------------------------------------------------------------------------
\* The turns that count, moment by moment: <<which, when>>.
HeardIn(s, turns, raw) ==
  {heard \in (DOMAIN turns) \X (s.start .. s.end - 1) :
     LET turn == turns[heard[1]]
     IN turn.label = raw /\ turn.start <= heard[2] /\ heard[2] < turn.end}

\* A segment in which anyone is heard goes to one who is heard the longest.
LongestHeardWins(transcript) ==
  LET speakers == {raw \in RawLabels(dia.turns) \ {0} :
                     HeardIn(transcript.segment, dia.turns, raw) # {}}
      time(raw) == Cardinality(HeardIn(transcript.segment, dia.turns, raw))
  IN (dia.at = "done" /\ speakers # {}) =>
       \E raw \in speakers :
         /\ \A other \in speakers : time(other) <= time(raw)
         /\ dia.speaker = CanonicalLabels(UsableTurns(dia.turns))[raw]

\* Two speakers begin at the same moment: then their names number them.
NamesDecide(turns) ==
  \E a, b \in RawLabels(turns) : a # b /\ FirstStart(turns, a) = FirstStart(turns, b)

\* How the diarizer names its speakers and in which order it lists their turns
\* makes no difference to who a segment is given to.
OnlyTheTurnsCount(transcript) ==
  (dia.at = "done" /\ ~NamesDecide(UsableTurns(dia.turns))) =>
    \A p \in Bijection(DOMAIN dia.turns, DOMAIN dia.turns),
       n \in Bijection(RawLabels(dia.turns) \ {0}, RawLabels(dia.turns) \ {0}) :
      LET renamed(t) == IF t.label = 0 THEN t ELSE [t EXCEPT !.label = n[@]]
      IN AssignedSpeaker(transcript.segment,
                         [i \in DOMAIN dia.turns |-> renamed(dia.turns[p[i]])])
           = dia.speaker
=============================================================================
