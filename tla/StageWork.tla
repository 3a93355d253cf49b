------------------------------ MODULE StageWork ------------------------------
(***************************************************************************)
(* One meeting through the insides of its four stages, which               *)
(* MeetingPipeline takes as a step or two each.  A worker is in at most    *)
(* one stage at a time, so the four components take turns: entering a      *)
(* stage resets the others.  A crash loses everything but the files, the   *)
(* transcript and the row.                                                 *)
(***************************************************************************)
EXTENDS Normalization, SpeakerAssignment, SummaryRequest

VARIABLES status,      \* the row's status
          claimed,     \* the status the claim returned; "none": nobody works
          failure,     \* error_kind and failed_at_stage
          transcript   \* transcript_segments, as diarization sees them

vars == <<files, step, tr, dia, req, status, claimed, failure, transcript>>

StageNames == {"normalizing", "transcribing", "diarizing", "summarizing"}

NoFailure == [kind |-> "none", stage |-> "none"]

Kinds == NormalizationKinds \union TranscribeKinds \union DiarizeKinds
           \union SummaryKinds

\* All segments have a positive length, and one of them, to stand for the rest.
StoredTranscript == [timed : BOOLEAN, segment : Interval]

EmptyTranscript == [timed |-> FALSE, segment |-> [start |-> 0, end |-> 0]]

Init ==
  /\ FilesInit
  /\ tr = NoTranscription /\ dia = NoDiarization /\ req = NoRequest
  /\ status = "pending" /\ claimed = "none" /\ failure = NoFailure
  /\ transcript = EmptyTranscript

\* The processor enters a stage, or none.
Enter(stage) ==
  /\ step' = IF stage = "normalizing" THEN "unlink_partial" ELSE "off"
  /\ tr' = IF stage = "transcribing" THEN [NoTranscription EXCEPT !.at = "load"]
                                     ELSE NoTranscription
  /\ dia' = IF stage = "diarizing" THEN [NoDiarization EXCEPT !.at = "load"]
                                   ELSE NoDiarization
  /\ req' = IF stage = "summarizing" THEN [NoRequest EXCEPT !.at = "begin"]
                                     ELSE NoRequest

\* Variant: only what is new is claimed, and what was interrupted forgotten.
ClaimPendingOnly ==
  /\ claimed = "none" /\ status = "pending"
  /\ claimed' = status /\ status' = "normalizing"
  /\ Enter(status')
  /\ UNCHANGED <<files, failure, transcript>>

\* A first claim moves the row and returns "pending"; a later one resumes.
Claim ==
  /\ claimed = "none" /\ status \in {"pending"} \union StageNames
  /\ claimed' = status
  /\ status' = IF status = "pending" THEN "normalizing" ELSE status
  /\ Enter(status')
  /\ UNCHANGED <<files, failure, transcript>>

NormalizationWork ==
  /\ NormalizeStep(claimed)
  /\ UNCHANGED <<tr, dia, req, status, claimed, failure, transcript>>

\* Mark transcription started: the transcript is cleared first.
Normalized ==
  /\ step = "done"
  /\ status' = "transcribing" /\ transcript' = EmptyTranscript
  /\ Enter(status')
  /\ UNCHANGED <<files, claimed, failure>>

TranscriptionWork ==
  /\ TranscribeStep
  /\ UNCHANGED <<files, step, dia, req, status, claimed, failure, transcript>>

Transcribed ==
  /\ tr.at = "done"
  /\ \E i \in tr.drafts :
       transcript' = [timed |-> \A j \in tr.drafts : IsValidInterval(j), segment |-> i]
  /\ status' = "diarizing"
  /\ Enter(status')
  /\ UNCHANGED <<files, claimed, failure>>

DiarizationWork ==
  /\ DiarizeStep(transcript)
  /\ UNCHANGED <<files, step, tr, req, status, claimed, failure, transcript>>

\* From here on only the existence of the transcript matters.
Diarized ==
  /\ dia.at = "done"
  /\ status' = "summarizing" /\ transcript' = EmptyTranscript
  /\ Enter(status')
  /\ UNCHANGED <<files, claimed, failure>>

SummarizationWork ==
  /\ SummarizeStep
  /\ UNCHANGED <<files, step, tr, dia, status, claimed, failure, transcript>>

Summarized ==
  /\ req.at = "done"
  /\ status' = "done" /\ claimed' = "none"
  /\ Enter("none")
  /\ UNCHANGED <<files, failure, transcript>>

\* Whichever component ended with an error kind, mark_failure records it.
StageFails ==
  \E kind \in {step, tr.at, dia.at, req.at} \intersect Kinds :
    /\ failure' = [kind |-> kind, stage |-> status]
    /\ status' = "error" /\ claimed' = "none"
    /\ Enter("none")
    /\ UNCHANGED <<files, transcript>>

Crash ==
  /\ claimed # "none"
  /\ claimed' = "none"
  /\ Enter("none")
  /\ UNCHANGED <<files, status, failure, transcript>>

\* A user retries; what cannot be retried stays failed.
Retry ==
  /\ status = "error"
  /\ failure.kind \notin {"transcription_empty", "config_missing"}
  /\ status' = failure.stage /\ failure' = NoFailure
  /\ UNCHANGED <<files, step, tr, dia, req, claimed, transcript>>

Work ==
  \/ NormalizationWork \/ Normalized
  \/ TranscriptionWork \/ Transcribed
  \/ DiarizationWork \/ Diarized
  \/ SummarizationWork \/ Summarized
  \/ StageFails

Next == Claim \/ Work \/ Crash \/ Retry

Spec == Init /\ [][Next]_vars

FairSpec == Spec /\ WF_vars(Claim) /\ WF_vars(Work)

-----------------------------------------------------------------------------
TypeOK ==
  /\ files \in [Names -> Contents] /\ step \in NormalizePoints
  /\ tr \in TranscribeType /\ dia \in DiarizeType /\ req \in RequestType
  /\ status \in {"pending", "done", "error"} \union StageNames
  /\ claimed \in {"none", "pending"} \union StageNames
  /\ failure \in [kind : Kinds \union {"none"}, stage : StageNames \union {"none"}]
  /\ transcript \in StoredTranscript

\* A segment goes to the speaker heard longest in it.
LongestSpeakerWins == LongestHeardWins(transcript)

\* Names and order of the diarizer's turns decide nothing.
SpeakersAreStable == OnlyTheTurnsCount(transcript)

\* A meeting cannot be caught in a stage: every stage's loops, retries and
\* restarts end in a result or a failure, once crashes and retries cease, also
\* those of the last retry.
WorkEnds ==
  <>[][~(Crash \/ Retry)]_vars => <>[](status \in {"done", "error"})
=============================================================================
