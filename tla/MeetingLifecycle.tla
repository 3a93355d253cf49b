--------------------------- MODULE MeetingLifecycle ---------------------------
(***************************************************************************)
(* What the system promises a user about one meeting after another: the    *)
(* status state machine of ADR 0007 and the versioned summaries of a       *)
(* finished meeting.  No worker, request, crash or timeout appears here;    *)
(* MeetingPipeline is shown to implement this.                             *)
(***************************************************************************)
EXTENDS Integers

CONSTANT Meetings

VARIABLES status,     \* status of each meeting
          resume,     \* stage a queued meeting restarts at, "none" for the first
          failedAt,   \* stage a failed meeting failed at
          summaries   \* number of the latest summary

lifecycle == <<status, resume, failedAt, summaries>>

Successor == [normalizing  |-> "transcribing",
              transcribing |-> "diarizing",
              diarizing    |-> "summarizing",
              summarizing  |-> "done"]

Working(m) == status[m] \in DOMAIN Successor

LifecycleInit ==
  /\ status = [m \in Meetings |-> "absent"]
  /\ resume = [m \in Meetings |-> "none"]
  /\ failedAt = [m \in Meetings |-> "none"]
  /\ summaries = [m \in Meetings |-> 0]

Submit(m) ==
  /\ status[m] = "absent"
  /\ status' = [status EXCEPT ![m] = "pending"]
  /\ UNCHANGED <<resume, failedAt, summaries>>

\* A queued meeting enters the pipeline where it is to resume.
Enter(m) ==
  /\ status[m] = "pending"
  /\ status' = [status EXCEPT ![m] = IF resume[m] = "none" THEN "normalizing"
                                                          ELSE resume[m]]
  /\ resume' = [resume EXCEPT ![m] = "none"]
  /\ UNCHANGED <<failedAt, summaries>>

\* One stage after the other; the last one brings the first summary.
Advance(m) ==
  /\ Working(m)
  /\ status' = [status EXCEPT ![m] = Successor[@]]
  /\ summaries' = [summaries EXCEPT ![m] = IF status[m] = "summarizing" THEN 1
                                                                       ELSE @]
  /\ UNCHANGED <<resume, failedAt>>

\* A failure is recorded at the stage the meeting was in.
Fail(m) ==
  /\ Working(m)
  /\ status' = [status EXCEPT ![m] = "error"]
  /\ failedAt' = [failedAt EXCEPT ![m] = status[m]]
  /\ UNCHANGED <<resume, summaries>>

\* A failed meeting is queued again, for the failed stage or, when the language
\* changes, for transcription if it had got that far.
Retry(m) ==
  /\ status[m] = "error"
  /\ status' = [status EXCEPT ![m] = "pending"]
  /\ \/ resume' = [resume EXCEPT ![m] = failedAt[m]]
     \/ /\ failedAt[m] # "normalizing"
        /\ resume' = [resume EXCEPT ![m] = "transcribing"]
  /\ failedAt' = [failedAt EXCEPT ![m] = "none"]
  /\ UNCHANGED summaries

\* A change of language sends a queued meeting back to transcription.
Retarget(m) ==
  /\ status[m] = "pending"
  /\ resume[m] \in {"diarizing", "summarizing"}
  /\ resume' = [resume EXCEPT ![m] = "transcribing"]
  /\ UNCHANGED <<status, failedAt, summaries>>

\* Regeneration adds a version and moves nothing else.
Revise(m) ==
  /\ status[m] = "done"
  /\ summaries' = [summaries EXCEPT ![m] = @ + 1]
  /\ UNCHANGED <<status, resume, failedAt>>

Delete(m) ==
  /\ status[m] \notin {"absent", "deleted"}
  /\ status' = [status EXCEPT ![m] = "deleted"]
  /\ resume' = [resume EXCEPT ![m] = "none"]
  /\ failedAt' = [failedAt EXCEPT ![m] = "none"]
  /\ summaries' = [summaries EXCEPT ![m] = 0]

LifecycleNext ==
  \E m \in Meetings :
    \/ Submit(m) \/ Enter(m) \/ Advance(m) \/ Fail(m)
    \/ Retry(m) \/ Retarget(m) \/ Revise(m) \/ Delete(m)

LifecycleSpec == LifecycleInit /\ [][LifecycleNext]_lifecycle
=============================================================================
