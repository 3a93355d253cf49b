------------------------------ MODULE QueueLoop ------------------------------
(***************************************************************************)
(* How the worker learns that there is work: QueueLoop of queue_loop.py.   *)
(*                                                                         *)
(* The web app commits a queued meeting and its NOTIFY together.  The      *)
(* worker keeps one session that LISTENs, sleeps on it, and drains the     *)
(* queue when a notification arrives, when the poll interval is over, and  *)
(* when it has just started or reconnected.  Claiming and processing go    *)
(* through other connections, so the loop works on with a dead listener.   *)
(*                                                                         *)
(* A meeting is only what the claim sees of it; what happens to the row in *)
(* a stage, and which claimable row a claim prefers, is MeetingPipeline.   *)
(* There is one process here: a second one does not get the advisory lock. *)
(* Operators introduced as a "variant" are wrong on purpose.               *)
(***************************************************************************)
EXTENDS FiniteSets

CONSTANT Meetings

VARIABLES
  state,      \* each meeting: nothing to do ("settled": also not uploaded, or
              \* deleted), "queued" (pipeline or regeneration), "taken" (at a
              \* worker stage or being regenerated), "overdue" (taken, and not
              \* written for RECOVERY_RECLAIM_INTERVAL)
  locked,     \* queued rows a statement of the web app holds
  loop,       \* where the process is
  current,    \* the meeting being processed, if any
  stopping,   \* stop_event
  listening,  \* the session exists and has registered LISTEN
  notified,   \* notifications sent to that session and not yet consumed
  passed      \* history: queued meetings the last drain left behind

queue == <<state, locked>>
vars == <<state, locked, loop, current, stopping, listening, notified, passed>>

\* "top": the head of run's outer loop.   "connect": open the session and LISTEN.
\* "drain": the head of drain_queue's loop.   "claim": claim_next.
\* "process": processor.process.   "wait": sleep for a notification or the poll.
Points == {"off", "top", "connect", "drain", "claim", "process", "drainBackoff",
           "reconnectBackoff", "wait"}

Queued == {m \in Meetings : state[m] = "queued"}

Claimable == {m \in Meetings : state[m] \in {"queued", "overdue"}}

TypeOK ==
  /\ state \in [Meetings -> {"settled", "queued", "taken", "overdue"}]
  /\ locked \subseteq Queued   \* a claim skips locked rows
  /\ loop \in Points
  /\ current \subseteq Meetings
  /\ stopping \in BOOLEAN
  /\ listening \in BOOLEAN
  /\ notified \subseteq Meetings
  /\ passed \subseteq Meetings

Init ==
  /\ state = [m \in Meetings |-> "settled"]
  /\ locked = {}
  /\ loop = "off"
  /\ current = {}
  /\ stopping = FALSE
  /\ listening = FALSE
  /\ notified = {}
  /\ passed = {}

-----------------------------------------------------------------------------
(* The web app, and time.                                                   *)

\* insertAndNotifyPendingMeeting, retryMeetingById, queueSummaryRegenerationById:
\* the notification is delivered with the commit, to whoever listens.
Enqueue(m) ==
  /\ state[m] = "settled"
  /\ state' = [state EXCEPT ![m] = "queued"]
  /\ notified' = IF listening THEN notified \union {m} ELSE notified
  /\ UNCHANGED <<locked, loop, current, stopping, listening, passed>>

\* A statement that changes a queued row's language, title or existence holds it
\* until it commits; none of them notifies.
HoldRow(m) ==
  /\ state[m] = "queued"
  /\ m \notin locked
  /\ locked' = locked \union {m}
  /\ UNCHANGED <<state, loop, current, stopping, listening, notified, passed>>

\* It commits, or rolls back; a deletion that commits leaves nothing to do.
ReleaseRow(m) ==
  /\ m \in locked
  /\ locked' = locked \ {m}
  /\ \/ state' = state
     \/ state' = [state EXCEPT ![m] = "settled"]
  /\ UNCHANGED <<loop, current, stopping, listening, notified, passed>>

\* Five minutes without a write.
Age(m) ==
  /\ state[m] = "taken"
  /\ state' = [state EXCEPT ![m] = "overdue"]
  /\ UNCHANGED <<locked, loop, current, stopping, listening, notified, passed>>

-----------------------------------------------------------------------------
(* The loop.                                                                *)

\* The process starts (and holds the advisory lock).
Start ==
  /\ loop = "off"
  /\ loop' = "top"
  /\ stopping' = FALSE
  /\ UNCHANGED <<queue, current, listening, notified, passed>>

Connect ==
  /\ loop \in {"top", "reconnectBackoff"}
  /\ ~stopping
  /\ loop' = "connect"
  /\ UNCHANGED <<queue, current, stopping, listening, notified, passed>>

\* Variant: after LISTEN the loop goes to sleep; only a notification, or the poll,
\* makes it look at the queue.
ListenThenSleep ==
  /\ loop = "connect"
  /\ listening' = TRUE
  /\ notified' = {}
  /\ loop' = "wait"
  /\ UNCHANGED <<queue, current, stopping, passed>>

\* Open the session and register LISTEN, then drain: whatever was committed before
\* the registration is found by the drain, whatever after is notified.
Listen ==
  /\ loop = "connect"
  /\ listening' = TRUE
  /\ notified' = {}
  /\ loop' = "drain"
  /\ UNCHANGED <<queue, current, stopping, passed>>

\* Connecting or registering raises.
ListenFails ==
  /\ loop = "connect"
  /\ loop' = IF stopping THEN "off" ELSE "reconnectBackoff"
  /\ UNCHANGED <<queue, current, stopping, listening, notified, passed>>

\* Variant: only the sleep looks at stop_event, the drain does not.
DrainToTheEnd ==
  /\ loop = "drain"
  /\ loop' = "claim"
  /\ UNCHANGED <<queue, current, stopping, listening, notified, passed>>

Drain ==
  /\ loop = "drain"
  /\ ~stopping
  /\ loop' = "claim"
  /\ UNCHANGED <<queue, current, stopping, listening, notified, passed>>

\* Variant: the claim takes the row it finds first, held or not.
ClaimOneWithoutLock ==
  /\ loop = "claim"
  /\ \E m \in Claimable :
       /\ state' = [state EXCEPT ![m] = "taken"]
       /\ current' = {m}
  /\ loop' = "process"
  /\ UNCHANGED <<locked, stopping, listening, notified, passed>>

\* claim_next returns a row; FOR UPDATE SKIP LOCKED passes over held ones.
ClaimOne ==
  /\ loop = "claim"
  /\ \E m \in Claimable \ locked :
       /\ state' = [state EXCEPT ![m] = "taken"]
       /\ current' = {m}
  /\ loop' = "process"
  /\ UNCHANGED <<locked, stopping, listening, notified, passed>>

\* claim_next returns None: the drain is over.  A locked row was skipped.
ClaimNone ==
  /\ loop = "claim"
  /\ Claimable \subseteq locked
  /\ passed' = Queued
  /\ loop' = "wait"
  /\ UNCHANGED <<queue, current, stopping, listening, notified>>

\* claim_next raises: the rest of the queue is left for the next wake-up.
ClaimFails ==
  /\ loop = "claim"
  /\ passed' = Queued
  /\ loop' = "drainBackoff"
  /\ UNCHANGED <<queue, current, stopping, listening, notified>>

\* process returns: the meeting is done or failed (or gone).
Processed ==
  /\ loop = "process"
  /\ state' = [m \in Meetings |-> IF m \in current THEN "settled" ELSE state[m]]
  /\ current' = {}
  /\ loop' = "drain"
  /\ UNCHANGED <<locked, stopping, listening, notified, passed>>

\* process raises: the meeting stays where it is, and so does the rest of the queue.
ProcessFails ==
  /\ loop = "process"
  /\ current' = {}
  /\ passed' = Queued
  /\ loop' = "drainBackoff"
  /\ UNCHANGED <<queue, stopping, listening, notified>>

\* _backoff returns; the drain is over.
DrainBackoffOver ==
  /\ loop = "drainBackoff"
  /\ ~stopping
  /\ loop' = "wait"
  /\ UNCHANGED <<queue, current, stopping, listening, notified, passed>>

\* notifies(stop_after=1): one notification is returned; others that came in the
\* same packet are dropped with the generator.
Wake ==
  /\ loop = "wait"
  /\ ~stopping
  /\ listening
  /\ \E m \in notified : \E later \in SUBSET (notified \ {m}) : notified' = later
  /\ loop' = "drain"
  /\ UNCHANGED <<queue, current, stopping, listening, passed>>

\* Variant: the poll needs the session it sleeps on.
PollTimeoutIfAlive ==
  /\ loop = "wait"
  /\ ~stopping
  /\ listening
  /\ loop' = "drain"
  /\ UNCHANGED <<queue, current, stopping, listening, notified, passed>>

\* The poll interval is over; whether the session is alive plays no part.
PollTimeout ==
  /\ loop = "wait"
  /\ ~stopping
  /\ loop' = "drain"
  /\ UNCHANGED <<queue, current, stopping, listening, notified, passed>>

\* Sleeping on a dead session raises, if its death is noticed at all; the loop
\* backs off before it opens another.
DeathNoticed ==
  /\ loop = "wait"
  /\ ~stopping
  /\ ~listening
  /\ loop' = "reconnectBackoff"
  /\ UNCHANGED <<queue, current, stopping, listening, notified, passed>>

\* The session ends, noticed or not; what was on its way is lost.
SessionDies ==
  /\ listening
  /\ listening' = FALSE
  /\ notified' = {}
  /\ UNCHANGED <<queue, loop, current, stopping, passed>>

\* SIGTERM or SIGINT.
Stop ==
  /\ loop # "off"
  /\ ~stopping
  /\ stopping' = TRUE
  /\ UNCHANGED <<queue, loop, current, listening, notified, passed>>

\* Every loop looks at stop_event before its next round, and a back-off ends at
\* once; a claim under way and the meeting being processed are finished first.
Leave ==
  /\ stopping
  /\ loop \in {"top", "drain", "wait", "drainBackoff", "reconnectBackoff"}
  /\ loop' = "off"
  /\ listening' = FALSE
  /\ notified' = {}
  /\ UNCHANGED <<queue, current, stopping, passed>>

\* The process dies; a meeting it was processing stays taken.
Crash ==
  /\ loop # "off"
  /\ loop' = "off"
  /\ current' = {}
  /\ listening' = FALSE
  /\ notified' = {}
  /\ UNCHANGED <<queue, stopping, passed>>

LoopStep ==
  \/ Start \/ Connect \/ Listen \/ Drain \/ ClaimOne \/ ClaimNone \/ Processed
  \/ DrainBackoffOver \/ Wake \/ PollTimeout \/ Leave

Fault ==
  ListenFails \/ ClaimFails \/ ProcessFails \/ SessionDies \/ Crash

Request ==
  Stop \/ \E m \in Meetings : Enqueue(m) \/ HoldRow(m)

Next ==
  \/ LoopStep \/ DeathNoticed
  \/ \E m \in Meetings : ReleaseRow(m) \/ Age(m)
  \/ Request
  \/ Fault

Spec == Init /\ [][Next]_vars

\* The only thing that leaves a meeting in the middle of a stage is a crash.
CrashSpec == Init /\ [][Next /\ ~ProcessFails]_vars

(***************************************************************************)
(* Fairness.  The loop runs on (a stage ends, a poll interval is over, the *)
(* container is restarted), statements commit, time passes.  That a dead   *)
(* session is noticed is not assumed.                                      *)
(***************************************************************************)
Fairness ==
  /\ WF_vars(LoopStep)
  /\ \A m \in Meetings : WF_vars(ReleaseRow(m)) /\ WF_vars(Age(m))

FairSpec == Spec /\ Fairness

-----------------------------------------------------------------------------
\* A meeting that is queued while the loop sleeps on a live session, with nothing
\* on its way to wake it, was there during the last drain and left behind: because
\* its row was locked, or because an error ended the drain.  No wake-up is lost.
NoLostWakeup ==
  loop = "wait" /\ listening /\ notified = {} => Queued \subseteq passed

\* ADR 0007: a crash in the middle of a stage is recovered by the startup scan, any
\* non-terminal status means "pick up"; so a scan that ends because there is
\* nothing to claim leaves no meeting in the middle of a stage.
StartupPicksUp ==
  [][loop = "claim" /\ loop' = "wait" => \A m \in Meetings : state'[m] # "taken"]_vars

\* Once errors and new work cease, the queue is worked off: nothing stays queued,
\* and nothing stays taken by a process that died.
QueueIsWorkedOff ==
  <>[][~(Fault \/ Request)]_vars => <>[](\A m \in Meetings : state[m] = "settled")

\* A stop request ends the process, however much work keeps coming in and however
\* often claims, stages and connections fail.
StopEnds == stopping ~> loop = "off"
=============================================================================
