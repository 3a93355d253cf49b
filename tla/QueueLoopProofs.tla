--------------------------- MODULE QueueLoopProofs ---------------------------
(* The safety of QueueLoop, for any number of meetings.                     *)
EXTENDS QueueLoop, TLAPS

\* A meeting is in hand only while it is processed, and it is not queued then.
InHand ==
  /\ current # {} => loop = "process"
  /\ \A m \in current : state[m] \in {"taken", "overdue"}

\* NoLostWakeup, extended to the back-off that ends a drain: the loop goes to sleep
\* from there without looking at the queue again.
NothingUnseen ==
  loop \in {"wait", "drainBackoff"} /\ listening /\ notified = {}
    => Queued \subseteq passed

IInv == TypeOK /\ InHand /\ NothingUnseen

LEMMA InitIInv == Init => IInv
BY DEF Init, IInv, TypeOK, InHand, NothingUnseen, Points, Queued

\* The steps of the web app and of time.  The notification of Enqueue reaches every
\* session that listens, so a new queued meeting never goes unannounced.
LEMMA QueueStep ==
  ASSUME IInv, NEW m \in Meetings,
         Enqueue(m) \/ HoldRow(m) \/ ReleaseRow(m) \/ Age(m)
  PROVE  IInv'
<1> USE DEF IInv, TypeOK, InHand, NothingUnseen, Points, Queued
<1>1. CASE Enqueue(m)
  BY <1>1 DEF Enqueue
<1>2. CASE HoldRow(m)
  BY <1>2 DEF HoldRow
<1>3. CASE ReleaseRow(m)
  BY <1>3 DEF ReleaseRow
<1>4. CASE Age(m)
  BY <1>4 DEF Age
<1>5. QED
  BY <1>1, <1>2, <1>3, <1>4

\* The steps of the process that end in a drain, in its back-off, or in sleep.
LEMMA DrainStep ==
  ASSUME IInv,
         \/ Listen \/ Drain \/ ClaimOne \/ ClaimNone \/ ClaimFails
         \/ Processed \/ ProcessFails \/ DrainBackoffOver \/ Wake \/ PollTimeout
  PROVE  IInv'
<1> USE DEF IInv, TypeOK, InHand, NothingUnseen, Points, Queued
<1>1. CASE Listen
  BY <1>1 DEF Listen, queue
<1>2. CASE Drain
  BY <1>2 DEF Drain, queue
<1>3. CASE ClaimOne
  BY <1>3 DEF ClaimOne, Claimable
<1>4. CASE ClaimNone
  BY <1>4 DEF ClaimNone, queue
<1>5. CASE ClaimFails
  BY <1>5 DEF ClaimFails, queue
<1>6. CASE Processed
  BY <1>6 DEF Processed
<1>7. CASE ProcessFails
  BY <1>7 DEF ProcessFails, queue
<1>8. CASE DrainBackoffOver
  BY <1>8 DEF DrainBackoffOver, queue
<1>9. CASE Wake
  BY <1>9 DEF Wake, queue
<1>10. CASE PollTimeout
  BY <1>10 DEF PollTimeout, queue
<1>11. QED
  BY <1>1, <1>2, <1>3, <1>4, <1>5, <1>6, <1>7, <1>8, <1>9, <1>10

\* The steps that open, lose or leave the session.
LEMMA SessionStep ==
  ASSUME IInv,
         \/ Start \/ Connect \/ ListenFails \/ DeathNoticed
         \/ SessionDies \/ Stop \/ Leave \/ Crash
  PROVE  IInv'
<1> USE DEF IInv, TypeOK, InHand, NothingUnseen, Points, Queued
<1>1. CASE Start
  BY <1>1 DEF Start, queue
<1>2. CASE Connect
  BY <1>2 DEF Connect, queue
<1>3. CASE ListenFails
  BY <1>3 DEF ListenFails, queue
<1>4. CASE DeathNoticed
  BY <1>4 DEF DeathNoticed, queue
<1>5. CASE SessionDies
  BY <1>5 DEF SessionDies, queue
<1>6. CASE Stop
  BY <1>6 DEF Stop, queue
<1>7. CASE Leave
  BY <1>7 DEF Leave, queue
<1>8. CASE Crash
  BY <1>8 DEF Crash, queue
<1>9. QED
  BY <1>1, <1>2, <1>3, <1>4, <1>5, <1>6, <1>7, <1>8

LEMMA Stutter == IInv /\ UNCHANGED vars => IInv'
BY DEF IInv, TypeOK, InHand, NothingUnseen, Queued, vars

LEMMA Inductive == Spec => []IInv
<1>1. IInv /\ [Next]_vars => IInv'
  <2>1. ASSUME IInv, Next PROVE IInv'
    BY <2>1, QueueStep, DrainStep, SessionStep DEF Next, LoopStep, Fault, Request
  <2>2. QED
    BY <2>1, Stutter
<1>2. QED
  BY <1>1, InitIInv, PTL DEF Spec

\* No notification is lost: while the loop sleeps on a live session with nothing on
\* its way, every queued meeting was seen and left behind by the drain before.
THEOREM WakeupsKept == Spec => []NoLostWakeup
<1>1. IInv => NoLostWakeup
  BY DEF IInv, NothingUnseen, NoLostWakeup
<1>2. QED
  BY <1>1, Inductive, PTL

\* The loop's state is well formed, and no claim takes a row that a statement of
\* the web app holds.
THEOREM LoopTypeCorrect == Spec => []TypeOK
<1>1. IInv => TypeOK
  BY DEF IInv
<1>2. QED
  BY <1>1, Inductive, PTL
=============================================================================
