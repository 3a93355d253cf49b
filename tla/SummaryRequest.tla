---------------------------- MODULE SummaryRequest ----------------------------
(***************************************************************************)
(* OpenRouterSummarizer.summarize: one request to the language model, a    *)
(* few more when it fails for a passing reason, and the validation of the  *)
(* answer.  HTTP status codes are numbers, 0 is a transport error or a     *)
(* time-out.                                                               *)
(***************************************************************************)
EXTENDS Integers, Sequences, SequencesExt

CONSTANTS Delays,   \* _RETRY_DELAYS_SECONDS
          Codes     \* what a request may come back with

ASSUME SummaryAssumption == Delays \in Seq(Nat) /\ Codes \subseteq Nat

VARIABLE req   \* the call's local variables, what it did (history), its point

SummaryKinds == {"summarization_failed", "config_missing"}

RequestPoints == {"off", "begin", "request", "sleep", "done"} \union SummaryKinds

OwnerKinds == {"name", "speaker", "unknown"}

\* The `value` of an owner: not there, null, blank, SPEAKER_NN, or other text.
OwnerValues == {"absent", "null", "blank", "label", "text"}

\* A 200 answer: its message holds a JSON object or not, all texts in it are
\* filled in or not, and it has an action item with this owner.
Answers == [object : BOOLEAN, filled : BOOLEAN, kind : OwnerKinds, value : OwnerValues]

NoRequest == [at |-> "off", attempt |-> 0, sent |-> 0, slept |-> << >>,
              answered |-> FALSE]

RequestType ==
  [at : RequestPoints, attempt : 0 .. Len(Delays), sent : 0 .. Len(Delays) + 1,
   slept : {SubSeq(Delays, 1, n) : n \in 0 .. Len(Delays)},
   answered : BOOLEAN]

\* No key or model configured, or no transcript.
Checked ==
  /\ req.at = "begin"
  /\ \E at \in {"request"} \union SummaryKinds : req' = [req EXCEPT !.at = at]

\* Variant: what the provider refuses for good is tried again as well.
IsTransientToo(code) == code \in {0, 403, 408, 429} \/ code \in 500 .. 599

\* httpx.HTTPError and _is_retryable_status
IsTransient(code) == code \in {0, 408, 429} \/ code \in 500 .. 599

\* The provider has decided about the request.
IsAnswer(code) == code > 0 /\ code \notin {408, 429} \union 500 .. 599

\* Variant: the attempts are counted from one.
ExhaustedEarly == req.attempt + 1 >= Len(Delays)

Exhausted == req.attempt >= Len(Delays)

\* Blank values of "name" and "speaker", a speaker that is no label, and any
\* value of "unknown", null included, are refused.
OwnerIsValid(kind, value) ==
  CASE kind = "name"    -> value \in {"label", "text"}
    [] kind = "speaker" -> value = "label"
    [] kind = "unknown" -> value = "absent"

\* _extract_message_content, _load_json_object, _to_summary_draft
Accepted(answer) ==
  answer.object /\ answer.filled /\ OwnerIsValid(answer.kind, answer.value)

\* One request and what comes of it.
Requested ==
  /\ req.at = "request"
  /\ \E code \in Codes :
       LET sent == [req EXCEPT !.sent = @ + 1, !.answered = IsAnswer(code)] IN
       \/ /\ IsTransient(code)
          /\ req' = [sent EXCEPT !.at = IF Exhausted THEN "summarization_failed"
                                                     ELSE "sleep"]
       \/ code \in {401, 403} /\ req' = [sent EXCEPT !.at = "config_missing"]
       \/ /\ code >= 400 /\ code \notin {401, 403} /\ ~IsTransient(code)
          /\ req' = [sent EXCEPT !.at = "summarization_failed"]
       \/ /\ code \in 1 .. 399
          /\ \E answer \in Answers :
               req' = [sent EXCEPT !.at = IF Accepted(answer) THEN "done"
                                          ELSE "summarization_failed"]

Slept ==
  /\ req.at = "sleep"
  /\ req' = [req EXCEPT !.at = "request", !.attempt = @ + 1,
                        !.slept = Append(@, Delays[req.attempt + 1])]

SummarizeStep == Checked \/ Requested \/ Slept

-----------------------------------------------------------------------------
\* Once the provider has given its answer, good or bad, it is not asked again:
\* no answer is paid for twice, and a refusal (ADR 0007: only transient errors
\* are retried) is reported at once.
AnswerIsFinal == [][req.answered => req'.sent <= req.sent]_req

\* A passing failure is reported only when every delay has been waited out, in
\* order, each between two requests.
GivesUpLate ==
  /\ req.at = "request" => Len(req.slept) = req.sent
  /\ (req.at = "summarization_failed" /\ req.sent > 0 /\ ~req.answered)
       => req.slept = Delays /\ req.sent = Len(Delays) + 1
=============================================================================
