---------------------------- MODULE UploadRequest ----------------------------
(***************************************************************************)
(* createPendingMeetingFromUpload: one multipart request, streamed to disk *)
(* while it arrives, then queued.  Parser, file write and client run       *)
(* concurrently; the promise settles once.  An upload has a directory of   *)
(* its own, named by a fresh meeting id.                                   *)
(*                                                                         *)
(* Answers are HTTP status codes, 0 stands for none yet.                   *)
(***************************************************************************)
EXTENDS Naturals

VARIABLES up,    \* the request's local variables and its point
          dir,   \* the directory: "none", "empty", "partial" or "whole"
          row    \* the meeting in the table: "absent", "active" or "ended"

\* "unhandled": a promise was rejected before anything waited for it, which
\* ends a Node process; "killed": the process ended for another reason.
UploadPoints == {"off", "receiving", "settling", "enqueue", "cleanup",
                 "answered", "unhandled", "killed"}

Writes == {"none", "mkdir", "stream", "flush", "rename", "stored", "failed"}

Errors == {0, 400, 499, 500}

Answers == {0, 200, 400, 413, 499, 500}

UploadType ==
  [at : UploadPoints, files : 0 .. 1, fields : 0 .. 1,
   error : Errors, write : Writes, truncated : BOOLEAN,
   answer : Answers, cleared : BOOLEAN]

NoUpload == [at |-> "off", files |-> 0, fields |-> 0, error |-> 0,
             write |-> "none", truncated |-> FALSE, answer |-> 0,
             cleared |-> TRUE]

UploadInit == up = NoUpload /\ dir = "none" /\ row = "absent"

\* The request arrives; one that is no multipart form is refused at once.
RequestArrives ==
  /\ up' \in {[NoUpload EXCEPT !.at = "receiving"],
              [NoUpload EXCEPT !.at = "cleanup", !.answer = 400]}
  /\ dir' = "none" /\ UNCHANGED row

\* fail: the first error is kept.
Failed(u, code) == IF u.error = 0 THEN [u EXCEPT !.error = code] ELSE u

\* Variant: no limit on the number of files.
FilePartUnlimited ==
  /\ up.at = "receiving"
  /\ up' \in {[up EXCEPT !.files = @ + 1, !.write = "mkdir"],
              [Failed(up, 400) EXCEPT !.files = @ + 1]}
  /\ UNCHANGED <<dir, row>>

\* A file part: its field, name and extension are accepted or not; a second one
\* is over the limit.
FilePart ==
  /\ up.at = "receiving"
  /\ IF up.files = 1 THEN up' = Failed(up, 400)
     ELSE up' \in {[up EXCEPT !.files = 1, !.write = "mkdir"],
                   [Failed(up, 400) EXCEPT !.files = 1]}
  /\ UNCHANGED <<dir, row>>

\* A field: a known language or not; a second one is over the limit.
FieldPart ==
  /\ up.at = "receiving"
  /\ IF up.fields = 1 THEN up' = Failed(up, 400)
     ELSE up' \in {[up EXCEPT !.fields = 1], [Failed(up, 400) EXCEPT !.fields = 1]}
  /\ UNCHANGED <<dir, row>>

\* The parser has passed the file's data on, up to the size limit.
FileEnds ==
  /\ up.at = "receiving" /\ up.write = "stream"
  /\ \E truncated \in BOOLEAN :
       up' = [up EXCEPT !.write = "flush", !.truncated = truncated]
  /\ UNCHANGED <<dir, row>>

\* The parser closes when the form is complete and its file was read.
FormEnds ==
  /\ up.at = "receiving" /\ up.write \notin {"mkdir", "stream"}
  /\ up' = [up EXCEPT !.at = "settling"]
  /\ UNCHANGED <<dir, row>>

\* The client leaves (499), or the form or the connection breaks (500): the
\* parser is destroyed, which closes it.  Once it has closed only the error is
\* noted, and that counts until the promise has settled.  A file that is being
\* parsed is destroyed with the parser; while nothing reads it (it was refused,
\* or its directory is still being made) nobody listens for its error either.
ConnectionBreaks ==
  /\ \/ /\ up.at \in {"receiving", "settling"}
        /\ \E code \in {499, 500} : up' = [Failed(up, code) EXCEPT !.at = "settling"]
     \/ /\ up.at = "receiving" /\ up.files = 1 /\ up.write \in {"none", "mkdir"}
        /\ up' = [up EXCEPT !.at = "unhandled"]
  /\ UNCHANGED <<dir, row>>

-----------------------------------------------------------------------------
\* The write goes on by itself, whatever becomes of the request.
ServerIsUp == up.at \notin {"off", "unhandled", "killed"}

\* The write's promise is rejected.  Promise.all waits for it from the close of
\* the parser on; before, nobody does.
WriteFails(code) ==
  up' = IF up.at = "receiving" THEN [up EXCEPT !.at = "unhandled"]
        ELSE [up EXCEPT !.write = "failed", !.answer = IF @ = 0 THEN code ELSE @]

MakesDirectory ==
  /\ ServerIsUp /\ up.write = "mkdir"
  /\ \/ dir' = "partial" /\ up' = [up EXCEPT !.write = "stream"]
     \/ dir' = "none" /\ WriteFails(500)
  /\ UNCHANGED row

\* The disk fails, or the parser was destroyed and its file with it.
StreamFails ==
  /\ ServerIsUp /\ up.write \in {"stream", "flush"}
  /\ WriteFails(500)
  /\ UNCHANGED <<dir, row>>

\* After the parser was destroyed the file cannot end any more.
BrokenStreamFails == up.at = "settling" /\ up.write = "stream" /\ StreamFails

\* pipeline resolves; a recording over the limit is refused.
StreamEnds ==
  /\ ServerIsUp /\ up.write = "flush"
  /\ IF up.truncated THEN WriteFails(413) ELSE up' = [up EXCEPT !.write = "rename"]
  /\ UNCHANGED <<dir, row>>

Renames ==
  /\ ServerIsUp /\ up.write = "rename"
  /\ \/ dir' = "whole" /\ up' = [up EXCEPT !.write = "stored"]
     \/ UNCHANGED dir /\ WriteFails(500)
  /\ UNCHANGED row

-----------------------------------------------------------------------------
\* Variant: a form known to be wrong is refused without waiting for its file.
WriteSettledEarly(u) == u.error # 0 \/ u.write \in {"none", "stored", "failed"}

\* Variant: a failed write rejects nothing.
WriteSettledStuck(u) == u.write \in {"none", "stored"}

WriteSettled(u) == u.write \in {"none", "stored", "failed"}

\* Variant: errors noted while the form was read are forgotten.
SettledAsForgetful(u) ==
  CASE u.write = "failed" -> [u EXCEPT !.at = "cleanup"]
    [] u.write = "none" -> [u EXCEPT !.at = "cleanup", !.answer = 400]
    [] OTHER -> [u EXCEPT !.at = "enqueue"]

\* Promise.all(fileWrites), then what the form was.
SettledAs(u) ==
  CASE u.write = "failed" -> [u EXCEPT !.at = "cleanup"]
    [] u.write # "failed" /\ u.error # 0 ->
         [u EXCEPT !.at = "cleanup", !.answer = u.error]
    [] u.write = "none" /\ u.error = 0 ->
         [u EXCEPT !.at = "cleanup", !.answer = 400]
    [] OTHER -> [u EXCEPT !.at = "enqueue"]

Settles ==
  /\ up.at = "settling" /\ WriteSettled(up)
  /\ up' = SettledAs(up)
  /\ UNCHANGED <<dir, row>>

\* Insert and notify are one transaction.  Its answer may be lost.
Enqueues ==
  /\ up.at = "enqueue"
  /\ \/ row' = "active" /\ up' = [up EXCEPT !.at = "answered", !.answer = 200]
     \/ row' \in {"absent", "active"}
        /\ up' = [up EXCEPT !.at = "cleanup", !.answer = 500]
  /\ UNCHANGED dir

\* The directory is removed if possible; the upload's own error is answered.
CleansUp ==
  /\ up.at = "cleanup"
  /\ \/ dir' = "none" /\ up' = [up EXCEPT !.at = "answered"]
     \/ dir # "none" /\ UNCHANGED dir
        /\ up' = [up EXCEPT !.at = "answered", !.cleared = FALSE]
  /\ UNCHANGED row

\* Between two requests the process may die too, but nothing is lost then.
ServerIsKilled ==
  /\ up.at \in {"receiving", "settling", "enqueue", "cleanup"}
  /\ up' = [up EXCEPT !.at = "killed"]
  /\ UNCHANGED <<dir, row>>

ServerWorks ==
  \/ MakesDirectory \/ BrokenStreamFails \/ StreamEnds \/ Renames
  \/ Settles \/ Enqueues \/ CleansUp

ClientSends == FilePart \/ FieldPart \/ FileEnds \/ FormEnds

UploadStep == ServerWorks \/ ClientSends \/ ConnectionBreaks \/ StreamFails \/ ServerIsKilled

-----------------------------------------------------------------------------
\* A queued meeting has the whole of the recording that was sent, unless the
\* answer to its insert was lost and the upload cleared away (see the findings
\* of MeetingPipeline on what becomes of such a meeting).
QueuedMeetingHasRecording ==
  row # "absent" => \/ dir = "whole" /\ ~up.truncated /\ up.error = 0
                    \/ up.at \in {"cleanup", "killed"} /\ up.answer = 500
                    \/ up.at = "answered" /\ up.answer = 500

\* A refused upload leaves nothing on the disk, and what is still being written
\* does not come back after the directory was removed.
RefusedUploadLeavesNothing ==
  (up.at = "answered" /\ up.answer # 200 /\ up.cleared) =>
     dir = "none" /\ up.write \in {"none", "stored", "failed"}

\* A recording over the limit is refused with 413 and its partial file removed,
\* if it can be (meetings-upload.server.test.ts: "rejects oversized recordings
\* and removes partial files").
OversizedUploadIsRefused ==
  (up.truncated /\ up.error = 0) =>
     /\ up.at # "unhandled"
     /\ up.at = "answered" => up.answer \in {413, 500}
=============================================================================
