----------------------------- MODULE WebAppProofs -----------------------------
(***************************************************************************)
(* The pages of the web app, for every behaviour of WebApp.                *)
(*                                                                         *)
(* The list of meetings and the upload made from it: what an upload leaves *)
(* behind, in every order of its parser, its file write, its client and    *)
(* the server's end; and that the list, which three fetches write, never   *)
(* loses the meeting it made.                                              *)
(*                                                                         *)
(* The page of one meeting, for any number of summary versions: what four  *)
(* statements that are no snapshot make a page show, what its notice says, *)
(* and what becomes of a title or a name that is edited while the page is  *)
(* refreshed under it.  At the end, the types of the whole web app.        *)
(***************************************************************************)
EXTENDS WebApp, TLAPS

-----------------------------------------------------------------------------
(* The upload.                                                              *)

\* The values the steps assign are in the types of their fields.
LEMMA Values ==
  /\ "receiving" \in UploadPoints /\ "settling" \in UploadPoints
  /\ "enqueue" \in UploadPoints /\ "cleanup" \in UploadPoints
  /\ "answered" \in UploadPoints /\ "unhandled" \in UploadPoints
  /\ "killed" \in UploadPoints
  /\ "mkdir" \in Writes /\ "stream" \in Writes /\ "flush" \in Writes
  /\ "rename" \in Writes /\ "stored" \in Writes /\ "failed" \in Writes
  /\ 400 \in Errors /\ 499 \in Errors /\ 500 \in Errors
  /\ 200 \in Answers /\ 400 \in Answers /\ 413 \in Answers /\ 500 \in Answers
  /\ 1 \in 0 .. 1 /\ FALSE \in BOOLEAN
BY DEF UploadPoints, Writes, Errors, Answers

\* No upload yet.
LEMMA NoUploadFacts ==
  /\ NoUpload \in UploadType /\ NoUpload.at = "off" /\ NoUpload.error = 0
  /\ NoUpload.write = "none" /\ NoUpload.truncated = FALSE
  /\ NoUpload.answer = 0 /\ NoUpload.cleared = TRUE
BY DEF NoUpload, UploadType, UploadPoints, Writes, Errors, Answers

(* What each assignment to one of the request's variables sets and keeps.   *)

\* A step moves the request on.
LEMMA SetsPoint ==
  ASSUME NEW u \in UploadType, NEW point \in UploadPoints
  PROVE  LET n == [u EXCEPT !.at = point]
         IN /\ n \in UploadType
            /\ n.at = point /\ n.error = u.error /\ n.write = u.write
            /\ n.truncated = u.truncated /\ n.answer = u.answer /\ n.cleared = u.cleared
<1>1. [u EXCEPT !.at = point] \in UploadType
  BY Zenon DEF UploadType
<1> QED
  BY <1>1, SMT DEF UploadType

\* An error is noted.
LEMMA NotesError ==
  ASSUME NEW u \in UploadType, NEW code \in Errors
  PROVE  LET n == [u EXCEPT !.error = code]
         IN /\ n \in UploadType
            /\ n.at = u.at /\ n.error = code /\ n.write = u.write
            /\ n.truncated = u.truncated /\ n.answer = u.answer /\ n.cleared = u.cleared
<1>1. [u EXCEPT !.error = code] \in UploadType
  BY Zenon DEF UploadType
<1> QED
  BY <1>1, SMT DEF UploadType

\* A file was seen.
LEMMA SetsFiles ==
  ASSUME NEW u \in UploadType, NEW count \in 0 .. 1
  PROVE  LET n == [u EXCEPT !.files = count]
         IN /\ n \in UploadType
            /\ n.at = u.at /\ n.error = u.error /\ n.write = u.write
            /\ n.truncated = u.truncated /\ n.answer = u.answer /\ n.cleared = u.cleared
<1>1. [u EXCEPT !.files = count] \in UploadType
  BY Zenon DEF UploadType
<1> QED
  BY <1>1, SMT DEF UploadType

\* A field is read.
LEMMA SetsFields ==
  ASSUME NEW u \in UploadType, NEW count \in 0 .. 1
  PROVE  LET n == [u EXCEPT !.fields = count]
         IN /\ n \in UploadType
            /\ n.at = u.at /\ n.error = u.error /\ n.write = u.write
            /\ n.truncated = u.truncated /\ n.answer = u.answer /\ n.cleared = u.cleared
<1>1. [u EXCEPT !.fields = count] \in UploadType
  BY Zenon DEF UploadType
<1> QED
  BY <1>1, SMT DEF UploadType

\* A write goes on.
LEMMA SetsWrite ==
  ASSUME NEW u \in UploadType, NEW write \in Writes
  PROVE  LET n == [u EXCEPT !.write = write]
         IN /\ n \in UploadType
            /\ n.at = u.at /\ n.error = u.error /\ n.write = write
            /\ n.truncated = u.truncated /\ n.answer = u.answer /\ n.cleared = u.cleared
<1>1. [u EXCEPT !.write = write] \in UploadType
  BY Zenon DEF UploadType
<1> QED
  BY <1>1, SMT DEF UploadType

\* A request is answered.
LEMMA SetsAnswer ==
  ASSUME NEW u \in UploadType, NEW point \in UploadPoints, NEW code \in Answers
  PROVE  [u EXCEPT !.at = point, !.answer = code] \in UploadType
BY Zenon DEF UploadType

\* From the insert on nothing is being written, and only a recording that was
\* stored whole, in a form without an error, gets there.
UploadSound ==
  /\ up.write \in {"rename", "stored"} => ~up.truncated
  /\ (up.at \in {"receiving", "settling", "enqueue"} /\ up.write = "stored")
       => dir = "whole"
  /\ up.at = "enqueue" => up.write = "stored" /\ up.error = 0
  /\ up.at \in {"cleanup", "answered"} => WriteSettled(up)
  /\ (up.at = "answered" /\ up.answer # 200 /\ up.cleared) => dir = "none"
  /\ row # "absent" =>
       /\ up.at \in {"cleanup", "killed", "answered"} /\ up.write = "stored"
       /\ \/ up.answer = 500
          \/ up.at = "answered" /\ dir = "whole" /\ ~up.truncated /\ up.error = 0

UploadInv == up \in UploadType /\ UploadSound

\* The invariant is about the upload alone.
UploadUntouched == UNCHANGED <<up, dir, row>>

\* So a step that leaves the upload alone keeps it.
LEMMA UntouchedKeeps == ASSUME UploadInv, UploadUntouched PROVE UploadInv'
BY DEF UploadInv, UploadSound, UploadUntouched, WriteSettled

\* It holds before any upload.
LEMMA UploadStart == ASSUME UploadInit PROVE UploadInv
BY NoUploadFacts DEF UploadInit, UploadInv, UploadSound

\* fail keeps the first error and changes nothing else.
LEMMA FailedFacts ==
  ASSUME NEW u \in UploadType, NEW code \in {400, 499, 500}
  PROVE  LET n == Failed(u, code)
         IN /\ n \in UploadType
            /\ n.at = u.at /\ n.write = u.write /\ n.truncated = u.truncated
            /\ n.answer = u.answer /\ n.cleared = u.cleared
            /\ u.error # 0 => n.error = u.error
<1>1. CASE u.error = 0
  BY <1>1, NotesError, Values DEF Failed
<1>2. CASE u.error # 0
  BY <1>2 DEF Failed
<1> QED
  BY <1>1, <1>2

\* The parser's steps leave a request that was being received where it was, and
\* finish no write.
LEMMA ReceivingKeeps ==
  ASSUME UploadInv, up.at \in {"receiving", "settling"}, UNCHANGED <<dir, row>>,
         up' \in UploadType, up'.at \in {"receiving", "settling", "unhandled"},
         \/ up'.write = up.write /\ up'.truncated = up.truncated
         \/ up'.write \in {"mkdir", "flush"}
  PROVE  UploadInv'
BY DEF UploadInv, UploadSound, WriteSettled

\* A new upload, while none has made a meeting yet.
LEMMA ArrivalKeeps ==
  ASSUME UploadInv, RequestArrives, row = "absent"
  PROVE  UploadInv'
<1>1. CASE up' = [NoUpload EXCEPT !.at = "receiving"]
  <2>1. /\ up' \in UploadType /\ up'.at = "receiving"
        /\ up'.write = "none"
    BY <1>1, SetsPoint, NoUploadFacts, Values
  <2> QED
    BY <2>1 DEF RequestArrives, UploadInv, UploadSound
<1>2. CASE up' = [NoUpload EXCEPT !.at = "cleanup", !.answer = 400]
  <2>1. /\ up' \in UploadType /\ up'.at = "cleanup"
        /\ up'.write = "none"
    <3>1. "cleanup" \in UploadPoints /\ 400 \in Answers
      BY Values
    <3>2. NoUpload \in UploadType
      BY NoUploadFacts
    <3>3. [NoUpload EXCEPT !.at = "cleanup", !.answer = 400] \in UploadType
      BY <3>1, <3>2, SetsAnswer, ZenonT(30)
    <3> QED
      BY <1>2, <3>3, NoUploadFacts, SMT DEF UploadType
  <2> QED
    BY <2>1 DEF RequestArrives, UploadInv, UploadSound, WriteSettled
<1> QED
  BY <1>1, <1>2 DEF RequestArrives

\* What the client sends, and a connection that breaks.
LEMMA ClientKeeps ==
  ASSUME UploadInv, ClientSends \/ ConnectionBreaks
  PROVE  UploadInv'
<1> up \in UploadType
  BY DEF UploadInv
<1> DEFINE failed == Failed(up, 400)
<1>1. /\ failed \in UploadType /\ failed.at = up.at
      /\ failed.write = up.write /\ failed.truncated = up.truncated
  BY FailedFacts
<1>2. CASE FilePart
  <2>1. up.at = "receiving" /\ UNCHANGED <<dir, row>>
    BY <1>2 DEF FilePart
  <2>2. CASE up' = failed
    BY <1>1, <2>1, <2>2, ReceivingKeeps
  <2>3. CASE up' = [up EXCEPT !.files = 1, !.write = "mkdir"]
    <3>1. up' \in UploadType /\ up'.at = up.at /\ up'.write = "mkdir"
      <4>1. 1 \in 0 .. 1 /\ "mkdir" \in Writes
        BY Values
      <4>2. [up EXCEPT !.files = 1, !.write = "mkdir"] \in UploadType
        BY <4>1, Zenon DEF UploadType
      <4> QED
        BY <2>3, <4>2, SMT DEF UploadType
    <3> QED
      BY <2>1, <3>1, ReceivingKeeps
  <2>4. CASE up' = [failed EXCEPT !.files = 1]
    <3>1. /\ up' \in UploadType /\ up'.at = failed.at
          /\ up'.write = failed.write /\ up'.truncated = failed.truncated
      <4> HIDE DEF failed
      <4> QED
        BY <1>1, <2>4, SetsFiles, Values, ZenonT(30)
    <3> QED
      BY <1>1, <2>1, <3>1, ReceivingKeeps
  <2> QED
    BY <1>2, <2>2, <2>3, <2>4 DEF FilePart
<1>3. CASE FieldPart
  <2>1. up.at = "receiving" /\ UNCHANGED <<dir, row>>
    BY <1>3 DEF FieldPart
  <2>2. CASE up' = failed
    BY <1>1, <2>1, <2>2, ReceivingKeeps
  <2>3. CASE up' = [up EXCEPT !.fields = 1]
    <3>1. /\ up' \in UploadType /\ up'.at = up.at
          /\ up'.write = up.write /\ up'.truncated = up.truncated
      BY <2>3, SetsFields, Values, ZenonT(30)
    <3> QED
      BY <2>1, <3>1, ReceivingKeeps
  <2>4. CASE up' = [failed EXCEPT !.fields = 1]
    <3>1. /\ up' \in UploadType /\ up'.at = failed.at
          /\ up'.write = failed.write /\ up'.truncated = failed.truncated
      <4> HIDE DEF failed
      <4> QED
        BY <1>1, <2>4, SetsFields, Values, ZenonT(30)
    <3> QED
      BY <1>1, <2>1, <3>1, ReceivingKeeps
  <2> QED
    BY <1>3, <2>2, <2>3, <2>4 DEF FieldPart
<1>4. CASE FileEnds
  <2>1. up.at = "receiving" /\ UNCHANGED <<dir, row>>
    BY <1>4 DEF FileEnds
  <2>2. PICK truncated \in BOOLEAN :
          up' = [up EXCEPT !.write = "flush", !.truncated = truncated]
    BY <1>4 DEF FileEnds
  <2>3. up' \in UploadType /\ up'.at = up.at /\ up'.write = "flush"
    <3>1. "flush" \in Writes
      BY Values
    <3>2. [up EXCEPT !.write = "flush", !.truncated = truncated] \in UploadType
      BY <3>1, Zenon DEF UploadType
    <3> QED
      BY <2>2, <3>2, SMT DEF UploadType
  <2> QED
    BY <2>1, <2>3, ReceivingKeeps
<1>5. CASE FormEnds
  <2>1. /\ up.at = "receiving" /\ UNCHANGED <<dir, row>>
        /\ up' = [up EXCEPT !.at = "settling"]
    BY <1>5 DEF FormEnds
  <2>2. /\ up' \in UploadType /\ up'.at = "settling"
        /\ up'.write = up.write /\ up'.truncated = up.truncated
    BY <2>1, SetsPoint, Values
  <2> QED
    BY <2>1, <2>2, ReceivingKeeps
<1>6. CASE ConnectionBreaks
  <2>1. up.at \in {"receiving", "settling"} /\ UNCHANGED <<dir, row>>
    BY <1>6 DEF ConnectionBreaks
  <2>2. CASE up' = [up EXCEPT !.at = "unhandled"]
    <3>1. /\ up' \in UploadType /\ up'.at = "unhandled"
          /\ up'.write = up.write /\ up'.truncated = up.truncated
      BY <2>2, SetsPoint, Values
    <3> QED
      BY <2>1, <3>1, ReceivingKeeps
  <2>3. ASSUME NEW code \in {499, 500},
               up' = [Failed(up, code) EXCEPT !.at = "settling"]
        PROVE  UploadInv'
    <3> DEFINE broken == Failed(up, code)
    <3>1. /\ broken \in UploadType
          /\ broken.write = up.write /\ broken.truncated = up.truncated
      BY FailedFacts
    <3>2. /\ up' \in UploadType /\ up'.at = "settling"
          /\ up'.write = broken.write /\ up'.truncated = broken.truncated
      <4>1. up' = [broken EXCEPT !.at = "settling"]
        BY <2>3
      <4> HIDE DEF broken
      <4> QED
        BY <3>1, <4>1, SetsPoint, Values
    <3> QED
      BY <2>1, <3>1, <3>2, ReceivingKeeps
  <2> QED
    BY <1>6, <2>2, <2>3 DEF ConnectionBreaks
<1> QED
  BY <1>2, <1>3, <1>4, <1>5, <1>6 DEF ClientSends

\* While a file is being written its meeting is not queued and nothing was
\* cleared away.
LEMMA Writing ==
  ASSUME UploadInv, up.write \in {"mkdir", "stream", "flush", "rename"}
  PROVE  row = "absent" /\ up.at \notin {"enqueue", "cleanup", "answered"}
BY DEF UploadInv, UploadSound, WriteSettled

\* A failing write never gets where its file would count.
LEMMA WriteFailsKeeps ==
  ASSUME UploadInv, NEW code \in {413, 500}, WriteFails(code),
         up.write \in {"mkdir", "stream", "flush", "rename"},
         UNCHANGED row
  PROVE  UploadInv'
<1> up \in UploadType
  BY DEF UploadInv
<1>1. row' = "absent" /\ up.at \notin {"enqueue", "cleanup", "answered"}
  BY Writing
<1>2. CASE up' = [up EXCEPT !.at = "unhandled"]
  <2>1. /\ up' \in UploadType /\ up'.at = "unhandled"
        /\ up'.write = up.write /\ up'.truncated = up.truncated
    BY <1>2, SetsPoint, Values
  <2> QED
    BY <1>1, <2>1 DEF UploadInv, UploadSound
<1>3. ASSUME NEW answer \in {code, up.answer},
             up' = [up EXCEPT !.write = "failed", !.answer = answer]
      PROVE  UploadInv'
  <2>1. answer \in Answers
    BY Values DEF Answers, UploadType
  <2>2. up' \in UploadType /\ up'.at = up.at /\ up'.write = "failed"
    <3>1. "failed" \in Writes
      BY Values
    <3>2. [up EXCEPT !.write = "failed", !.answer = answer] \in UploadType
      BY <2>1, <3>1, ZenonT(30) DEF UploadType
    <3> QED
      BY <1>3, <2>1, <3>2, SMT DEF UploadType
  <2> QED
    BY <1>1, <2>2 DEF UploadInv, UploadSound
<1>4. \/ up' = [up EXCEPT !.at = "unhandled"]
      \/ \E answer \in {code, up.answer} :
           up' = [up EXCEPT !.write = "failed", !.answer = answer]
  BY DEF WriteFails
<1> QED
  BY <1>2, <1>3, <1>4

\* A write that goes on; only the rename completes it.
LEMMA WriteGoesOn ==
  ASSUME UploadInv, UNCHANGED row, NEW write \in Writes,
         up.write \in {"mkdir", "stream", "flush", "rename"},
         up' = [up EXCEPT !.write = write],
         write \in {"rename", "stored"} => ~up.truncated,
         write = "stored" => dir' = "whole"
  PROVE  UploadInv'
<1>1. /\ up' \in UploadType /\ up'.at = up.at /\ up'.write = write
      /\ up'.truncated = up.truncated
  BY SetsWrite DEF UploadInv
<1>2. row' = "absent" /\ up.at \notin {"enqueue", "cleanup", "answered"}
  BY Writing
<1> QED
  BY <1>1, <1>2 DEF UploadInv, UploadSound

\* The steps of the write, successful or not.
LEMMA WriteKeeps ==
  ASSUME UploadInv, MakesDirectory \/ StreamFails \/ StreamEnds \/ Renames
  PROVE  UploadInv'
<1>1. CASE MakesDirectory
  BY <1>1, WriteFailsKeeps, WriteGoesOn, Values DEF MakesDirectory
<1>2. CASE StreamFails
  BY <1>2, WriteFailsKeeps DEF StreamFails
<1>3. CASE StreamEnds
  BY <1>3, WriteFailsKeeps, WriteGoesOn, Values DEF StreamEnds
<1>4. CASE Renames
  <2>1. up.write = "rename" /\ ~up.truncated /\ UNCHANGED row
    BY <1>4 DEF Renames, UploadInv, UploadSound
  <2>2. CASE dir' = "whole" /\ up' = [up EXCEPT !.write = "stored"]
    BY <2>1, <2>2, WriteGoesOn, Values
  <2>3. CASE WriteFails(500)
    BY <2>1, <2>3, WriteFailsKeeps
  <2> QED
    BY <1>4, <2>2, <2>3 DEF Renames
<1> QED
  BY <1>1, <1>2, <1>3, <1>4

\* Where a request goes when its write has settled.
LEMMA SettlesKeeps == ASSUME UploadInv, Settles PROVE UploadInv'
<1> up \in UploadType
  BY DEF UploadInv
<1>1. /\ up.at = "settling" /\ up.write \in {"none", "stored", "failed"}
      /\ up' = SettledAs(up) /\ row' = "absent" /\ UNCHANGED dir
  BY DEF Settles, WriteSettled, UploadInv, UploadSound
<1>2. CASE up' = [up EXCEPT !.at = "cleanup"]
  <2>1. /\ up' \in UploadType /\ up'.at = "cleanup" /\ up'.write = up.write
        /\ up'.truncated = up.truncated
    BY <1>2, SetsPoint, Values
  <2> QED
    BY <1>1, <2>1 DEF UploadInv, UploadSound, WriteSettled
<1>3. ASSUME NEW answer \in {400, up.error},
             up' = [up EXCEPT !.at = "cleanup", !.answer = answer]
      PROVE  UploadInv'
  <2>1. answer \in Answers
    BY DEF UploadType, Errors, Answers
  <2>2. /\ up' \in UploadType /\ up'.at = "cleanup" /\ up'.write = up.write
        /\ up'.truncated = up.truncated
    <3>1. "cleanup" \in UploadPoints
      BY Values
    <3>2. [up EXCEPT !.at = "cleanup", !.answer = answer] \in UploadType
      BY <2>1, <3>1, SetsAnswer, Zenon
    <3> QED
      BY <1>3, <2>1, <3>2, SMT DEF UploadType
  <2> QED
    BY <1>1, <2>2 DEF UploadInv, UploadSound, WriteSettled
<1>4. CASE /\ up.write = "stored" /\ up.error = 0
           /\ up' = [up EXCEPT !.at = "enqueue"]
  <2>1. /\ up' \in UploadType /\ up'.at = "enqueue" /\ up'.write = up.write
        /\ up'.truncated = up.truncated /\ up'.error = up.error
    BY <1>4, SetsPoint, Values
  <2> QED
    BY <1>1, <1>4, <2>1 DEF UploadInv, UploadSound
<1>5. CASE up.write = "failed"
  BY <1>1, <1>2, <1>5 DEF SettledAs
<1>6. CASE up.write # "failed" /\ up.error # 0
  BY <1>1, <1>3, <1>6 DEF SettledAs
<1>7. CASE up.write = "none" /\ up.error = 0
  BY <1>1, <1>3, <1>7 DEF SettledAs
<1>8. CASE up.write = "stored" /\ up.error = 0
  BY <1>1, <1>4, <1>8 DEF SettledAs
<1> QED
  BY <1>1, <1>5, <1>6, <1>7, <1>8

\* The row appears here; if the answer is lost, the error says so.
LEMMA EnqueuesKeeps == ASSUME UploadInv, Enqueues PROVE UploadInv'
<1> up \in UploadType
  BY DEF UploadInv
<1>1. /\ up.at = "enqueue" /\ up.write = "stored" /\ up.error = 0
      /\ ~up.truncated /\ dir' = "whole"
  BY DEF Enqueues, UploadInv, UploadSound
<1>2. CASE up' = [up EXCEPT !.at = "answered", !.answer = 200]
  <2>1. /\ up' \in UploadType /\ up'.at = "answered" /\ up'.write = up.write
        /\ up'.truncated = up.truncated /\ up'.error = up.error
        /\ up'.answer = 200
    <3>1. "answered" \in UploadPoints /\ 200 \in Answers
      BY Values
    <3>2. [up EXCEPT !.at = "answered", !.answer = 200] \in UploadType
      BY <3>1, SetsAnswer, Zenon
    <3> QED
      BY <1>2, <3>2, SMT DEF UploadType
  <2> QED
    BY <1>1, <2>1 DEF UploadInv, UploadSound, WriteSettled
<1>3. CASE up' = [up EXCEPT !.at = "cleanup", !.answer = 500]
  <2>1. /\ up' \in UploadType /\ up'.at = "cleanup" /\ up'.write = up.write
        /\ up'.truncated = up.truncated /\ up'.answer = 500
    <3>1. "cleanup" \in UploadPoints /\ 500 \in Answers
      BY Values
    <3>2. [up EXCEPT !.at = "cleanup", !.answer = 500] \in UploadType
      BY <3>1, SetsAnswer, ZenonT(30)
    <3> QED
      BY <1>3, <3>2, SMT DEF UploadType
  <2> QED
    BY <1>1, <2>1 DEF UploadInv, UploadSound, WriteSettled
<1> QED
  BY <1>2, <1>3 DEF Enqueues

\* After the cleanup no write is left, whether the directory went or not.
LEMMA CleansUpKeeps == ASSUME UploadInv, CleansUp PROVE UploadInv'
<1> up \in UploadType
  BY DEF UploadInv
<1>1. up.at = "cleanup" /\ UNCHANGED row
  BY DEF CleansUp
<1>2. CASE dir' = "none" /\ up' = [up EXCEPT !.at = "answered"]
  <2>1. /\ up' \in UploadType /\ up'.at = "answered" /\ up'.write = up.write
        /\ up'.truncated = up.truncated /\ up'.answer = up.answer
    BY <1>2, SetsPoint, Values
  <2> QED
    BY <1>1, <1>2, <2>1 DEF UploadInv, UploadSound, WriteSettled
<1>3. CASE up' = [up EXCEPT !.at = "answered", !.cleared = FALSE]
  <2>1. /\ up' \in UploadType /\ up'.at = "answered" /\ up'.write = up.write
        /\ up'.truncated = up.truncated /\ up'.answer = up.answer
        /\ up'.cleared = FALSE
    <3>1. "answered" \in UploadPoints
      BY Values
    <3>2. [up EXCEPT !.at = "answered", !.cleared = FALSE] \in UploadType
      BY <3>1, Zenon DEF UploadType
    <3> QED
      BY <1>3, <3>2, SMT DEF UploadType
  <2> QED
    BY <1>1, <2>1 DEF UploadInv, UploadSound, WriteSettled
<1> QED
  BY <1>2, <1>3 DEF CleansUp

\* A process that ends leaves everything as it is.
LEMMA KillKeeps == ASSUME UploadInv, ServerIsKilled PROVE UploadInv'
<1>1. up' \in UploadType /\ up'.at = "killed" /\ up'.write = up.write
      /\ up'.truncated = up.truncated /\ up'.answer = up.answer
  BY SetsPoint, Values DEF ServerIsKilled, UploadInv
<1> QED
  BY <1>1 DEF ServerIsKilled, UploadInv, UploadSound

\* What the tab, the worker and the other tabs do touches at most the row of a
\* meeting that is queued already.
LEMMA HomeKeeps == ASSUME UploadInv, HomeStep PROVE UploadInv'
<1>1. CASE UploadStep
  BY <1>1, ClientKeeps, WriteKeeps, SettlesKeeps, EnqueuesKeeps, CleansUpKeeps,
     KillKeeps
  DEF UploadStep, ServerWorks, BrokenStreamFails
<1>2. CASE SubmitRecording
  BY <1>2, ArrivalKeeps DEF SubmitRecording
<1>3. CASE MeetingEnds
  BY <1>3 DEF MeetingEnds, UploadInv, UploadSound, WriteSettled
<1>4. CASE UploadUntouched
  BY <1>4, UntouchedKeeps
<1>5. HomeStep => \/ UploadStep \/ SubmitRecording \/ MeetingEnds
                  \/ UploadUntouched
  BY DEF HomeStep, OpenUploadDialog, CloseUploadDialog, UploadAccepted,
         UploadRefused, UploadUnanswered, Reload, LoaderReads, LoaderLands,
         LoaderFails, PollTick, Reconnects, PollReads, PollLands, PollFails, OtherStarts,
         UploadUntouched
<1> QED
  BY <1>1, <1>2, <1>3, <1>4, <1>5

\* Whatever page the tab begins on.
LEMMA WebInit == Init => UploadInv
BY UploadStart DEF Init, HomeInit, HomeLeft

\* Only the steps of the list's page have to do with uploads.
LEMMA WebStep == UploadInv /\ [Next]_vars => UploadInv'
<1> SUFFICES ASSUME UploadInv, [Next]_vars PROVE UploadInv'
  OBVIOUS
<1>1. CASE HomeStep
  BY <1>1, HomeKeeps
<1>2. CASE UploadUntouched
  BY <1>2, UntouchedKeeps
<1>3. HomeStep \/ UploadUntouched
  BY DEF Next, vars, homeVars, UploadUntouched
<1> QED
  BY <1>1, <1>2, <1>3

\* The inductive invariant of an upload, from which QueuedCorrect and
\* RefusedCorrect follow.
THEOREM UploadInvariant == FairSpec => []UploadInv
BY WebInit, WebStep, PTL DEF FairSpec

-----------------------------------------------------------------------------
\* createPendingMeetingFromUpload: in whatever order its callbacks run, a queued
\* meeting has the whole of the recording that was sent, unless the answer to its
\* insert was lost.
THEOREM QueuedCorrect == FairSpec => []QueuedMeetingHasRecording
<1>1. UploadInv => QueuedMeetingHasRecording
  BY DEF UploadInv, UploadSound, QueuedMeetingHasRecording
<1> QED
  BY <1>1, UploadInvariant, PTL

\* An upload that was refused and cleared away leaves nothing on the disk, and no
\* write of its own is left to bring anything back.
THEOREM RefusedCorrect == FairSpec => []RefusedUploadLeavesNothing
<1>1. UploadInv => RefusedUploadLeavesNothing
  BY DEF UploadInv, UploadSound, RefusedUploadLeavesNothing, WriteSettled
<1> QED
  BY <1>1, UploadInvariant, PTL

-----------------------------------------------------------------------------
(* The list.                                                                *)

\* What the page knows of its upload.  An accepted upload is in the table, and so
\* is what the page lists or has fetched.  Once the meeting is listed, a fetch of
\* the poll that has been read contains it: when the loader's data put it in the
\* list, a fetch under way was cancelled.
HomeSound ==
  /\ dir \in {"none", "partial", "whole"} /\ row \in Progress /\ other \in Progress
  /\ list \in List /\ tab \in Tab /\ loader \in Fetch /\ poll \in Fetch
  /\ up.answer = 200 => row # "absent"
  /\ loader.at # "none" => row # "absent"
  /\ loader.at = "read" => loader.data.mine # "absent"
  /\ list.mine # "absent" => row # "absent"
  /\ poll.at = "read" /\ poll.data.mine # "absent" => row # "absent"
  /\ list.mine # "absent" /\ poll.at = "read" => poll.data.mine # "absent"
  /\ tab.broken => tab.fetcher = "idle" /\ poll.at = "none" /\ loader.at = "none"

\* The inductive invariant of the list's page.
HomeInv == UploadInv /\ HomeSound

\* What the page's fetches are, and what one statement on the table reads.
LEMMA FetchFacts ==
  /\ NoFetch \in Fetch /\ NoFetch.at = "none"
  /\ Asked \in Fetch /\ Asked.at = "asked"
  /\ \A l \in List : [at |-> "read", data |-> l] \in Fetch
  /\ row \in Progress /\ other \in Progress => Table \in List /\ Table.mine = row
  /\ FreshTab \in Tab /\ ~FreshTab.broken
BY Zenon DEF NoFetch, Asked, Fetch, List, Progress, Table, FreshTab, Tab

\* What each assignment to the tab sets and keeps.
LEMMA TabFacts ==
  ASSUME NEW t \in Tab
  PROVE  /\ \A x \in {"idle", "submitting", "loading"} :
              LET n == [t EXCEPT !.fetcher = x]
              IN  n \in Tab /\ n.fetcher = x /\ n.broken = t.broken
         /\ \A x \in BOOLEAN :
              LET n == [t EXCEPT !.dialog = x]
              IN  n \in Tab /\ n.fetcher = t.fetcher /\ n.broken = t.broken
         /\ LET n == [t EXCEPT !.broken = TRUE, !.fetcher = "idle"]
            IN  n \in Tab /\ n.fetcher = "idle"
         /\ LET n == [t EXCEPT !.fetcher = "idle", !.broken = TRUE]
            IN  n \in Tab /\ n.fetcher = "idle"
         /\ LET n == [t EXCEPT !.fetcher = "idle", !.dialog = FALSE]
            IN  n \in Tab /\ n.fetcher = "idle" /\ n.broken = t.broken
BY Zenon DEF Tab

\* Only the insert is answered with 200, and a row never goes.
LEMMA AnswersKeep ==
  ASSUME UploadInv, UploadStep
  PROVE  /\ row' \in {row, "absent", "active"} /\ (row # "absent" => row' = row)
         /\ dir' \in {dir, "none", "partial", "whole"}
         /\ up'.answer = 200 => up.answer = 200 \/ row' # "absent"
<1> up \in UploadType
  BY DEF UploadInv
<1>1. CASE ClientSends \/ ConnectionBreaks \/ ServerIsKilled
  <2>1. UNCHANGED <<dir, row>>
    BY <1>1 DEF ClientSends, FilePart, FieldPart, FileEnds, FormEnds, ConnectionBreaks,
                ServerIsKilled
  <2>2. up'.answer = up.answer
    <3> DEFINE f == Failed(up, 400)
    <3>1. f \in UploadType /\ f.answer = up.answer
      BY FailedFacts
    <3>2. CASE FilePart
      <4>1. \/ up' = f \/ up' = [f EXCEPT !.files = 1]
            \/ up' = [up EXCEPT !.files = 1, !.write = "mkdir"]
        BY <3>2 DEF FilePart
      <4> HIDE DEF f
      <4>2. CASE up' = f
        BY <3>1, <4>2
      <4>3. CASE up' = [f EXCEPT !.files = 1]
        BY <3>1, <4>3, SetsFiles, Values, ZenonT(30)
      <4>4. CASE up' = [up EXCEPT !.files = 1, !.write = "mkdir"]
        <5>1. [up EXCEPT !.files = 1, !.write = "mkdir"].answer = up.answer
          BY Zenon DEF UploadType
        <5> QED
          BY <4>4, <5>1, Zenon
      <4> QED
        BY <4>1, <4>2, <4>3, <4>4
    <3>3. CASE FieldPart
      <4>1. \/ up' = f \/ up' = [f EXCEPT !.fields = 1] \/ up' = [up EXCEPT !.fields = 1]
        BY <3>3 DEF FieldPart
      <4> HIDE DEF f
      <4>2. CASE up' = f
        BY <3>1, <4>2
      <4>3. CASE up' = [f EXCEPT !.fields = 1]
        BY <3>1, <4>3, SetsFields, Values, ZenonT(30)
      <4>4. CASE up' = [up EXCEPT !.fields = 1]
        BY <4>4, SetsFields, Values, ZenonT(30)
      <4> QED
        BY <4>1, <4>2, <4>3, <4>4
    <3>4. CASE FileEnds
      <4>1. PICK truncated \in BOOLEAN :
              up' = [up EXCEPT !.write = "flush", !.truncated = truncated]
        BY <3>4 DEF FileEnds
      <4>2. [up EXCEPT !.write = "flush", !.truncated = truncated].answer = up.answer
        BY Zenon DEF UploadType
      <4> QED
        BY <4>1, <4>2, Zenon
    <3>5. CASE FormEnds \/ ServerIsKilled
      <4>1. \/ up' = [up EXCEPT !.at = "settling"] \/ up' = [up EXCEPT !.at = "killed"]
        BY <3>5 DEF FormEnds, ServerIsKilled
      <4>2. CASE up' = [up EXCEPT !.at = "settling"]
        BY <4>2, SetsPoint, Values, ZenonT(30)
      <4>3. CASE up' = [up EXCEPT !.at = "killed"]
        BY <4>3, SetsPoint, Values, ZenonT(30)
      <4> QED
        BY <4>1, <4>2, <4>3
    <3>6. CASE ConnectionBreaks
      <4>1. CASE up' = [up EXCEPT !.at = "unhandled"]
        BY <4>1, SetsPoint, Values
      <4>2. ASSUME NEW code \in {499, 500},
                   up' = [Failed(up, code) EXCEPT !.at = "settling"]
            PROVE  up'.answer = up.answer
        <5> DEFINE g == Failed(up, code)
        <5>1. g \in UploadType /\ g.answer = up.answer
          BY FailedFacts
        <5>2. up' = [g EXCEPT !.at = "settling"]
          BY <4>2
        <5> HIDE DEF g
        <5> QED
          BY <5>1, <5>2, SetsPoint, Values
      <4> QED
        BY <3>6, <4>1, <4>2 DEF ConnectionBreaks
    <3> QED
      BY <1>1, <3>2, <3>3, <3>4, <3>5, <3>6 DEF ClientSends
  <2> QED
    BY <2>1, <2>2
<1>2. ASSUME NEW code \in {413, 500}, WriteFails(code)
      PROVE  up'.answer \in {up.answer, code}
  BY <1>2 DEF WriteFails, UploadType
<1>3. CASE MakesDirectory \/ StreamFails \/ StreamEnds \/ Renames
  <2>1. UNCHANGED row /\ dir' \in {dir, "none", "partial", "whole"}
    BY <1>3 DEF MakesDirectory, StreamFails, StreamEnds, Renames
  <2>2. up'.answer \in {up.answer, 413, 500}
    BY <1>2, <1>3 DEF MakesDirectory, StreamFails, StreamEnds, Renames, UploadType
  <2> QED
    BY <2>1, <2>2
<1>4. CASE Settles
  <2>1. UNCHANGED <<dir, row>> /\ up' = SettledAs(up)
    BY <1>4 DEF Settles
  <2>2. up.error # 200
    <3>1. up.error \in Errors
      BY Zenon DEF UploadType
    <3> QED
      BY <3>1 DEF Errors
  <2>3. up'.answer \in {up.answer, 400, up.error}
    BY <2>1 DEF SettledAs, UploadType
  <2> QED
    BY <2>1, <2>2, <2>3
<1>5. CASE Enqueues
  <2>1. row = "absent" /\ UNCHANGED dir
    BY <1>5 DEF Enqueues, UploadInv, UploadSound
  <2>2. /\ [up EXCEPT !.at = "cleanup", !.answer = 500].answer = 500
    BY Zenon DEF UploadType
  <2>3. row' \in {"absent", "active"} /\ (row' = "absent" => up'.answer = 500)
    BY <1>5, <2>2, ZenonT(30) DEF Enqueues
  <2> QED
    BY <2>1, <2>3
<1>6. CASE CleansUp
  <2>1. /\ [up EXCEPT !.at = "answered"].answer = up.answer
        /\ [up EXCEPT !.at = "answered", !.cleared = FALSE].answer = up.answer
    BY Zenon DEF UploadType
  <2>2. up'.answer = up.answer
    BY <1>6, <2>1, Zenon DEF CleansUp
  <2>3. UNCHANGED row /\ dir' \in {dir, "none"}
    BY <1>6 DEF CleansUp
  <2> QED
    BY <2>2, <2>3
<1> QED
  BY <1>1, <1>3, <1>4, <1>5, <1>6 DEF UploadStep, ServerWorks, BrokenStreamFails

\* What a step of the upload leaves to the page of the list.
LEMMA UploadSteps ==
  ASSUME HomeInv, UploadStep, Untouched
  PROVE  HomeSound'
<1>1. UploadInv /\ HomeSound
  BY DEF HomeInv
<1>2. /\ row' \in {row, "absent", "active"} /\ (row # "absent" => row' = row)
      /\ dir' \in {dir, "none", "partial", "whole"}
      /\ up'.answer = 200 => up.answer = 200 \/ row' # "absent"
  BY <1>1, AnswersKeep
<1>3. row' \in Progress
  BY <1>1, <1>2 DEF HomeSound, Progress
<1> QED
  BY <1>1, <1>2, <1>3 DEF HomeSound, Untouched

\* The upload's dialog, the answer to its fetcher, and a tab loaded again.
LEMMA DialogSteps ==
  ASSUME HomeInv,
         \/ OpenUploadDialog \/ CloseUploadDialog \/ UploadAccepted
         \/ UploadRefused \/ UploadUnanswered \/ Reload
  PROVE  HomeSound'
<1> HomeSound /\ tab \in Tab
  BY DEF HomeInv, HomeSound
<1>1. CASE OpenUploadDialog \/ CloseUploadDialog
  <2>1. PICK x \in BOOLEAN : tab' = [tab EXCEPT !.dialog = x]
    BY <1>1 DEF OpenUploadDialog, CloseUploadDialog
  <2>2. tab' \in Tab /\ tab'.fetcher = tab.fetcher /\ tab'.broken = tab.broken
    <3> DEFINE n == [tab EXCEPT !.dialog = x]
    <3>1. n \in Tab /\ n.fetcher = tab.fetcher /\ n.broken = tab.broken
      BY <2>1, TabFacts, ZenonT(30)
    <3> HIDE DEF n
    <3> QED
      BY <2>1, <3>1, Zenon DEF n
  <2>3. ~tab.broken /\ UNCHANGED <<up, dir, row, other, list, loader, poll>>
    BY <1>1 DEF OpenUploadDialog, CloseUploadDialog
  <2> QED
    BY <2>2, <2>3 DEF HomeSound
<1>2. CASE UploadAccepted
  <2>1. tab' \in Tab /\ tab'.broken = tab.broken
    BY <1>2, TabFacts, Zenon DEF UploadAccepted
  <2>2. ~tab.broken
    BY <1>2 DEF UploadAccepted, HomeSound
  <2> QED
    BY <1>2, <2>1, <2>2, FetchFacts DEF UploadAccepted, HomeSound
<1>3. CASE UploadRefused
  <2>1. tab' \in Tab /\ tab'.broken = tab.broken
    BY <1>3, TabFacts, Zenon DEF UploadRefused
  <2>2. ~tab.broken
    BY <1>3 DEF UploadRefused, HomeSound
  <2> QED
    BY <1>3, <2>1, <2>2 DEF UploadRefused, HomeSound
<1>4. CASE UploadUnanswered
  <2>1. tab' \in Tab /\ tab'.fetcher = "idle"
    BY <1>4, TabFacts, ZenonT(30) DEF UploadUnanswered
  <2> QED
    BY <1>4, <2>1, FetchFacts DEF UploadUnanswered, HomeSound
<1>5. CASE Reload
  BY <1>5, FetchFacts DEF Reload, HomeSound
<1> QED
  BY <1>1, <1>2, <1>3, <1>4, <1>5

\* A new upload: nothing of an earlier one is listed.
LEMMA SubmitStep ==
  ASSUME HomeInv, SubmitRecording
  PROVE  HomeSound'
<1> HomeSound /\ tab \in Tab /\ row = "absent" /\ ~tab.broken
  BY DEF HomeInv, HomeSound, SubmitRecording
<1>1. tab' \in Tab /\ tab'.broken = tab.broken
  BY TabFacts, Zenon DEF SubmitRecording
<1>2. up'.answer # 200
  <2>1. /\ [NoUpload EXCEPT !.at = "receiving"].answer = 0
        /\ [NoUpload EXCEPT !.at = "cleanup", !.answer = 400].answer = 400
    BY Zenon DEF NoUpload
  <2>2. CASE up' = [NoUpload EXCEPT !.at = "receiving"]
    BY <2>1, <2>2
  <2>3. CASE up' = [NoUpload EXCEPT !.at = "cleanup", !.answer = 400]
    BY <2>1, <2>3
  <2> QED
    BY <2>2, <2>3 DEF SubmitRecording, RequestArrives
<1> QED
  BY <1>1, <1>2 DEF SubmitRecording, RequestArrives, HomeSound

\* The fetches of the loader and of the poll.
LEMMA FetchSteps ==
  ASSUME HomeInv,
         \/ LoaderReads \/ LoaderLands \/ LoaderFails
         \/ PollTick \/ Reconnects \/ PollReads \/ PollLands \/ PollFails
  PROVE  HomeSound'
<1> HomeSound /\ tab \in Tab /\ list \in List
  BY DEF HomeInv, HomeSound
<1>1. CASE LoaderReads
  <2> DEFINE read == [at |-> "read", data |-> Table]
  <2>1. read \in Fetch /\ read.at = "read" /\ read.data.mine = row
    BY FetchFacts DEF HomeSound
  <2>2. loader' = read /\ loader.at = "asked"
    BY <1>1 DEF LoaderReads
  <2> HIDE DEF read
  <2> QED
    BY <1>1, <2>1, <2>2 DEF LoaderReads, HomeSound
<1>2. CASE LoaderLands
  <2>1. tab' \in Tab /\ tab'.broken = tab.broken
    BY <1>2, TabFacts, Zenon DEF LoaderLands
  <2>2. ~tab.broken
    BY <1>2 DEF LoaderLands, HomeSound
  <2>3. list' = loader.data /\ list' \in List /\ list'.mine # "absent"
    <3>1. loader.data \in List
      BY DEF HomeSound, Fetch
    <3> QED
      BY <1>2, <3>1 DEF LoaderLands, ListWithLoaderData, HomeSound
  <2> QED
    BY <1>2, <2>1, <2>2, <2>3, FetchFacts DEF LoaderLands, Invalidated, HomeSound
<1>3. CASE LoaderFails
  <2>1. tab' \in Tab /\ tab'.fetcher = "idle"
    BY <1>3, TabFacts, Zenon DEF LoaderFails
  <2> QED
    BY <1>3, <2>1, FetchFacts DEF LoaderFails, HomeSound
<1>4. CASE PollTick \/ Reconnects
  BY <1>4, FetchFacts DEF PollTick, Reconnects, HomeSound
<1>5. CASE PollReads
  <2> DEFINE read == [at |-> "read", data |-> Table]
  <2>1. read \in Fetch /\ read.at = "read" /\ read.data.mine = row
    BY FetchFacts DEF HomeSound
  <2>2. poll' = read /\ poll.at = "asked"
    BY <1>5 DEF PollReads
  <2> HIDE DEF read
  <2> QED
    BY <1>5, <2>1, <2>2 DEF PollReads, HomeSound
<1>6. CASE PollLands
  <2>1. poll.data \in List
    BY DEF HomeSound, Fetch
  <2> QED
    BY <1>6, <2>1, FetchFacts DEF PollLands, HomeSound
<1>7. CASE PollFails
  BY <1>7, FetchFacts DEF PollFails, HomeSound
<1> QED
  BY <1>1, <1>2, <1>3, <1>4, <1>5, <1>6, <1>7

\* The worker and the other tabs.
LEMMA OtherSteps ==
  ASSUME HomeInv, MeetingEnds \/ OtherStarts
  PROVE  HomeSound'
BY DEF HomeInv, HomeSound, MeetingEnds, OtherStarts, Progress

\* Every step of the list's page keeps its invariant.
LEMMA HomeSteps == ASSUME HomeInv, HomeStep PROVE HomeInv'
<1>1. UploadInv'
  BY HomeKeeps DEF HomeInv
<1>2. HomeSound'
  BY UploadSteps, DialogSteps, SubmitStep, FetchSteps, OtherSteps DEF HomeStep
<1> QED
  BY <1>1, <1>2 DEF HomeInv

\* So does a step of another page.
LEMMA HomeUntouched == ASSUME HomeInv, UNCHANGED homeVars PROVE HomeInv'
<1>1. UploadInv'
  BY UntouchedKeeps DEF HomeInv, homeVars, UploadUntouched
<1>2. HomeSound'
  BY DEF HomeInv, HomeSound, homeVars
<1> QED
  BY <1>1, <1>2 DEF HomeInv

\* A list just opened, and one that was not visited.
LEMMA HomeBegins == Init => HomeInv
<1> SUFFICES ASSUME Init PROVE HomeInv
  OBVIOUS
<1>1. UploadInv
  BY WebInit
<1>2. HomeInit \/ HomeLeft
  BY DEF Init
<1>3. /\ up.answer = 0 /\ dir = "none" /\ row = "absent" /\ other \in Progress
      /\ list = Table /\ tab = FreshTab /\ loader = NoFetch /\ poll \in {NoFetch, Asked}
  BY <1>2, NoUploadFacts DEF HomeInit, HomeLeft, UploadInit, Progress
<1>4. HomeSound
  BY <1>3, FetchFacts DEF HomeSound, Progress
<1> QED
  BY <1>1, <1>4 DEF HomeInv

\* The invariant of the list, in every behaviour of the web app.
THEOREM HomeSafe == FairSpec => []HomeInv
<1>1. HomeInv /\ [Next]_vars => HomeInv'
  BY HomeSteps, HomeUntouched DEF Next, vars
<1> QED
  BY <1>1, HomeBegins, PTL DEF FairSpec

\* home.tsx, setQueryData and invalidateQueries: neither the loader's data, nor a
\* poll, nor the refetch takes a listed meeting off the list, whichever was asked
\* first and answers last.
THEOREM UploadStaysListed == FairSpec => ListKeepsUpload
<1>1. HomeInv /\ [Next]_vars => [list.mine # "absent" => list'.mine # "absent"]_homeVars
  <2> SUFFICES ASSUME HomeInv, HomeStep, list.mine # "absent"
               PROVE  list'.mine # "absent"
    BY DEF Next, vars, homeVars
  <2>1. HomeInv' /\ HomeSound
    BY HomeSteps DEF HomeInv
  <2>2. CASE Reload
    BY <2>1, <2>2, FetchFacts DEF Reload, HomeSound
  <2>3. CASE LoaderLands
    BY <2>1, <2>3 DEF LoaderLands, ListWithLoaderData, HomeSound
  <2>4. CASE PollLands
    BY <2>1, <2>4 DEF PollLands, HomeSound
  <2>5. CASE UNCHANGED list
    BY <2>5
  <2>6. HomeStep => Reload \/ LoaderLands \/ PollLands \/ UNCHANGED list
    BY DEF HomeStep, Untouched, OpenUploadDialog, CloseUploadDialog, SubmitRecording,
           UploadAccepted, UploadRefused, UploadUnanswered, LoaderReads, LoaderFails,
           PollTick, Reconnects, PollReads, PollFails, MeetingEnds, OtherStarts
  <2> QED
    BY <2>2, <2>3, <2>4, <2>5, <2>6
<1> QED
  BY <1>1, HomeSafe, PTL DEF FairSpec, ListKeepsUpload


-----------------------------------------------------------------------------
(* The invariant.                                                           *)

\* The meeting is there.
Exists == db.status # "gone"

\* The regeneration that was seen at version `base` has ended, or not: it has
\* succeeded only with a version above `base`.
Over(base, regen, version) == version >= base /\ (regen = "idle" => version > base)

\* The database: a meeting that is done has a summary and its transcript (what
\* DoneIsComplete of MeetingPipeline promises).
DbSound ==
  /\ db.status \in {"busy", "error"} => db.version = 0 /\ db.regen = "idle"
  /\ db.status = "done" => db.version >= 1 /\ db.label

\* What a run of the loader may rely on, statement by statement.  What it reads
\* later is at least as new as the row it read first, and, from the summary on, as
\* what the page shows.
LoadSound ==
  (Exists /\ load.at >= 2) =>
     /\ load.view.since <= db.version
     /\ load.view.status = "done" => db.status = "done" /\ load.view.since >= 1
     /\ load.view.regen = "active" => Over(load.view.since, db.regen, db.version)
     /\ IsOpen /\ page.regen = "active" =>
          Over(notice.base, load.view.regen, load.view.since)
     /\ load.at >= 3 =>
          /\ load.view.since <= load.view.version /\ load.view.version <= db.version
          /\ IsOpen => load.view.version >= page.version
     /\ load.at >= 4 /\ load.view.status = "done" => load.view.label

\* What the page shows, and what its notice compares.
PageSound ==
  (Exists /\ IsOpen) =>
     /\ page.since <= page.version /\ page.version <= db.version
     /\ page.status = "done" => page.label /\ page.since >= 1
     /\ page.regen = "active" => Over(notice.base, db.regen, db.version)
     /\ notice.tone = "success" => page.version > notice.base

\* A form that was submitted keeps the loader from running, and every visit has the
\* requests of its own only.
FormSound ==
  /\ visit # "names" => save = NoSave /\ load.by # "save"
  /\ visit = "names" => form = "none" /\ load.by # "form"
  /\ form # "none" => load.at = 0
  /\ heading.editing => visit = "title"
  /\ editor.open => visit = "names"

\* The title is the stored one, on the page and in a run of the loader that has read
\* the row, unless another tab has changed it or the answer to an edit is yet to be
\* read.
TitleSound ==
  /\ heading.told = "refused" => heading.editing
  /\ (/\ IsOpen /\ Exists /\ page.sure /\ form # "accepted"
      /\ ~(load.at # 0 /\ load.by = "form"))
       => page.title = db.title
  /\ (Exists /\ load.at >= 2 /\ load.view.sure) => load.view.title = db.title

\* So is the name, which the loader reads last; and a row of the editor that is not
\* protected shows the page's name.
NameSound ==
  /\ ~editor.open /\ ~editor.orphan => ~editor.kept
  /\ ~editor.kept => editor.value = page.name /\ editor.persisted = page.name
  /\ load.at # 0 /\ load.by = "save" => save.at = "none"
  /\ (/\ IsOpen /\ Exists /\ page.fresh /\ save.at # "ok"
      /\ ~(load.at # 0 /\ load.by = "save"))
       => page.name = db.name
  /\ (Exists /\ load.at = 5 /\ load.view.fresh /\ save.at # "ok")
       => load.view.name = db.name

\* The inductive invariant of the page.
PageInv ==
  PageTypeOK /\ DbSound /\ LoadSound /\ PageSound /\ FormSound /\ TitleSound /\ NameSound

-----------------------------------------------------------------------------
(* Values and their types.                                                  *)

\* The values the steps assign are in the types of their fields.
LEMMA PageValues ==
  /\ 0 \in 0 .. 5 /\ 1 \in 0 .. 5 /\ 5 \in 0 .. 5
  /\ 0 \in 0 .. MaxVersion /\ 1 \in 0 .. MaxVersion
  /\ \A n \in 0 .. MaxVersion : n < MaxVersion => n + 1 \in 0 .. MaxVersion
  /\ \A n \in 1 .. 4 : n + 1 \in 0 .. 5
  /\ TRUE \in BOOLEAN /\ FALSE \in BOOLEAN
BY VersionAssumption

\* A meeting that was uploaded or is gone, and the page's first data.
LEMMA ViewFacts ==
  /\ Uploaded \in Meeting /\ Gone \in Meeting
  /\ \A m \in Meeting : ViewOf(m) \in View
<1>1. Uploaded \in Meeting
  BY PageValues, Zenon DEF Uploaded, Meeting, Names, Titles
<1>2. Gone \in Meeting
  BY <1>1, Zenon DEF Gone, Meeting
<1>3. \A m \in Meeting : ViewOf(m) \in View
  BY PageValues, Zenon DEF Meeting, ViewOf, View
<1> QED
  BY <1>1, <1>2, <1>3

\* Their columns.
LEMMA UploadedFacts ==
  /\ Uploaded.status = "busy" /\ Gone.status = "gone"
  /\ Uploaded.regen = "idle" /\ Uploaded.version = 0 /\ Uploaded.label = FALSE
  /\ Uploaded.name = "none" /\ Uploaded.title = "first"
  /\ Gone.version = 0 /\ Gone.name = "none" /\ Gone.title = "first" /\ Gone.regen = "idle"
BY DEF Uploaded, Gone

\* The first data are the meeting's.
LEMMA ViewOfFacts ==
  ASSUME NEW m
  PROVE  /\ ViewOf(m).status = m.status /\ ViewOf(m).regen = m.regen
         /\ ViewOf(m).version = m.version /\ ViewOf(m).label = m.label
         /\ ViewOf(m).name = m.name /\ ViewOf(m).title = m.title
         /\ ViewOf(m).since = m.version
BY DEF ViewOf

\* No run of the loader, and one that starts.
LEMMA LoadFacts ==
  /\ NoLoad \in Load /\ NoLoad.at = 0 /\ NoLoad.by = "poll"
  /\ \A by \in {"poll", "form", "save"} :
       LoadFor(by) \in Load /\ LoadFor(by).at = 1 /\ LoadFor(by).by = by
<1>1. [ViewOf(Gone) EXCEPT !.fresh = FALSE] \in View
  BY ViewFacts, PageValues, Zenon DEF View
<1>2. NoLoad \in Load /\ NoLoad.at = 0 /\ NoLoad.by = "poll"
  BY <1>1, PageValues, Zenon DEF NoLoad, Load
<1>3. ASSUME NEW by \in {"poll", "form", "save"}
      PROVE  LoadFor(by) \in Load /\ LoadFor(by).at = 1 /\ LoadFor(by).by = by
  <2>1. LoadFor(by) \in Load
    BY <1>2, PageValues, Zenon DEF LoadFor, Load
  <2>2. LoadFor(by).at = 1 /\ LoadFor(by).by = by
    BY <1>2, SMT DEF LoadFor, Load
  <2>3. QED
    BY <2>1, <2>2
<1>4. QED
  BY <1>2, <1>3

\* The editors, the save and the notice at the beginning.
LEMMA EditorFacts ==
  /\ \A n \in Names : EditorOf(n) \in Editor
  /\ \A n : /\ EditorOf(n).value = n /\ EditorOf(n).persisted = n
            /\ EditorOf(n).open = FALSE /\ EditorOf(n).kept = FALSE
            /\ EditorOf(n).orphan = FALSE
  /\ NoSave \in Save /\ NoSave.at = "none"
  /\ NoNotice \in Notice /\ NoNotice.tone = "none"
  /\ \A t \in Titles : HeadingOf(t) \in Heading
  /\ \A t : HeadingOf(t).editing = FALSE /\ HeadingOf(t).told = "none"
  /\ "none" \in Names /\ "first" \in Titles /\ "typed" \in Titles /\ "other" \in Titles
  /\ "typed" \in Names /\ "other" \in Names
BY PageValues, Zenon
DEF EditorOf, Editor, NoSave, Save, NoNotice, Notice, HeadingOf, Heading, Names, Titles

\* The order of the loader's statements.
LEMMA LoadOrderFacts ==
  /\ LoadOrder[1] = "row" /\ LoadOrder[2] = "summary"
  /\ LoadOrder[3] = "segments" /\ LoadOrder[4] = "mappings"
BY DEF LoadOrder

-----------------------------------------------------------------------------
(* The loader.                                                              *)

\* What each of its four statements reads, and what it leaves as it was read.
LEMMA LoadReadsFacts ==
  ASSUME PageTypeOK, LoadReads
  PROVE  /\ load' \in Load
         /\ UNCHANGED <<visit, heading, db, page, notice, form, editor, save>>
         /\ \/ /\ load.at = 1 /\ db.status = "gone"
               /\ load'.at = 5 /\ load'.view.status = "gone" /\ load'.by = "poll"
            \/ /\ load.at \in 1 .. 4 /\ load'.at = load.at + 1 /\ load'.by = load.by
               /\ IF load.at = 1
                  THEN /\ load'.view.status = db.status /\ load'.view.regen = db.regen
                       /\ load'.view.since = db.version /\ load'.view.title = db.title
                       /\ db.status # "gone"
                  ELSE /\ load'.view.status = load.view.status
                       /\ load'.view.regen = load.view.regen
                       /\ load'.view.since = load.view.since
                       /\ load'.view.title = load.view.title
                       /\ load'.view.sure = load.view.sure
               /\ load'.view.version = IF load.at = 2 THEN db.version ELSE load.view.version
               /\ load'.view.label = IF load.at = 3 THEN db.label ELSE load.view.label
               /\ load.at = 4 => load'.view.name = db.name
<1> load \in Load /\ db \in Meeting
  BY DEF PageTypeOK
<1>0. load.view \in View
  BY Zenon DEF Load
<1>1. /\ load.at \in 1 .. 4
      /\ UNCHANGED <<visit, heading, db, page, notice, form, editor, save>>
  BY DEF LoadReads
<1>2. CASE load.at = 1 /\ db.status = "gone"
  <2>1. load' = [NoLoad EXCEPT !.at = 5]
    BY <1>2, LoadOrderFacts DEF LoadReads
  <2>2. load' \in Load
    BY <2>1, LoadFacts, PageValues, Zenon DEF Load
  <2>3. load'.at = 5 /\ load'.by = "poll" /\ load'.view = NoLoad.view
    BY <2>1, LoadFacts DEF Load
  <2>4. NoLoad.view.status = "gone"
    BY UploadedFacts, ViewOfFacts, ViewFacts DEF NoLoad, View
  <2>5. QED
    BY <1>1, <1>2, <2>2, <2>3, <2>4
<1>3. CASE load.at = 1 /\ db.status # "gone"
  <2>1. load' = [load EXCEPT !.at = load.at + 1, !.view.status = db.status,
                           !.view.regen = db.regen, !.view.since = db.version,
                           !.view.title = db.title, !.view.sure = TRUE]
    BY <1>3, LoadOrderFacts, Zenon DEF LoadReads
  <2> DEFINE v == [load.view EXCEPT !.status = db.status, !.regen = db.regen,
                                    !.since = db.version, !.title = db.title,
                                    !.sure = TRUE]
  <2>2. load' = [load EXCEPT !.at = load.at + 1, !.view = v]
    BY <1>0, <2>1, Zenon DEF Load, View
  <2>3. v \in View
    BY <1>0, PageValues, Zenon DEF View, Meeting
  <2>4. /\ v.status = db.status /\ v.regen = db.regen /\ v.since = db.version
        /\ v.title = db.title /\ v.version = load.view.version
        /\ v.label = load.view.label
    BY <1>0, SMT DEF View
  <2> HIDE DEF v
  <2>5. load' \in Load
    BY <1>1, <2>2, <2>3, PageValues, Zenon DEF Load
  <2>6. load'.at = load.at + 1 /\ load'.by = load.by /\ load'.view = v
    BY <2>2, SMT DEF Load
  <2>7. QED
    BY <1>1, <1>3, <2>4, <2>5, <2>6
<1>4. CASE load.at = 2
  <2>1. load' = [load EXCEPT !.at = load.at + 1, !.view.version = db.version]
    BY <1>4, LoadOrderFacts, SMT DEF LoadReads
  <2>2. load' \in Load
    BY <1>1, <2>1, PageValues, Zenon DEF Load, View, Meeting
  <2>3. QED
    BY <1>0, <1>1, <1>4, <2>1, <2>2, SMT DEF Load, View
<1>5. CASE load.at = 3
  <2>1. load' = [load EXCEPT !.at = load.at + 1, !.view.label = db.label]
    BY <1>5, LoadOrderFacts, SMT DEF LoadReads
  <2>2. load' \in Load
    BY <1>1, <2>1, PageValues, Zenon DEF Load, View, Meeting
  <2>3. QED
    BY <1>0, <1>1, <1>5, <2>1, <2>2, SMT DEF Load, View
<1>6. CASE load.at = 4
  <2>1. load' = [load EXCEPT !.at = load.at + 1, !.view.name = db.name, !.view.fresh = TRUE]
    BY <1>6, LoadOrderFacts, SMT DEF LoadReads
  <2>2. load' \in Load
    BY <1>1, <2>1, PageValues, Zenon DEF Load, View, Meeting
  <2>3. QED
    <3>1. load'.at = load.at + 1 /\ load'.by = load.by /\ load'.view.name = db.name
      BY <1>0, <1>6, <2>1, Zenon DEF Load, View
    <3>2. /\ load'.view.status = load.view.status /\ load'.view.regen = load.view.regen
          /\ load'.view.since = load.view.since /\ load'.view.title = load.view.title
          /\ load'.view.sure = load.view.sure
          /\ load'.view.version = load.view.version /\ load'.view.label = load.view.label
      BY <1>0, <2>1, Zenon DEF Load, View
    <3>3. QED
      BY <1>1, <1>6, <2>2, <3>1, <3>2
<1>7. QED
  BY <1>1, <1>2, <1>3, <1>4, <1>5, <1>6

\* Versions are natural numbers.
LEMMA NumberFacts ==
  /\ \A m \in Meeting : m.version \in Nat
  /\ \A v \in View : v.version \in Nat /\ v.since \in Nat
  /\ \A l \in Load : l.at \in 0 .. 5 /\ l.view \in View
  /\ \A n \in Notice : n.base \in Nat
<1>1. \A n \in 0 .. MaxVersion : n \in Nat
  BY VersionAssumption
<1>2. QED
  BY <1>1, Zenon DEF Meeting, View, Load, Notice

\* One statement more: the row first, so what follows is no older than the status.
LEMMA LoadReadsKeeps == ASSUME PageInv, LoadReads PROVE PageInv'
<1> USE DEF PageInv
<1>1. PageTypeOK'
  BY LoadReadsFacts DEF PageTypeOK
<1>2. load.at \in 0 .. 5 /\ load'.at \in 0 .. 5
  BY <1>1, NumberFacts DEF PageTypeOK
<1>3. /\ db.version \in Nat /\ page.version \in Nat /\ notice.base \in Nat
      /\ page.since \in Nat /\ load.view.version \in Nat /\ load.view.since \in Nat
      /\ load'.view.version \in Nat /\ load'.view.since \in Nat
  BY <1>1, NumberFacts DEF PageTypeOK
<1>4. LoadSound'
  <2>1. CASE load.at = 1
    BY <1>2, <1>3, <2>1, LoadReadsFacts
    DEF LoadSound, Exists, IsOpen, PageSound, DbSound, Over
  <2>2. CASE load.at = 2
    BY <1>2, <1>3, <2>2, LoadReadsFacts
    DEF LoadSound, Exists, IsOpen, PageSound, DbSound, Over
  <2>3. CASE load.at = 3
    BY <1>2, <1>3, <2>3, LoadReadsFacts
    DEF LoadSound, Exists, IsOpen, PageSound, DbSound, Over
  <2>4. CASE load.at = 4
    BY <1>2, <1>3, <2>4, LoadReadsFacts
    DEF LoadSound, Exists, IsOpen, PageSound, DbSound, Over
  <2>5. QED
    BY <2>1, <2>2, <2>3, <2>4, LoadReadsFacts
<1>5. DbSound' /\ PageSound'
  BY LoadReadsFacts DEF DbSound, PageSound, Exists, IsOpen, Over
<1>6. FormSound' /\ TitleSound'
  BY <1>2, LoadReadsFacts DEF FormSound, TitleSound, Exists, IsOpen
<1>7. NameSound'
  BY <1>2, LoadReadsFacts DEF NameSound, Exists, IsOpen
<1>8. QED
  BY <1>1, <1>4, <1>5, <1>6, <1>7

-----------------------------------------------------------------------------
(* What others do to the meeting meanwhile.                                 *)

\* The same data, up to whether others have changed name or title since.
SameView(v, w) ==
  /\ w.status = v.status /\ w.regen = v.regen /\ w.version = v.version
  /\ w.label = v.label /\ w.name = v.name /\ w.title = v.title /\ w.since = v.since

\* A step that leaves the loader's run, or the page, as it was.
LoadStays ==
  /\ load' \in Load /\ load'.at = load.at /\ load'.by = load.by
  /\ SameView(load.view, load'.view)

PageStays == page' \in View /\ SameView(page, page')

\* What every write does to the meeting: it deletes it, or versions do not go back,
\* a finished meeting stays finished, and a regeneration ends with a version more.
DbGrows ==
  /\ db' \in Meeting /\ DbSound'
  /\ Exists' => /\ Exists /\ db'.version >= db.version
                /\ db.status = "done" => db'.status = "done"
                /\ db'.regen = "idle" => db'.version > db.version \/ db.regen = "idle"

\* Such a write takes nothing back that the page or the loader has read.
LEMMA GrowthKeeps ==
  ASSUME PageInv, DbGrows, LoadStays, PageStays, notice' = notice
  PROVE  DbSound' /\ LoadSound' /\ PageSound'
<1> USE DEF PageInv
<1>1. /\ db.version \in Nat /\ page.version \in Nat /\ notice.base \in Nat
      /\ page.since \in Nat /\ load.view.version \in Nat /\ load.view.since \in Nat
      /\ db'.version \in Nat
  BY NumberFacts DEF PageTypeOK, DbGrows
<1>2. DbSound'
  BY DEF DbGrows
<1> SUFFICES ASSUME Exists' PROVE LoadSound' /\ PageSound'
  BY <1>2 DEF LoadSound, PageSound, Exists
<1>3. /\ Exists /\ db'.version >= db.version
      /\ db.status = "done" => db'.status = "done"
      /\ db'.regen = "idle" => db'.version > db.version \/ db.regen = "idle"
  BY DEF DbGrows
<1>4. \A base \in Nat : Over(base, db.regen, db.version)
                          => Over(base, db'.regen, db'.version)
  BY <1>1, <1>3 DEF Over
<1>5. LoadSound'
  BY <1>1, <1>3, <1>4 DEF LoadSound, LoadStays, PageStays, SameView, IsOpen
<1>6. PageSound'
  BY <1>1, <1>3, <1>4 DEF PageSound, PageStays, SameView, IsOpen
<1>7. QED
  BY <1>5, <1>6

\* Another tab has changed the name, or the title.
LEMMA StaleFacts ==
  /\ \A l \in Load : LET n == [l EXCEPT !.view.fresh = FALSE]
                     IN  /\ n \in Load /\ n.at = l.at /\ n.by = l.by
                         /\ SameView(l.view, n.view) /\ n.view.fresh = FALSE
                         /\ n.view.sure = l.view.sure
  /\ \A l \in Load : LET n == [l EXCEPT !.view.sure = FALSE]
                     IN  /\ n \in Load /\ n.at = l.at /\ n.by = l.by
                         /\ SameView(l.view, n.view) /\ n.view.sure = FALSE
                         /\ n.view.fresh = l.view.fresh
  /\ \A v \in View : LET n == [v EXCEPT !.fresh = FALSE]
                     IN  n \in View /\ SameView(v, n) /\ n.fresh = FALSE /\ n.sure = v.sure
  /\ \A v \in View : LET n == [v EXCEPT !.sure = FALSE]
                     IN  n \in View /\ SameView(v, n) /\ n.sure = FALSE /\ n.fresh = v.fresh
<1>1. ASSUME NEW v \in View
      PROVE  LET n == [v EXCEPT !.fresh = FALSE]
             IN  n \in View /\ SameView(v, n) /\ n.fresh = FALSE /\ n.sure = v.sure
  BY PageValues, Zenon DEF View, SameView
<1>2. ASSUME NEW v \in View
      PROVE  LET n == [v EXCEPT !.sure = FALSE]
             IN  n \in View /\ SameView(v, n) /\ n.sure = FALSE /\ n.fresh = v.fresh
  BY PageValues, Zenon DEF View, SameView
<1>3. ASSUME NEW l \in Load, NEW v \in View
      PROVE  LET n == [l EXCEPT !.view = v]
             IN  n \in Load /\ n.at = l.at /\ n.by = l.by /\ n.view = v
  BY Zenon DEF Load
<1>4. ASSUME NEW l \in Load
      PROVE  /\ [l EXCEPT !.view.fresh = FALSE]
                  = [l EXCEPT !.view = [l.view EXCEPT !.fresh = FALSE]]
             /\ [l EXCEPT !.view.sure = FALSE]
                  = [l EXCEPT !.view = [l.view EXCEPT !.sure = FALSE]]
  BY Zenon DEF Load, View
<1>5. ASSUME NEW l \in Load
      PROVE  LET n == [l EXCEPT !.view.fresh = FALSE]
             IN  /\ n \in Load /\ n.at = l.at /\ n.by = l.by
                 /\ SameView(l.view, n.view) /\ n.view.fresh = FALSE
                 /\ n.view.sure = l.view.sure
  <2> DEFINE v == [l.view EXCEPT !.fresh = FALSE]
             n == [l EXCEPT !.view = v]
  <2>1. v \in View /\ SameView(l.view, v) /\ v.fresh = FALSE /\ v.sure = l.view.sure
    BY <1>1, NumberFacts
  <2> HIDE DEF v
  <2>2. n \in Load /\ n.at = l.at /\ n.by = l.by /\ n.view = v
    BY <1>3, <2>1
  <2> USE DEF v
  <2>3. QED
    BY <1>4, <2>1, <2>2
<1>6. ASSUME NEW l \in Load
      PROVE  LET n == [l EXCEPT !.view.sure = FALSE]
             IN  /\ n \in Load /\ n.at = l.at /\ n.by = l.by
                 /\ SameView(l.view, n.view) /\ n.view.sure = FALSE
                 /\ n.view.fresh = l.view.fresh
  <2> DEFINE v == [l.view EXCEPT !.sure = FALSE]
             n == [l EXCEPT !.view = v]
  <2>1. v \in View /\ SameView(l.view, v) /\ v.sure = FALSE /\ v.fresh = l.view.fresh
    BY <1>2, NumberFacts
  <2> HIDE DEF v
  <2>2. n \in Load /\ n.at = l.at /\ n.by = l.by /\ n.view = v
    BY <1>3, <2>1
  <2> USE DEF v
  <2>3. QED
    BY <1>4, <2>1, <2>2
<1>7. QED
  BY <1>1, <1>2, <1>5, <1>6

\* What an assignment to one column of the meeting sets and keeps.
LEMMA SetsStatus ==
  ASSUME NEW m \in Meeting, NEW x \in {"busy", "done", "error"}
  PROVE  LET n == [m EXCEPT !.status = x]
         IN /\ n \in Meeting /\ n.status = x /\ n.regen = m.regen
            /\ n.version = m.version /\ n.label = m.label
            /\ n.name = m.name /\ n.title = m.title
BY Zenon DEF Meeting

\* The regeneration's status.
LEMMA SetsRegen ==
  ASSUME NEW m \in Meeting, NEW x \in {"idle", "active", "failed"}
  PROVE  LET n == [m EXCEPT !.regen = x]
         IN /\ n \in Meeting /\ n.status = m.status /\ n.regen = x
            /\ n.version = m.version /\ n.label = m.label
            /\ n.name = m.name /\ n.title = m.title
BY Zenon DEF Meeting

\* The latest summary.
LEMMA SetsVersion ==
  ASSUME NEW m \in Meeting, NEW x \in 0 .. MaxVersion
  PROVE  LET n == [m EXCEPT !.version = x]
         IN /\ n \in Meeting /\ n.status = m.status /\ n.regen = m.regen
            /\ n.version = x /\ n.label = m.label
            /\ n.name = m.name /\ n.title = m.title
BY Zenon DEF Meeting

\* The speaker's label in the transcript.
LEMMA SetsLabel ==
  ASSUME NEW m \in Meeting, NEW x \in BOOLEAN
  PROVE  LET n == [m EXCEPT !.label = x]
         IN /\ n \in Meeting /\ n.status = m.status /\ n.regen = m.regen
            /\ n.version = m.version /\ n.label = x
            /\ n.name = m.name /\ n.title = m.title
BY Zenon DEF Meeting

\* The speaker's name.
LEMMA SetsName ==
  ASSUME NEW m \in Meeting, NEW x \in Names
  PROVE  LET n == [m EXCEPT !.name = x]
         IN /\ n \in Meeting /\ n.status = m.status /\ n.regen = m.regen
            /\ n.version = m.version /\ n.label = m.label
            /\ n.name = x /\ n.title = m.title
BY Zenon DEF Meeting

\* The title.
LEMMA SetsTitle ==
  ASSUME NEW m \in Meeting, NEW x \in Titles
  PROVE  LET n == [m EXCEPT !.title = x]
         IN /\ n \in Meeting /\ n.status = m.status /\ n.regen = m.regen
            /\ n.version = m.version /\ n.label = m.label
            /\ n.name = m.name /\ n.title = x
BY Zenon DEF Meeting

\* A deletion, a retry, a queued regeneration, a title and a name.
LEMMA RequestsGrow ==
  ASSUME PageInv
  PROVE  /\ db' = Gone => DbGrows
         /\ db' = Retried(db) /\ db.status = "error" =>
              DbGrows /\ db'.name = db.name /\ db'.title = db.title /\ Exists
         /\ db' = RegenerationQueued(db) /\ db.status = "done" =>
              DbGrows /\ db'.name = db.name /\ db'.title = db.title /\ Exists
         /\ \A t \in Titles : db' = Titled(t) /\ Exists =>
              DbGrows /\ db'.name = db.name /\ db'.title = t /\ Exists'
         /\ \A n \in Names : db' = Mapped(n) /\ Exists =>
              DbGrows /\ db'.name = n /\ db'.title = db.title /\ Exists'
<1> USE DEF PageInv
<1>0. db \in Meeting /\ db.version \in Nat
  BY NumberFacts DEF PageTypeOK
<1>1. ASSUME db' = Gone PROVE DbGrows
  BY <1>1, ViewFacts, UploadedFacts DEF DbGrows, DbSound, Exists
<1>2. ASSUME db' = Retried(db), db.status = "error"
      PROVE  DbGrows /\ db'.name = db.name /\ db'.title = db.title /\ Exists
  <2>1. /\ db' \in Meeting /\ db'.status = "busy" /\ db'.regen = db.regen
        /\ db'.version = db.version /\ db'.name = db.name /\ db'.title = db.title
    BY <1>0, <1>2, SetsStatus DEF Retried
  <2>2. QED
    BY <1>0, <1>2, <2>1 DEF DbGrows, DbSound, Exists
<1>3. ASSUME db' = RegenerationQueued(db), db.status = "done"
      PROVE  DbGrows /\ db'.name = db.name /\ db'.title = db.title /\ Exists
  <2>1. /\ db' \in Meeting /\ db'.status = "done" /\ db'.regen = "active"
        /\ db'.version = db.version /\ db'.name = db.name /\ db'.title = db.title
        /\ db'.label = db.label
    BY <1>0, <1>3, SetsRegen DEF RegenerationQueued
  <2>2. QED
    BY <1>0, <1>3, <2>1 DEF DbGrows, DbSound, Exists
<1>4. ASSUME NEW t \in Titles, db' = Titled(t), Exists
      PROVE  DbGrows /\ db'.name = db.name /\ db'.title = t /\ Exists'
  <2>1. /\ db' \in Meeting /\ db'.status = db.status /\ db'.regen = db.regen
        /\ db'.version = db.version /\ db'.name = db.name /\ db'.title = t
        /\ db'.label = db.label
    BY <1>0, <1>4, SetsTitle DEF Titled
  <2>2. QED
    BY <1>0, <1>4, <2>1 DEF DbGrows, DbSound, Exists
<1>5. ASSUME NEW n \in Names, db' = Mapped(n), Exists
      PROVE  DbGrows /\ db'.name = n /\ db'.title = db.title /\ Exists'
  <2>1. /\ db' \in Meeting /\ db'.status = db.status /\ db'.regen = db.regen
        /\ db'.version = db.version /\ db'.name = n /\ db'.title = db.title
        /\ db'.label = db.label
    BY <1>0, <1>5, SetsName DEF Mapped
  <2>2. QED
    BY <1>0, <1>5, <2>1 DEF DbGrows, DbSound, Exists
<1>6. QED
  BY <1>1, <1>2, <1>3, <1>4, <1>5

\* What the worker does to the meeting.
LEMMA WorkGrows ==
  ASSUME PageInv, WorkerWorks
  PROVE  DbGrows /\ (Exists' => db'.name = db.name /\ db'.title = db.title)
<1> USE DEF PageInv
<1>0. db \in Meeting /\ db.version \in Nat /\ db.version \in 0 .. MaxVersion
  BY NumberFacts, Zenon DEF PageTypeOK, Meeting
<1> DEFINE To(status, regen, version) ==
      /\ db' \in Meeting /\ db'.status = status /\ db'.regen = regen
      /\ db'.version = version /\ db'.name = db.name /\ db'.title = db.title
<1>1. CASE /\ db.status = "busy"
           /\ \E x \in BOOLEAN : db' = [db EXCEPT !.label = x]
  <2>1. To("busy", db.regen, db.version)
    BY <1>0, <1>1, SetsLabel
  <2>2. QED
    BY <1>0, <1>1, <2>1 DEF DbGrows, DbSound, Exists
<1>2. CASE db.status = "busy" /\ db' = [db EXCEPT !.status = "error"]
  <2>1. To("error", db.regen, db.version)
    BY <1>0, <1>2, SetsStatus
  <2>2. QED
    BY <1>0, <1>2, <2>1 DEF DbGrows, DbSound, Exists
<1>3. CASE /\ db.status = "busy" /\ db.label
           /\ db' = [db EXCEPT !.status = "done", !.version = 1]
  <2> DEFINE m == [db EXCEPT !.status = "done"]
  <2>1. /\ m \in Meeting /\ m.status = "done" /\ m.regen = db.regen
        /\ m.label = db.label /\ m.name = db.name /\ m.title = db.title
    BY <1>0, SetsStatus
  <2>2. db' = [m EXCEPT !.version = 1]
    BY <1>0, <1>3
  <2> HIDE DEF m
  <2>3. To("done", db.regen, 1) /\ db'.label = db.label
    BY <2>1, <2>2, PageValues, SetsVersion
  <2>4. QED
    BY <1>0, <1>3, <2>3 DEF DbGrows, DbSound, Exists
<1>4. CASE /\ db.regen = "active" /\ db.version < MaxVersion
           /\ db' = [db EXCEPT !.regen = "idle", !.version = db.version + 1]
  <2> DEFINE m == [db EXCEPT !.regen = "idle"]
  <2>1. /\ m \in Meeting /\ m.status = db.status /\ m.regen = "idle"
        /\ m.label = db.label /\ m.name = db.name /\ m.title = db.title
    BY <1>0, SetsRegen
  <2>2. db' = [m EXCEPT !.version = db.version + 1]
    BY <1>0, <1>4
  <2> HIDE DEF m
  <2>3. db.version + 1 \in 0 .. MaxVersion
    BY <1>0, <1>4, PageValues
  <2>4. To(db.status, "idle", db.version + 1) /\ db'.label = db.label
    BY <2>1, <2>2, <2>3, SetsVersion
  <2>5. QED
    BY <1>0, <1>4, <2>4 DEF DbGrows, DbSound, Exists
<1>5. CASE db.regen = "active" /\ db' = [db EXCEPT !.regen = "failed"]
  <2>1. To(db.status, "failed", db.version) /\ db'.label = db.label
    BY <1>0, <1>5, SetsRegen
  <2>2. QED
    BY <1>0, <1>5, <2>1 DEF DbGrows, DbSound, Exists
<1>6. QED
  BY <1>1, <1>2, <1>3, <1>4, <1>5 DEF WorkerWorks

\* A step that does not touch the loader or the page.
LEMMA UnchangedStays ==
  ASSUME PageTypeOK
  PROVE  (load' = load => LoadStays) /\ (page' = page => PageStays)
BY DEF PageTypeOK, LoadStays, PageStays, SameView

\* The worker, and other tabs, under an open page.
LEMMA OthersKeep ==
  ASSUME PageInv, \/ WorkerWorks \/ OtherTabActs \/ OtherTabRenames \/ OtherTabRetitles
  PROVE  PageInv'
<1> USE DEF PageInv
<1>1. UNCHANGED <<visit, heading, notice, form, editor, save>>
  BY DEF WorkerWorks, OtherTabActs, OtherTabRenames, OtherTabRetitles
<1>2. load \in Load /\ page \in View
  BY DEF PageTypeOK
<1>3. CASE WorkerWorks \/ OtherTabActs
  <2>1. load' = load /\ page' = page
    BY <1>3 DEF WorkerWorks, OtherTabActs
  <2>2. DbGrows /\ (Exists' => Exists /\ db'.name = db.name /\ db'.title = db.title)
    <3>1. CASE WorkerWorks
      BY <3>1, WorkGrows DEF DbGrows
    <3>2. CASE OtherTabActs
      BY <3>2, RequestsGrow, UploadedFacts DEF OtherTabActs, Exists, DbGrows
    <3>3. QED
      BY <1>3, <3>1, <3>2
  <2>3. DbSound' /\ LoadSound' /\ PageSound'
    BY <1>1, <2>1, <2>2, GrowthKeeps, UnchangedStays
  <2>4. PageTypeOK'
    BY <1>1, <2>1, <2>2 DEF PageTypeOK, DbGrows
  <2>5. FormSound' /\ TitleSound' /\ NameSound'
    BY <1>1, <2>1, <2>2 DEF FormSound, TitleSound, NameSound, IsOpen
  <2>6. QED
    BY <2>3, <2>4, <2>5
<1>4. CASE OtherTabRenames
  <2>1. /\ LoadStays /\ PageStays
        /\ load'.view.fresh = FALSE /\ page'.fresh = FALSE
        /\ load'.view.sure = load.view.sure /\ page'.sure = page.sure
    BY <1>2, <1>4, StaleFacts DEF OtherTabRenames, LoadStays, PageStays
  <2>2. DbGrows /\ Exists /\ db'.title = db.title
    BY <1>4, RequestsGrow, EditorFacts DEF OtherTabRenames, Exists
  <2>3. DbSound' /\ LoadSound' /\ PageSound'
    BY <1>1, <2>1, <2>2, GrowthKeeps
  <2>4. PageTypeOK'
    BY <1>1, <2>1, <2>2 DEF PageTypeOK, DbGrows, LoadStays, PageStays
  <2>5. FormSound' /\ TitleSound' /\ NameSound'
    BY <1>1, <2>1, <2>2
    DEF FormSound, TitleSound, NameSound, IsOpen, LoadStays, PageStays, SameView
  <2>6. QED
    BY <2>3, <2>4, <2>5
<1>5. CASE OtherTabRetitles
  <2>1. /\ LoadStays /\ PageStays
        /\ load'.view.sure = FALSE /\ page'.sure = FALSE
        /\ load'.view.fresh = load.view.fresh /\ page'.fresh = page.fresh
    BY <1>2, <1>5, StaleFacts DEF OtherTabRetitles, LoadStays, PageStays
  <2>2. DbGrows /\ Exists /\ db'.name = db.name
    BY <1>5, RequestsGrow, EditorFacts DEF OtherTabRetitles, Exists
  <2>3. DbSound' /\ LoadSound' /\ PageSound'
    BY <1>1, <2>1, <2>2, GrowthKeeps
  <2>4. PageTypeOK'
    BY <1>1, <2>1, <2>2 DEF PageTypeOK, DbGrows, LoadStays, PageStays
  <2>5. FormSound' /\ TitleSound' /\ NameSound'
    BY <1>1, <2>1, <2>2
    DEF FormSound, TitleSound, NameSound, IsOpen, LoadStays, PageStays, SameView
  <2>6. QED
    BY <2>3, <2>4, <2>5
<1>6. QED
  BY <1>3, <1>4, <1>5

-----------------------------------------------------------------------------
(* The page itself.                                                         *)

\* A run of the loader starts: nothing is known yet.
LEMMA PollsKeeps == ASSUME PageInv, PollsMeeting PROVE PageInv'
<1> USE DEF PageInv
<1>1. /\ load.at = 0 /\ form = "none" /\ load' = LoadFor("poll")
      /\ UNCHANGED <<visit, heading, db, page, notice, form, editor, save>>
  BY DEF PollsMeeting
<1>2. load' \in Load /\ load'.at = 1 /\ load'.by = "poll"
  BY <1>1, LoadFacts
<1>3. PageTypeOK'
  BY <1>1, <1>2 DEF PageTypeOK
<1>4. DbSound' /\ LoadSound' /\ PageSound'
  BY <1>1, <1>2 DEF DbSound, LoadSound, PageSound, Exists, IsOpen
<1>5. FormSound' /\ TitleSound' /\ NameSound'
  BY <1>1, <1>2 DEF FormSound, TitleSound, NameSound, Exists, IsOpen
<1>6. QED
  BY <1>3, <1>4, <1>5

\* The page makes way for an error or for the list.
LEMMA LeavesKeep == ASSUME PageInv, PageLeft, UNCHANGED <<visit, db>> PROVE PageInv'
<1> USE DEF PageInv
<1>1. /\ page'.status = "gone" /\ page'.name = "none" /\ page' \in View
  BY ViewFacts, UploadedFacts, ViewOfFacts DEF PageLeft
<1>2. /\ load' \in Load /\ load'.at = 0 /\ load'.by = "poll"
      /\ notice' \in Notice /\ form' = "none" /\ heading' \in Heading
      /\ heading'.told = "none" /\ ~heading'.editing
      /\ editor' \in Editor /\ ~editor'.kept /\ ~editor'.open
      /\ editor'.value = "none" /\ editor'.persisted = "none"
      /\ save' \in Save /\ save' = NoSave
  BY LoadFacts, EditorFacts DEF PageLeft
<1>3. PageTypeOK'
  BY <1>1, <1>2 DEF PageTypeOK
<1>4. DbSound' /\ LoadSound' /\ PageSound'
  BY <1>1, <1>2 DEF DbSound, LoadSound, PageSound, Exists, IsOpen
<1>5. FormSound' /\ TitleSound' /\ NameSound'
  BY <1>1, <1>2 DEF FormSound, TitleSound, NameSound, Exists, IsOpen
<1>6. QED
  BY <1>3, <1>4, <1>5

\* The notice goes after a while.
LEMMA FadesKeeps == ASSUME PageInv, NoticeFades PROVE PageInv'
<1> USE DEF PageInv
<1>1. /\ notice' = [notice EXCEPT !.tone = "none"]
      /\ UNCHANGED <<visit, heading, db, load, page, form, editor, save>>
  BY DEF NoticeFades
<1>2. notice' \in Notice /\ notice'.tone = "none" /\ notice'.base = notice.base
  BY <1>1, Zenon DEF PageTypeOK, Notice
<1>3. PageTypeOK'
  BY <1>1, <1>2 DEF PageTypeOK
<1>4. DbSound' /\ LoadSound' /\ PageSound'
  BY <1>1, <1>2 DEF DbSound, LoadSound, PageSound, Exists, IsOpen
<1>5. FormSound' /\ TitleSound' /\ NameSound'
  BY <1>1, <1>2 DEF FormSound, TitleSound, NameSound, Exists, IsOpen
<1>6. QED
  BY <1>3, <1>4, <1>5

\* What the page's effects make of the loader's data.
LEMMA NoticedFacts ==
  ASSUME NEW v \in View, notice \in Notice
  PROVE  /\ Noticed(v) \in Notice
         /\ \/ v.regen = "active" /\ page.regen # "active"
               /\ Noticed(v).tone = "none" /\ Noticed(v).base = v.since
            \/ /\ ~(v.regen = "active" /\ page.regen # "active")
               /\ Noticed(v).base = notice.base
               /\ Noticed(v).tone \in {"success", "danger", notice.tone}
               /\ Noticed(v).tone = "success" /\ notice.tone # "success"
                    => page.regen = "active" /\ v.regen = "idle"
<1>1. CASE v.regen = "active" /\ page.regen # "active"
  <2>1. Noticed(v) = [tone |-> "none", base |-> v.since]
    BY <1>1 DEF Noticed
  <2>2. v.since \in 0 .. MaxVersion
    BY Zenon DEF View
  <2>3. [tone |-> "none", base |-> v.since] \in Notice
    BY <2>2, Zenon DEF Notice
  <2>4. QED
    BY <1>1, <2>1, <2>3
<1>2. CASE /\ v.regen # "active" /\ v.regen # page.regen
           /\ ObservedNotice(page.regen, v.regen) # "none"
  <2>1. Noticed(v) = [notice EXCEPT !.tone = ObservedNotice(page.regen, v.regen)]
    BY <1>2 DEF Noticed
  <2>2. /\ ObservedNotice(page.regen, v.regen) \in {"success", "danger"}
        /\ ObservedNotice(page.regen, v.regen) = "success"
             => page.regen = "active" /\ v.regen = "idle"
    BY <1>2, Zenon DEF ObservedNotice
  <2> DEFINE tone == ObservedNotice(page.regen, v.regen)
  <2>3. tone \in {"none", "success", "danger"}
    BY <2>2
  <2> HIDE DEF tone
  <2>4. /\ [notice EXCEPT !.tone = tone] \in Notice
        /\ [notice EXCEPT !.tone = tone].base = notice.base
        /\ [notice EXCEPT !.tone = tone].tone = tone
    BY <2>3, Zenon DEF Notice
  <2>5. QED
    BY <1>2, <2>1, <2>2, <2>4 DEF tone
<1>3. CASE /\ ~(v.regen = "active" /\ page.regen # "active")
           /\ ~(/\ v.regen # "active" /\ v.regen # page.regen
                /\ ObservedNotice(page.regen, v.regen) # "none")
  <2>1. Noticed(v) = notice
    BY <1>3 DEF Noticed
  <2>2. QED
    BY <1>3, <2>1
<1>4. QED
  BY <1>1, <1>2, <1>3

\* And what they make of the row of the editor: a protected one keeps its name.
LEMMA MergedFacts ==
  ASSUME NEW e \in Editor, NEW v \in View
  PROVE  LET n == Merged(e, v)
         IN  /\ n \in Editor /\ n.kept = e.kept
             /\ e.kept => n.value = e.value /\ n.persisted = e.persisted
             /\ ~e.kept => n.value = v.name /\ n.persisted = v.name
             /\ v.label => n.open = e.open /\ n.orphan = e.orphan
             /\ ~v.label => ~n.open /\ (e.orphan \/ e.kept => n.orphan)
             /\ n.open => e.open
<1> DEFINE m == IF e.kept THEN e ELSE [e EXCEPT !.value = v.name, !.persisted = v.name]
<1>1. /\ m \in Editor /\ m.kept = e.kept /\ m.open = e.open /\ m.orphan = e.orphan
      /\ e.kept => m.value = e.value /\ m.persisted = e.persisted
      /\ ~e.kept => m.value = v.name /\ m.persisted = v.name
  <2>1. CASE e.kept
    BY <2>1
  <2>2. CASE ~e.kept
    <3>1. m = [e EXCEPT !.value = v.name, !.persisted = v.name] /\ v.name \in Names
      BY <2>2, Zenon DEF View
    <3> HIDE DEF m
    <3>2. QED
      BY <2>2, <3>1, Zenon DEF Editor
  <2>3. QED
    BY <2>1, <2>2
<1>2. Merged(e, v) = IF v.label THEN m
                     ELSE [m EXCEPT !.open = FALSE, !.orphan = m.orphan \/ m.kept]
  BY DEF Merged
<1> HIDE DEF m
<1>3. CASE v.label
  BY <1>1, <1>2, <1>3
<1>4. CASE ~v.label
  <2>1. Merged(e, v) = [m EXCEPT !.open = FALSE, !.orphan = m.orphan \/ m.kept]
    BY <1>2, <1>4
  <2>2. (m.orphan \/ m.kept) \in BOOLEAN
    OBVIOUS
  <2>3. /\ Merged(e, v) \in Editor /\ Merged(e, v).open = FALSE
        /\ Merged(e, v).orphan = (m.orphan \/ m.kept) /\ Merged(e, v).kept = m.kept
        /\ Merged(e, v).value = m.value /\ Merged(e, v).persisted = m.persisted
    BY <1>1, <2>1, <2>2, PageValues, Zenon DEF Editor
  <2>4. QED
    BY <1>1, <1>4, <2>3, Zenon
<1>5. QED
  BY <1>3, <1>4

\* The loader's data replaces the page's.
LEMMA LandsKeeps == ASSUME PageInv, LoadLands PROVE PageInv'
<1> USE DEF PageInv
<1>1. /\ IsOpen /\ load.at = 5 /\ load.view.status # "gone"
      /\ load' = NoLoad /\ page' = load.view /\ notice' = Noticed(load.view)
      /\ editor' = Merged(editor, load.view)
      /\ save' = [save EXCEPT !.heard = @ /\ (load.view.label \/ save.at = "none")]
      /\ UNCHANGED <<visit, heading, db, form>>
  BY DEF LoadLands
<1>2. /\ load.view \in View /\ notice \in Notice /\ editor \in Editor /\ save \in Save
      /\ load' \in Load /\ load'.at = 0 /\ load'.by = "poll"
  BY <1>1, LoadFacts, NumberFacts DEF PageTypeOK
<1>3. save' \in Save /\ save'.at = save.at /\ save'.sent = save.sent
  <2>1. (save.heard /\ (load.view.label \/ save.at = "none")) \in BOOLEAN
    OBVIOUS
  <2>2. QED
    BY <1>1, <1>2, <2>1, Zenon DEF Save
<1>4. save = NoSave => save' = NoSave
  <2> SUFFICES ASSUME save = NoSave PROVE save' = NoSave
    OBVIOUS
  <2>1. (save.heard /\ (load.view.label \/ save.at = "none")) = TRUE
    BY Zenon DEF NoSave
  <2>2. save' = [save EXCEPT !.heard = TRUE]
    BY <1>1, <2>1
  <2>3. QED
    BY <2>2 DEF NoSave
<1>5. notice' \in Notice /\ editor' \in Editor
  BY <1>1, <1>2, NoticedFacts, MergedFacts
<1>6. PageTypeOK'
  BY <1>1, <1>2, <1>3, <1>5 DEF PageTypeOK
<1>7. /\ db.version \in Nat /\ page.version \in Nat /\ notice.base \in Nat
      /\ page.since \in Nat /\ load.view.version \in Nat /\ load.view.since \in Nat
  BY NumberFacts DEF PageTypeOK
<1>8. DbSound' /\ LoadSound'
  BY <1>1, <1>2 DEF DbSound, LoadSound, Exists
<1>9. PageSound'
  <2> SUFFICES ASSUME Exists PROVE PageSound'
    BY <1>1 DEF PageSound, Exists
  <2>1. /\ page'.since <= page'.version /\ page'.version <= db.version
        /\ page'.status = "done" => page'.label /\ page'.since >= 1
        /\ page'.version >= page.version
        /\ page'.regen = "active" => Over(page'.since, db.regen, db.version)
        /\ page.regen = "active" => Over(notice.base, page'.regen, page'.since)
    BY <1>1 DEF LoadSound
  <2>2. CASE load.view.regen = "active" /\ page.regen # "active"
    BY <1>1, <1>2, <2>1, <2>2, NoticedFacts DEF PageSound
  <2>3. CASE ~(load.view.regen = "active" /\ page.regen # "active")
    <3>1. /\ notice'.base = notice.base
          /\ notice'.tone = "success" => \/ notice.tone = "success"
                                         \/ page.regen = "active" /\ page'.regen = "idle"
      BY <1>1, <1>2, <2>3, NoticedFacts
    <3>2. page'.regen = "active" => Over(notice.base, db.regen, db.version)
      BY <1>1, <2>3 DEF PageSound
    <3>3. notice'.tone = "success" => page'.version > notice.base
      BY <1>1, <1>7, <2>1, <3>1 DEF PageSound, Over
    <3>4. QED
      BY <1>1, <2>1, <3>1, <3>2, <3>3 DEF PageSound
  <2>4. QED
    BY <2>2, <2>3
<1>10. FormSound' /\ TitleSound'
  BY <1>1, <1>2, <1>4, MergedFacts DEF FormSound, TitleSound, Exists, IsOpen
<1>11. NameSound'
  <2>1. /\ editor'.kept = editor.kept
        /\ ~editor'.open /\ ~editor'.orphan => ~editor'.kept
        /\ ~editor'.kept => editor'.value = page'.name /\ editor'.persisted = page'.name
    BY <1>1, <1>2, MergedFacts DEF NameSound
  <2>2. QED
    BY <1>1, <1>2, <1>3, <2>1 DEF NameSound, Exists, IsOpen
<1>12. QED
  BY <1>6, <1>8, <1>9, <1>10, <1>11

-----------------------------------------------------------------------------
(* Forms, title and name.                                                   *)

\* A form is submitted; a poll's run of the loader is dropped.
LEMMA SubmitsKeeps == ASSUME PageInv, SubmitsForm PROVE PageInv'
<1> USE DEF PageInv
<1>1. PICK f \in {"retry", "regenerate", "delete", "language"} :
        /\ form' = f
        /\ notice' = IF f = "regenerate" THEN [notice EXCEPT !.tone = "none"] ELSE notice
  BY DEF SubmitsForm
<1>2. /\ visit = "forms" /\ IsOpen /\ form = "none" /\ ~(load.at # 0 /\ load.by = "form")
      /\ load' = IF load.by = "poll" THEN NoLoad ELSE load
      /\ UNCHANGED <<visit, heading, db, page, editor, save>>
  BY DEF SubmitsForm
<1>3. load' \in Load /\ load'.at = 0 /\ load'.by \in {"poll", "form"}
  BY <1>2, LoadFacts, Zenon DEF PageTypeOK, FormSound, Load
<1>4. notice' \in Notice /\ notice'.base = notice.base /\ notice'.tone \in {"none", notice.tone}
  <2>1. notice \in Notice
    BY DEF PageTypeOK
  <2>2. /\ [notice EXCEPT !.tone = "none"] \in Notice
        /\ [notice EXCEPT !.tone = "none"].base = notice.base
        /\ [notice EXCEPT !.tone = "none"].tone = "none"
    BY <2>1, Zenon DEF Notice
  <2>3. QED
    BY <1>1, <2>1, <2>2
<1>5. PageTypeOK'
  BY <1>1, <1>2, <1>3, <1>4 DEF PageTypeOK
<1>6. DbSound' /\ LoadSound' /\ PageSound'
  BY <1>2, <1>3, <1>4 DEF DbSound, LoadSound, PageSound, Exists, IsOpen
<1>7. FormSound' /\ TitleSound' /\ NameSound'
  BY <1>1, <1>2, <1>3 DEF FormSound, TitleSound, NameSound, Exists, IsOpen
<1>8. QED
  BY <1>5, <1>6, <1>7

\* What the server does with it, whatever the meeting has become meanwhile.
LEMMA ServerKeeps == ASSUME PageInv, ServerActs PROVE PageInv'
<1> USE DEF PageInv
<1>1. /\ form \notin {"none", "accepted"}
      /\ UNCHANGED <<visit, heading, load, page, notice, editor, save>>
      /\ form' \in {"accepted", "deleted", "refused"}
  BY DEF ServerActs
<1>2. load.at = 0 /\ visit # "names"
  BY <1>1 DEF FormSound
<1>3. heading.draft \in Titles
  BY Zenon DEF PageTypeOK, Heading
<1>4. /\ DbGrows
      /\ Exists' => /\ Exists /\ db'.name = db.name
                    /\ form' # "accepted" => db'.title = db.title
  <2>1. CASE db' = db
    BY <2>1, NumberFacts DEF DbGrows, PageTypeOK, Exists, DbSound
  <2>2. CASE db.status = "error" /\ db' = Retried(db)
    BY <2>2, RequestsGrow
  <2>3. CASE db.status = "done" /\ db' = RegenerationQueued(db)
    BY <2>3, RequestsGrow
  <2>4. CASE db' = Gone
    BY <2>4, RequestsGrow, UploadedFacts DEF Exists
  <2>5. CASE Exists /\ db' = Titled(heading.draft) /\ form' = "accepted"
    BY <1>3, <2>5, RequestsGrow
  <2>6. QED
    BY <2>1, <2>2, <2>3, <2>4, <2>5 DEF ServerActs, Exists
<1>5. DbSound' /\ LoadSound' /\ PageSound'
  BY <1>1, <1>4, GrowthKeeps, UnchangedStays
<1>6. PageTypeOK'
  BY <1>1, <1>4 DEF PageTypeOK, DbGrows
<1>7. FormSound' /\ TitleSound' /\ NameSound'
  BY <1>1, <1>2, <1>4 DEF FormSound, TitleSound, NameSound, IsOpen
<1>8. QED
  BY <1>5, <1>6, <1>7

\* The answer; after an accepted form the page is read again.
LEMMA AnsweredKeeps == ASSUME PageInv, FormAnswered PROVE PageInv'
<1> USE DEF PageInv
<1>1. /\ form \in {"accepted", "refused"} /\ form' = "none"
      /\ load' = IF form = "accepted" THEN LoadFor("form") ELSE load
      /\ heading' = IF visit = "title" THEN TitleAnswered(form = "accepted") ELSE heading
      /\ UNCHANGED <<visit, db, page, notice, editor, save>>
  BY DEF FormAnswered, ReadAgain
<1>2. load.at = 0 /\ visit # "names" /\ load.by # "save"
  BY <1>1 DEF FormSound
<1>3. /\ load' \in Load /\ load'.by # "save" /\ load'.at \in {0, 1}
      /\ form = "accepted" => load'.at = 1 /\ load'.by = "form"
      /\ form # "accepted" => load' = load
  BY <1>1, <1>2, LoadFacts DEF PageTypeOK
<1>4. heading' \in Heading /\ (heading'.told = "refused" => heading'.editing)
  <2>1. heading \in Heading
    BY DEF PageTypeOK
  <2>2. \A ok \in BOOLEAN : /\ TitleAnswered(ok) \in Heading
                            /\ TitleAnswered(ok).told = "refused" => TitleAnswered(ok).editing
    <3>1. TitleAnswered(TRUE) \in Heading /\ TitleAnswered(TRUE).told = "saved"
      BY <2>1, PageValues, Zenon DEF TitleAnswered, Heading
    <3>2. TitleAnswered(FALSE) \in Heading /\ TitleAnswered(FALSE).editing
      BY <2>1, PageValues, Zenon DEF TitleAnswered, Heading
    <3>3. QED
      BY <3>1, <3>2
  <2>3. QED
    BY <1>1, <2>1, <2>2 DEF TitleSound
<1>5. PageTypeOK'
  BY <1>1, <1>3, <1>4 DEF PageTypeOK
<1>6. DbSound' /\ LoadSound' /\ PageSound'
  BY <1>1, <1>3 DEF DbSound, LoadSound, PageSound, Exists, IsOpen
<1>7. FormSound' /\ TitleSound' /\ NameSound'
  BY <1>1, <1>2, <1>3, <1>4 DEF FormSound, TitleSound, NameSound, Exists, IsOpen
<1>8. QED
  BY <1>5, <1>6, <1>7

\* The editor of the title.
LEMMA TitleKeeps ==
  ASSUME PageInv, BeginsTitleEdit \/ TypesTitle \/ CancelsTitleEdit \/ SubmitsTitle
  PROVE  PageInv'
<1> USE DEF PageInv
<1>1. heading \in Heading /\ page.title \in Titles /\ page \in View
  BY Zenon DEF PageTypeOK, View
<1>2. CASE BeginsTitleEdit \/ TypesTitle \/ CancelsTitleEdit
  <2>1. UNCHANGED <<visit, db, load, page, notice, form, editor, save>>
    BY <1>2 DEF BeginsTitleEdit, TypesTitle, CancelsTitleEdit
  <2>2. /\ heading' \in Heading /\ (heading'.told = "refused" => heading'.editing)
        /\ heading'.editing => visit = "title"
    <3>1. /\ HeadingOf(page.title) \in Heading /\ HeadingOf(page.title).told = "none"
          /\ ~HeadingOf(page.title).editing
      BY <1>1, EditorFacts
    <3>2. CASE BeginsTitleEdit
      <4>1. heading' = [HeadingOf(page.title) EXCEPT !.editing = TRUE]
        BY <3>2 DEF BeginsTitleEdit
      <4>2. heading' \in Heading /\ heading'.editing = TRUE
        BY <3>1, <4>1, PageValues, Zenon DEF Heading
      <4>3. QED
        BY <3>2, <4>2 DEF BeginsTitleEdit
    <3>3. CASE TypesTitle
      <4>1. heading' = [heading EXCEPT !.draft = "typed"] /\ heading.editing
        BY <3>3 DEF TypesTitle
      <4>2. heading' \in Heading /\ heading'.editing = heading.editing
        BY <1>1, <4>1, EditorFacts, Zenon DEF Heading
      <4>3. QED
        BY <4>1, <4>2 DEF FormSound
    <3>4. CASE CancelsTitleEdit
      BY <3>1, <3>4 DEF CancelsTitleEdit
    <3>5. QED
      BY <1>2, <3>2, <3>3, <3>4
  <2>3. PageTypeOK'
    BY <2>1, <2>2 DEF PageTypeOK
  <2>4. DbSound' /\ LoadSound' /\ PageSound'
    BY <2>1 DEF DbSound, LoadSound, PageSound, Exists, IsOpen
  <2>5. FormSound' /\ TitleSound' /\ NameSound'
    BY <2>1, <2>2 DEF FormSound, TitleSound, NameSound, Exists, IsOpen
  <2>6. QED
    BY <2>3, <2>4, <2>5
<1>3. CASE SubmitsTitle
  <2>1. /\ form' = "title" /\ form = "none" /\ ~(load.at # 0 /\ load.by = "form")
        /\ load' = IF load.by = "poll" THEN NoLoad ELSE load
        /\ UNCHANGED <<visit, db, page, notice, heading, editor, save>>
        /\ heading.editing
    BY <1>3 DEF SubmitsTitle, IsSubmitting
  <2>2. visit = "title"
    BY <2>1 DEF FormSound
  <2>3. load' \in Load /\ load'.at = 0 /\ load'.by \in {"poll", "form"}
    BY <2>1, <2>2, LoadFacts, Zenon DEF PageTypeOK, FormSound, Load
  <2>4. PageTypeOK'
    BY <2>1, <2>3 DEF PageTypeOK
  <2>5. DbSound' /\ LoadSound' /\ PageSound'
    BY <2>1, <2>3 DEF DbSound, LoadSound, PageSound, Exists, IsOpen
  <2>6. FormSound' /\ TitleSound' /\ NameSound'
    BY <2>1, <2>2, <2>3 DEF FormSound, TitleSound, NameSound, Exists, IsOpen
  <2>7. QED
    BY <2>4, <2>5, <2>6
<1>4. QED
  BY <1>2, <1>3

\* The editor of a name.
LEMMA NameEditKeeps ==
  ASSUME PageInv, BeginsEdit \/ TypesName \/ CancelsEdit
  PROVE  PageInv'
<1> USE DEF PageInv
<1>1. UNCHANGED <<visit, heading, db, load, page, notice, form, save>>
  BY DEF BeginsEdit, TypesName, CancelsEdit
<1>2. editor \in Editor /\ page.name \in Names
  BY Zenon DEF PageTypeOK, View
<1>3. /\ editor' \in Editor
      /\ ~editor'.open /\ ~editor'.orphan => ~editor'.kept
      /\ ~editor'.kept => editor'.value = page.name /\ editor'.persisted = page.name
      /\ editor'.open => visit = "names"
  <2>1. CASE BeginsEdit
    <3>1. editor' = [editor EXCEPT !.open = TRUE, !.value = editor.persisted,
                                   !.kept = editor.kept \/ ~IsSaving]
      BY <2>1 DEF BeginsEdit
    <3>2. (editor.kept \/ ~IsSaving) \in BOOLEAN
      OBVIOUS
    <3>3. /\ editor' \in Editor /\ editor'.open = TRUE
          /\ editor'.value = editor.persisted /\ editor'.persisted = editor.persisted
          /\ editor'.kept = (editor.kept \/ ~IsSaving)
      BY <1>2, <3>1, <3>2, PageValues, Zenon DEF Editor
    <3>4. QED
      BY <2>1, <3>3 DEF NameSound, BeginsEdit
  <2>2. CASE TypesName
    <3>1. PICK name \in {"none", "typed"} :
            editor' = [editor EXCEPT !.value = name, !.kept = TRUE]
      BY <2>2 DEF TypesName, Typed
    <3>2. editor' \in Editor /\ editor'.kept = TRUE /\ editor'.open = editor.open
      BY <1>2, <3>1, PageValues, EditorFacts, Zenon DEF Editor
    <3>3. QED
      BY <2>2, <3>2 DEF TypesName, FormSound
  <2>3. CASE CancelsEdit
    BY <1>2, <2>3, EditorFacts DEF CancelsEdit, Released
  <2>4. QED
    BY <2>1, <2>2, <2>3
<1>4. PageTypeOK'
  BY <1>1, <1>3 DEF PageTypeOK
<1>5. DbSound' /\ LoadSound' /\ PageSound'
  BY <1>1 DEF DbSound, LoadSound, PageSound, Exists, IsOpen
<1>6. FormSound' /\ TitleSound' /\ NameSound'
  BY <1>1, <1>3 DEF FormSound, TitleSound, NameSound, Exists, IsOpen
<1>7. QED
  BY <1>4, <1>5, <1>6

\* A save moves on.
LEMMA SavePointFacts ==
  ASSUME NEW s \in Save, NEW at \in {"none", "find", "check", "write", "ok", "refused"}
  PROVE  LET n == [s EXCEPT !.at = at]
         IN  n \in Save /\ n.at = at
BY Zenon DEF Save

\* The save's request, up to its write.
LEMMA NameSaveKeeps ==
  ASSUME PageInv, SubmitsName \/ SaveFinds \/ SaveChecks
  PROVE  PageInv'
<1> USE DEF PageInv
<1>1. UNCHANGED <<visit, heading, db, load, page, notice, form>>
  BY DEF SubmitsName, SaveFinds, SaveChecks
<1>2. editor \in Editor /\ save \in Save
  BY Zenon DEF PageTypeOK
<1>3. /\ editor' \in Editor /\ save' \in Save /\ visit = "names"
      /\ save'.at # "ok" /\ save.at # "ok"
      /\ editor'.open = editor.open /\ editor'.orphan = editor.orphan
      /\ editor'.value = editor.value /\ editor'.persisted = editor.persisted
      /\ editor'.kept => editor.open \/ editor' = editor
      /\ ~editor'.kept => ~editor.kept
      /\ save.at = "none" => ~IsSaving
  <2>1. CASE SubmitsName
    <3>1. /\ editor' = [editor EXCEPT !.kept = TRUE] /\ editor.open /\ ~IsSaving
          /\ save' = [at |-> "find", sent |-> editor.value, heard |-> TRUE]
      BY <2>1 DEF SubmitsName
    <3>2. /\ editor' \in Editor /\ editor'.kept = TRUE /\ editor'.open = editor.open
          /\ editor'.orphan = editor.orphan
          /\ editor'.value = editor.value /\ editor'.persisted = editor.persisted
      BY <1>2, <3>1, PageValues, Zenon DEF Editor
    <3>3. editor.value \in Names
      BY <1>2, Zenon DEF Editor
    <3>4. save' \in Save
      BY <3>1, <3>3, PageValues, Zenon DEF Save
    <3>5. QED
      BY <3>1, <3>2, <3>4 DEF IsSaving, FormSound
  <2>2. CASE SaveFinds \/ SaveChecks
    <3>1. /\ editor' = editor /\ save.at \in {"find", "check"}
          /\ \E at \in {"refused", "check", "write"} : save' = [save EXCEPT !.at = at]
      BY <2>2 DEF SaveFinds, SaveChecks
    <3>2. save' \in Save /\ save'.at \in {"refused", "check", "write"}
      <4>1. PICK at \in {"refused", "check", "write"} : save' = [save EXCEPT !.at = at]
        BY <3>1
      <4>2. QED
        BY <1>2, <4>1, SavePointFacts, ZenonT(30)
    <3>3. visit = "names"
      BY <3>1, EditorFacts DEF FormSound
    <3>4. QED
      BY <1>2, <3>1, <3>2, <3>3
  <2>3. QED
    BY <2>1, <2>2
<1>4. PageTypeOK'
  BY <1>1, <1>3 DEF PageTypeOK
<1>5. DbSound' /\ LoadSound' /\ PageSound'
  BY <1>1 DEF DbSound, LoadSound, PageSound, Exists, IsOpen
<1>6. FormSound' /\ TitleSound'
  BY <1>1, <1>3 DEF FormSound, TitleSound, Exists, IsOpen
<1>7. NameSound'
  <2>1. load.at # 0 /\ load.by = "save" => FALSE
    BY <1>3 DEF NameSound, IsSaving
  <2>2. QED
    BY <1>1, <1>3, <2>1 DEF NameSound, Exists, IsOpen
<1>8. QED
  BY <1>4, <1>5, <1>6, <1>7

\* Its write, and one whose answer is lost: then the page does not know that what it
\* shows is stale.
LEMMA SaveWritesKeeps == ASSUME PageInv, SaveWrites PROVE PageInv'
<1> USE DEF PageInv
<1>1. save.at = "write" /\ UNCHANGED <<visit, heading, notice, form, editor>>
  BY DEF SaveWrites
<1>2. visit = "names" /\ ~(load.at # 0 /\ load.by = "save")
  BY <1>1, EditorFacts DEF FormSound, NameSound
<1>3. save \in Save /\ save.sent \in Names /\ load \in Load /\ page \in View
  BY Zenon DEF PageTypeOK, Save
<1>4. CASE save' = [save EXCEPT !.at = "refused"] /\ UNCHANGED <<db, load, page>>
  <2>1. save' \in Save /\ save'.at = "refused"
    BY <1>3, <1>4, SavePointFacts
  <2>2. PageTypeOK' /\ DbSound' /\ LoadSound' /\ PageSound'
    BY <1>1, <1>4, <2>1 DEF PageTypeOK, DbSound, LoadSound, PageSound, Exists, IsOpen
  <2>3. FormSound' /\ TitleSound' /\ NameSound'
    BY <1>1, <1>2, <1>4, <2>1 DEF FormSound, TitleSound, NameSound, Exists, IsOpen
  <2>4. QED
    BY <2>2, <2>3
<1>5. CASE /\ db.status # "gone" /\ db' = Mapped(save.sent)
           /\ save' = [save EXCEPT !.at = "ok"] /\ UNCHANGED <<load, page>>
  <2>1. save' \in Save /\ save'.at = "ok"
    BY <1>3, <1>5, SavePointFacts
  <2>2. DbGrows /\ db'.title = db.title /\ Exists
    BY <1>3, <1>5, RequestsGrow DEF Exists
  <2>3. DbSound' /\ LoadSound' /\ PageSound'
    BY <1>1, <1>5, <2>2, GrowthKeeps, UnchangedStays
  <2>4. PageTypeOK'
    BY <1>1, <1>5, <2>1, <2>2 DEF PageTypeOK, DbGrows
  <2>5. FormSound' /\ TitleSound' /\ NameSound'
    BY <1>1, <1>2, <1>5, <2>1, <2>2 DEF FormSound, TitleSound, NameSound, Exists, IsOpen
  <2>6. QED
    BY <2>3, <2>4, <2>5
<1>6. CASE /\ db.status # "gone" /\ db' = Mapped(save.sent)
           /\ save' = [save EXCEPT !.at = "refused"]
           /\ load' = [load EXCEPT !.view.fresh = FALSE]
           /\ page' = [page EXCEPT !.fresh = FALSE]
  <2>1. save' \in Save /\ save'.at = "refused"
    BY <1>3, <1>6, SavePointFacts
  <2>2. DbGrows /\ db'.title = db.title /\ Exists
    BY <1>3, <1>6, RequestsGrow DEF Exists
  <2>3. /\ LoadStays /\ PageStays
        /\ load'.view.fresh = FALSE /\ page'.fresh = FALSE
        /\ load'.view.sure = load.view.sure /\ page'.sure = page.sure
    BY <1>3, <1>6, StaleFacts DEF LoadStays, PageStays
  <2>4. DbSound' /\ LoadSound' /\ PageSound'
    BY <1>1, <2>2, <2>3, GrowthKeeps
  <2>5. PageTypeOK'
    BY <1>1, <2>1, <2>2, <2>3 DEF PageTypeOK, DbGrows, LoadStays, PageStays
  <2>6. FormSound' /\ TitleSound' /\ NameSound'
    BY <1>1, <1>2, <2>1, <2>2, <2>3
    DEF FormSound, TitleSound, NameSound, Exists, IsOpen, LoadStays, PageStays, SameView
  <2>7. QED
    BY <2>4, <2>5, <2>6
<1>7. QED
  BY <1>4, <1>5, <1>6 DEF SaveWrites

\* Its answer; a stored name is read again.
LEMMA SaveAnsweredKeeps == ASSUME PageInv, SaveAnswered PROVE PageInv'
<1> USE DEF PageInv
<1>1. /\ save.at \in {"ok", "refused"} /\ save' = NoSave
      /\ UNCHANGED <<visit, heading, db, page, notice, form>>
      /\ save.at # "ok" => UNCHANGED <<editor, load>>
      /\ save.at = "ok" => /\ load' = LoadFor("save")
                           /\ editor' = editor \/ editor' = EditorOf(page.name)
  BY DEF SaveAnswered, Saved, Released
<1>2. visit = "names" /\ ~(load.at # 0 /\ load.by = "save") /\ form = "none"
  BY <1>1, EditorFacts DEF FormSound, NameSound
<1>3. /\ save' \in Save /\ save'.at = "none" /\ load' \in Load
      /\ save.at = "ok" => load'.at = 1 /\ load'.by = "save"
  BY <1>1, EditorFacts, LoadFacts DEF PageTypeOK
<1>4. /\ editor' \in Editor
      /\ ~editor'.open /\ ~editor'.orphan => ~editor'.kept
      /\ ~editor'.kept => editor'.value = page.name /\ editor'.persisted = page.name
  <2>1. page.name \in Names
    BY Zenon DEF PageTypeOK, View
  <2>2. QED
    BY <1>1, <2>1, EditorFacts DEF PageTypeOK, NameSound
<1>5. PageTypeOK'
  BY <1>1, <1>3, <1>4 DEF PageTypeOK
<1>6. DbSound' /\ LoadSound' /\ PageSound'
  BY <1>1, <1>3 DEF DbSound, LoadSound, PageSound, Exists, IsOpen
<1>7. FormSound' /\ TitleSound'
  BY <1>1, <1>2, <1>3 DEF FormSound, TitleSound, Exists, IsOpen
<1>8. NameSound'
  <2>1. CASE save.at = "ok"
    BY <1>1, <1>3, <1>4, <2>1 DEF NameSound
  <2>2. CASE save.at = "refused"
    BY <1>1, <1>2, <1>3, <1>4, <2>2 DEF NameSound, Exists, IsOpen
  <2>3. QED
    BY <1>1, <2>1, <2>2
<1>9. QED
  BY <1>5, <1>6, <1>7, <1>8

\* Every step of the page.
LEMMA PageKeeps == ASSUME PageInv, PageStep PROVE PageInv'
<1>1. CASE LoadFindsNothing \/ PageBreaks \/ MeetingDeleted
  BY <1>1, LeavesKeep DEF LoadFindsNothing, PageBreaks, MeetingDeleted
<1>2. CASE LoadReads \/ PollsMeeting \/ LoadLands \/ NoticeFades
  BY <1>2, LoadReadsKeeps, PollsKeeps, LandsKeeps, FadesKeeps
<1>3. CASE SubmitsForm \/ ServerActs \/ FormAnswered
  BY <1>3, SubmitsKeeps, ServerKeeps, AnsweredKeeps
<1>4. CASE BeginsTitleEdit \/ TypesTitle \/ CancelsTitleEdit \/ SubmitsTitle
  BY <1>4, TitleKeeps
<1>5. CASE BeginsEdit \/ TypesName \/ CancelsEdit
  BY <1>5, NameEditKeeps
<1>6. CASE SubmitsName \/ SaveFinds \/ SaveChecks
  BY <1>6, NameSaveKeeps
<1>7. CASE SaveWrites \/ SaveAnswered
  BY <1>7, SaveWritesKeeps, SaveAnsweredKeeps
<1>8. CASE WorkerWorks \/ OtherTabActs \/ OtherTabRenames \/ OtherTabRetitles
  BY <1>8, OthersKeep
<1> QED
  BY <1>1, <1>2, <1>3, <1>4, <1>5, <1>6, <1>7, <1>8 DEF PageStep

\* The notice of a page just opened, and of one that was not visited.
LEMMA NoticeBegins ==
  /\ \A n \in 0 .. MaxVersion :
       LET first == [NoNotice EXCEPT !.base = n]
       IN  first \in Notice /\ first.tone = "none" /\ first.base = n
  /\ NoNotice \in Notice /\ NoNotice.tone = "none" /\ NoNotice.base = 0
BY PageValues, Zenon DEF NoNotice, Notice

\* A page just opened, and one that was not visited.
LEMMA PageStart == ASSUME PageInit \/ MeetingLeft PROVE PageInv
<1>1. /\ db \in Meeting /\ page = ViewOf(db)
      /\ db.status \in {"busy", "error"} => db.version = 0 /\ db.regen = "idle"
      /\ db.status = "done" => db.version >= 1 /\ db.label
  BY ViewFacts, UploadedFacts DEF PageInit, MeetingLeft, IsOpened
<1>2. /\ load = NoLoad /\ form = "none" /\ save = NoSave
      /\ editor = EditorOf(db.name) /\ heading = HeadingOf(db.title)
  BY UploadedFacts DEF PageInit, MeetingLeft
<1>3. /\ db.name \in Names /\ db.title \in Titles /\ db.version \in 0 .. MaxVersion
      /\ db.regen \in {"idle", "active", "failed"}
  BY <1>1, Zenon DEF Meeting
<1>4. /\ notice \in Notice /\ notice.tone = "none" /\ notice.base = db.version
  BY <1>3, UploadedFacts, NoticeBegins DEF PageInit, MeetingLeft
<1>5. /\ load \in Load /\ load.at = 0 /\ load.by = "poll" /\ save \in Save
      /\ save.at = "none" /\ editor \in Editor /\ ~editor.open /\ ~editor.kept
      /\ editor.value = db.name /\ editor.persisted = db.name
      /\ heading \in Heading /\ ~heading.editing /\ heading.told = "none"
  BY <1>2, <1>3, LoadFacts, EditorFacts
<1>6. /\ page \in View /\ page.name = db.name /\ page.title = db.title
      /\ page.status = db.status /\ page.version = db.version /\ page.label = db.label
      /\ page.since = db.version /\ page.regen = db.regen
  BY <1>1, ViewFacts, ViewOfFacts
<1>7. PageTypeOK
  BY <1>1, <1>2, <1>4, <1>5, <1>6 DEF PageTypeOK
<1>8. DbSound /\ LoadSound /\ PageSound
  BY <1>1, <1>3, <1>4, <1>5, <1>6 DEF DbSound, LoadSound, PageSound, Over
<1>9. FormSound /\ TitleSound /\ NameSound
  BY <1>2, <1>5, <1>6 DEF FormSound, TitleSound, NameSound
<1> QED
  BY <1>7, <1>8, <1>9 DEF PageInv

\* The invariant of the page, in every behaviour of the web app.
THEOREM PageSafe == FairSpec => []PageInv
<1>1. Init => PageInv
  BY PageStart DEF Init
<1>2. PageInv /\ [Next]_vars => PageInv'
  <2> SUFFICES ASSUME PageInv, [Next]_vars PROVE PageInv'
    OBVIOUS
  <2>1. CASE PageStep
    BY <2>1, PageKeeps
  <2>2. CASE UNCHANGED pageVars
    BY <2>2 DEF pageVars, PageInv, PageTypeOK, DbSound, LoadSound, PageSound, FormSound,
                TitleSound, NameSound, Exists, IsOpen
  <2>3. QED
    BY <2>1, <2>2 DEF Next, vars
<1> QED
  BY <1>1, <1>2, PTL DEF FairSpec

-----------------------------------------------------------------------------
\* loadMeetingDetail: although its four statements are no snapshot, a page that has
\* stopped polling at a finished meeting shows it with its transcript and with a
\* summary no older than its status.
THEOREM RestIsComplete == FairSpec => []PageAtRestIsComplete
<1>1. PageInv => PageAtRestIsComplete
  BY DEF PageInv, PageSound, PageAtRestIsComplete, Exists, IsOpen
<1> QED
  BY <1>1, PageSafe, PTL

\* getObservedSummaryRegenerationNotice: "Summary regenerated." is said only next to
\* a summary newer than the one there was when the regeneration was first seen,
\* in whatever order runs of the loader, forms and other tabs come.
THEOREM NoticeTrue == FairSpec => []NoticeIsTrue
<1>1. PageInv => NoticeIsTrue
  BY DEF PageInv, PageSound, NoticeIsTrue, Exists, IsOpen
<1> QED
  BY <1>1, PageSafe, PTL

\* The editors of the title and of a name: on a quiet page they show what is
\* stored, whatever was saved, refused or lost before.
THEOREM EditsStored == FairSpec => []EditsAtRestAreStored
<1>1. PageInv => NameAtRest
  BY DEF PageInv, NameSound, NameAtRest, Exists, IsOpen
<1>2. PageInv => TitleAtRest
  BY DEF PageInv, TitleSound, TitleAtRest, IsSubmitting, Exists, IsOpen
<1> QED
  BY <1>1, <1>2, PageSafe, PTL DEF EditsAtRestAreStored

\* The effect on speakerMappings: no refresh, save or answer replaces a name that is
\* being typed.
THEOREM TypedSurvives == FairSpec => TypedNameSurvives
<1> DEFINE Survives == (editor.open /\ editor'.open /\ editor.value # editor.persisted)
                         => (editor'.value = editor.value \/ TypesName)
<1>1. PageInv /\ [Next]_vars => [Survives]_pageVars
  <2> SUFFICES ASSUME PageInv, PageStep PROVE Survives
    BY DEF Next, vars
  <2> SUFFICES ASSUME editor.open, editor'.open, editor.value # editor.persisted,
                      ~TypesName
               PROVE  editor'.value = editor.value
    OBVIOUS
  <2>1. editor.kept
    BY DEF PageInv, NameSound
  <2>2. editor \in Editor /\ load \in Load
    BY DEF PageInv, PageTypeOK
  <2>3. \A n : ~EditorOf(n).open
    BY EditorFacts
  <2>4. CASE LoadLands
    <3>1. load.view \in View
      BY <2>2, NumberFacts
    <3>2. QED
      BY <2>1, <2>2, <2>4, <3>1, MergedFacts DEF LoadLands
  <2>5. CASE SubmitsName
    <3>1. editor' = [editor EXCEPT !.kept = TRUE]
      BY <2>5 DEF SubmitsName
    <3>2. QED
      BY <2>2, <3>1 DEF Editor
  <2>6. CASE CancelsEdit \/ SaveAnswered
    BY <2>3, <2>6 DEF CancelsEdit, SaveAnswered, Saved, Released
  <2>7. CASE LoadFindsNothing \/ PageBreaks \/ MeetingDeleted
    BY <2>3, <2>7 DEF LoadFindsNothing, PageBreaks, MeetingDeleted, PageLeft
  <2>8. ~BeginsEdit
    BY DEF BeginsEdit
  <2>9. QED
    BY <2>4, <2>5, <2>6, <2>7, <2>8
    DEF PageStep, LoadReads, PollsMeeting, NoticeFades, SubmitsForm, ServerActs,
        FormAnswered, BeginsTitleEdit, TypesTitle, CancelsTitleEdit, SubmitsTitle,
        SaveFinds, SaveChecks, SaveWrites, WorkerWorks, OtherTabActs, OtherTabRenames,
        OtherTabRetitles
<1> QED
  BY <1>1, PageSafe, PTL DEF FairSpec, TypedNameSurvives

-----------------------------------------------------------------------------
(* What page and export say of a meeting.                                   *)

\* The types, and that the record has all of its fields.
ReportInv == DOMAIN saved = {"text", "owner", "heard", "said", "names"} /\ ReportTypeOK

\* A transcript has labels only.
LEMMA HeardLabels == \A labels \in Transcripts : labels \subseteq Labels
BY Zenon DEF Transcripts, Labels

\* Nothing was saved yet.
LEMMA ReportBegins == ASSUME ReportInit PROVE ReportInv
<1>1. << >> \in Texts
  <2>1. << >> \in [1 .. 0 -> Symbols] /\ 0 \in 0 .. MaxText
    BY TextAssumption
  <2> QED
    BY <2>1, Zenon DEF Texts
<1>2. /\ DOMAIN saved = {"text", "owner", "heard", "said", "names"}
      /\ saved.text = << >> /\ saved.owner = NoOwner /\ saved.heard = {}
      /\ saved.said = << >> /\ saved.names = << >>
  BY DEF ReportInit
<1>3. {} \in Transcripts /\ NoOwner \in Owners /\ << >> \in Sayings
  BY Zenon DEF Transcripts, Owners, Sayings
<1>4. DOMAIN saved.names = {} /\ Range(saved.names) = {}
  <2>1. DOMAIN saved.names = {}
    BY <1>2
  <2> QED
    BY <2>1 DEF Range
<1> QED
  BY <1>1, <1>2, <1>3, <1>4, Zenon DEF ReportInv, ReportTypeOK

\* Transcript, summary and mapping.
LEMMA ReportSteps == ASSUME ReportInv, ReportStep PROVE ReportInv'
<1>1. CASE Transcribes
  <2>1. PICK labels \in Transcripts, said \in Sayings :
          saved' = [saved EXCEPT !.heard = labels, !.said = said]
    BY <1>1 DEF Transcribes
  <2>2. /\ DOMAIN saved' = DOMAIN saved /\ saved'.text = saved.text
        /\ saved'.owner = saved.owner /\ saved'.heard = labels
        /\ saved'.said = said /\ saved'.names = saved.names
    BY <2>1 DEF ReportInv
  <2> QED
    BY <2>2, Zenon DEF ReportInv, ReportTypeOK
<1>2. CASE Summarizes
  <2>1. PICK text \in Texts, owner \in Owners :
          saved' = [saved EXCEPT !.text = text, !.owner = owner]
    BY <1>2 DEF Summarizes
  <2>2. /\ DOMAIN saved' = DOMAIN saved /\ saved'.text = text
        /\ saved'.owner = owner /\ saved'.heard = saved.heard
        /\ saved'.said = saved.said /\ saved'.names = saved.names
    BY <2>1 DEF ReportInv
  <2> QED
    BY <2>2, Zenon DEF ReportInv, ReportTypeOK
<1>3. ASSUME NEW names, saved' = [saved EXCEPT !.names = names],
             DOMAIN names \subseteq Labels, Range(names) \subseteq PersonNames
      PROVE  ReportInv'
  <2>1. /\ DOMAIN saved' = DOMAIN saved /\ saved'.text = saved.text
        /\ saved'.owner = saved.owner /\ saved'.heard = saved.heard
        /\ saved'.said = saved.said /\ saved'.names = names
    BY <1>3 DEF ReportInv
  <2> QED
    BY <1>3, <2>1, Zenon DEF ReportInv, ReportTypeOK
<1>4. DOMAIN saved.names \subseteq Labels
      /\ \A l \in DOMAIN saved.names : saved.names[l] \in PersonNames
  BY Zenon DEF ReportInv, ReportTypeOK, Range
<1>5. saved.heard \subseteq Labels
  BY HeardLabels DEF ReportInv, ReportTypeOK
<1>6. CASE NamesSpeaker
  <2>1. PICK label \in saved.heard, name \in PersonNames :
          saved' = [saved EXCEPT !.names =
                      [l \in DOMAIN saved.names \union {label} |->
                         IF l = label THEN name ELSE saved.names[l]]]
    BY <1>6 DEF NamesSpeaker
  <2> DEFINE names == [l \in DOMAIN saved.names \union {label} |->
                         IF l = label THEN name ELSE saved.names[l]]
  <2>2. DOMAIN names \subseteq Labels /\ \A l \in DOMAIN names : names[l] \in PersonNames
    BY <1>4, <1>5
  <2>3. saved' = [saved EXCEPT !.names = names]
    BY <2>1
  <2> HIDE DEF names
  <2>4. Range(names) \subseteq PersonNames
    BY <2>2, Zenon DEF Range
  <2> QED
    BY <1>3, <2>2, <2>3, <2>4
<1>7. CASE ForgetsSpeaker
  <2>1. PICK label \in saved.heard :
          saved' = [saved EXCEPT !.names =
                      [l \in DOMAIN saved.names \ {label} |-> saved.names[l]]]
    BY <1>7 DEF ForgetsSpeaker
  <2> DEFINE names == [l \in DOMAIN saved.names \ {label} |-> saved.names[l]]
  <2>2. DOMAIN names \subseteq Labels /\ \A l \in DOMAIN names : names[l] \in PersonNames
    BY <1>4
  <2>3. saved' = [saved EXCEPT !.names = names]
    BY <2>1
  <2> HIDE DEF names
  <2>4. Range(names) \subseteq PersonNames
    BY <2>2, Zenon DEF Range
  <2> QED
    BY <1>3, <2>2, <2>3, <2>4
<1> QED
  BY <1>1, <1>2, <1>6, <1>7 DEF ReportStep

\* Only a label of the transcript is given a name, so the names, kept through a
\* retry's new transcript, never name anything but labels.
THEOREM ReportTypes == FairSpec => []ReportInv
<1>1. Init => ReportInv
  BY ReportBegins DEF Init
<1>2. ReportInv /\ [Next]_vars => ReportInv'
  <2> SUFFICES ASSUME ReportInv, [Next]_vars PROVE ReportInv'
    OBVIOUS
  <2>1. ReportStep \/ UNCHANGED saved
    BY DEF Next, vars
  <2>2. CASE UNCHANGED saved
    BY <2>2, Zenon DEF ReportInv, ReportTypeOK
  <2> QED
    BY <2>1, <2>2, ReportSteps
<1> QED
  BY <1>1, <1>2, PTL DEF FairSpec

\* Every variable of the web app keeps its type: requests, fetches, editors and data
\* of all three routes, and what is not visited stays as it was left.
THEOREM WebTypes == FairSpec => []TypeOK
<1> DEFINE Routed == route \in {"home", "meeting", "export"}
<1>1. Init => Routed
  BY DEF Init
<1>2. Routed /\ [Next]_vars => Routed'
  BY DEF Next, vars
<1>3. FairSpec => []Routed
  BY <1>1, <1>2, PTL DEF FairSpec
<1>4. Routed /\ HomeInv /\ PageInv /\ ReportInv => TypeOK
  BY DEF HomeInv, UploadInv, HomeSound, HomeTypeOK, PageInv, ReportInv, TypeOK
<1> QED
  BY <1>3, <1>4, HomeSafe, PageSafe, ReportTypes, PTL
=============================================================================
