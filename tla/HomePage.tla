------------------------------- MODULE HomePage -------------------------------
(***************************************************************************)
(* The list of meetings in one browser tab (home.tsx) and an upload made   *)
(* from it.  The list is a query cache with three writers: the loader's    *)
(* data after an upload, the poll, and the refetch an upload asks for.     *)
(*                                                                         *)
(* React Router: an answer below 400 makes the page's loader run again,    *)
(* and its data arrives in the commit in which the fetcher becomes idle; a *)
(* request without an answer replaces the page by an error.  React Query:  *)
(* one fetch at a time; a fetch that fails leaves the data alone; a fetch  *)
(* on mount and on reconnecting, besides the interval.                     *)
(***************************************************************************)
EXTENDS UploadRequest

VARIABLES other,   \* another meeting in the table
          list,    \* the two meetings as the page lists them
          tab,     \* the upload dialog and the upload's fetcher
          loader,  \* the loader's run after an upload
          poll     \* the query's fetch

homeVars == <<up, dir, row, other, list, tab, loader, poll>>

Progress == {"absent", "active", "ended"}

List == [mine : Progress, other : Progress]

Fetch == [at : {"none", "asked", "read"}, data : List]

Tab == [fetcher : {"idle", "submitting", "loading"}, dialog : BOOLEAN, broken : BOOLEAN]

\* loadHomeMeetings: one statement.
Table == [mine |-> row, other |-> other]

NoFetch == [at |-> "none", data |-> [mine |-> "absent", other |-> "absent"]]

Asked == [NoFetch EXCEPT !.at = "asked"]

FreshTab == [fetcher |-> "idle", dialog |-> FALSE, broken |-> FALSE]

\* The loader's data is stale from the start, so the query fetches on mount.
HomeInit ==
  /\ UploadInit /\ other \in {"absent", "active"}
  /\ list = Table /\ tab = FreshTab /\ loader = NoFetch /\ poll = Asked

-----------------------------------------------------------------------------
(* The upload dialog.                                                       *)

IsUploading == tab.fetcher # "idle"

OpenUploadDialog ==
  /\ ~tab.broken /\ ~IsUploading
  /\ tab' = [tab EXCEPT !.dialog = TRUE]
  /\ UNCHANGED <<up, dir, row, other, list, loader, poll>>

\* Cancel and Close are disabled while the upload runs.
CloseUploadDialog ==
  /\ ~tab.broken /\ tab.dialog /\ ~IsUploading
  /\ tab' = [tab EXCEPT !.dialog = FALSE]
  /\ UNCHANGED <<up, dir, row, other, list, loader, poll>>

\* The dialog's form, or a file dropped on the page.  One upload is followed to
\* the meeting it makes; it may be refused and tried again before.
SubmitRecording ==
  /\ ~tab.broken /\ ~IsUploading
  /\ up.at \notin {"receiving", "settling", "enqueue", "cleanup"} /\ row = "absent"
  /\ RequestArrives
  /\ tab' = [tab EXCEPT !.fetcher = "submitting"]
  /\ UNCHANGED <<other, list, loader, poll>>

UploadAccepted ==
  /\ tab.fetcher = "submitting" /\ up.at = "answered" /\ up.answer = 200
  /\ tab' = [tab EXCEPT !.fetcher = "loading"] /\ loader' = Asked
  /\ UNCHANGED <<up, dir, row, other, list, poll>>

UploadRefused ==
  /\ tab.fetcher = "submitting" /\ up.at = "answered" /\ up.answer # 200
  /\ tab' = [tab EXCEPT !.fetcher = "idle"]
  /\ UNCHANGED <<up, dir, row, other, list, loader, poll>>

\* The server died, or the connection did before the answer came.
UploadUnanswered ==
  /\ tab.fetcher = "submitting"
  /\ \/ up.at \in {"killed", "unhandled"}
     \/ up.at = "answered" /\ up.error \in {499, 500}
  /\ tab' = [tab EXCEPT !.broken = TRUE, !.fetcher = "idle"]
  /\ loader' = NoFetch /\ poll' = NoFetch
  /\ UNCHANGED <<up, dir, row, other, list>>

\* The page is loaded again.
Reload ==
  /\ tab.broken
  /\ tab' = FreshTab /\ list' = Table /\ poll' = Asked
  /\ UNCHANGED <<up, dir, row, other, loader>>

-----------------------------------------------------------------------------
(* What the list shows.                                                     *)

\* Variant: a fetch under way answers for the refetch too.
InvalidatedKeepingFetch(f) == IF f.at = "none" THEN Asked ELSE f

\* invalidateQueries: a fetch under way is cancelled, a new one starts.
Invalidated(f) == Asked

LoaderReads ==
  /\ loader.at = "asked" /\ loader' = [at |-> "read", data |-> Table]
  /\ UNCHANGED <<up, dir, row, other, list, tab, poll>>

\* Variant: the list is left to the refetch.
ListWithQueryData(shown, data) == shown

\* setQueryData
ListWithLoaderData(shown, data) == data

\* The two effects: the loader's data becomes the query's, then the dialog is
\* closed and the query refetched.
LoaderLands ==
  /\ loader.at = "read" /\ loader' = NoFetch
  /\ list' = ListWithLoaderData(list, loader.data)
  /\ tab' = [tab EXCEPT !.fetcher = "idle", !.dialog = FALSE]
  /\ poll' = Invalidated(poll)
  /\ UNCHANGED <<up, dir, row, other>>

LoaderFails ==
  /\ loader.at # "none" /\ loader' = NoFetch /\ poll' = NoFetch
  /\ tab' = [tab EXCEPT !.fetcher = "idle", !.broken = TRUE]
  /\ UNCHANGED <<up, dir, row, other, list>>

\* Variant: only when all of them are being worked on.
ShouldPollAllMeetings(l) == l.mine = "active" /\ l.other = "active"

ShouldPollMeetings(l) == l.mine = "active" \/ l.other = "active"

PollTick ==
  /\ ~tab.broken /\ poll.at = "none" /\ ShouldPollMeetings(list)
  /\ poll' = Asked
  /\ UNCHANGED <<up, dir, row, other, list, tab, loader>>

\* The browser is online again.
Reconnects ==
  /\ ~tab.broken /\ poll.at = "none" /\ poll' = Asked
  /\ UNCHANGED <<up, dir, row, other, list, tab, loader>>

PollReads ==
  /\ poll.at = "asked" /\ poll' = [at |-> "read", data |-> Table]
  /\ UNCHANGED <<up, dir, row, other, list, tab, loader>>

PollLands ==
  /\ poll.at = "read" /\ list' = poll.data /\ poll' = NoFetch
  /\ UNCHANGED <<up, dir, row, other, tab, loader>>

\* Its last retry failed.
PollFails ==
  /\ poll.at = "read" /\ poll' = NoFetch
  /\ UNCHANGED <<up, dir, row, other, list, tab, loader>>

-----------------------------------------------------------------------------
(* Everybody else.                                                          *)

\* The worker ends its work on a meeting.
MeetingEnds ==
  /\ \/ row = "active" /\ row' = "ended" /\ UNCHANGED other
     \/ other = "active" /\ other' = "ended" /\ UNCHANGED row
  /\ UNCHANGED <<up, dir, list, tab, loader, poll>>

\* Another tab uploads a meeting, or has one worked on again.
OtherStarts ==
  /\ other # "active" /\ other' = "active"
  /\ UNCHANGED <<up, dir, row, list, tab, loader, poll>>

Untouched == UNCHANGED <<other, list, tab, loader, poll>>

HomeStep ==
  \/ UploadStep /\ Untouched
  \/ OpenUploadDialog \/ CloseUploadDialog \/ SubmitRecording
  \/ UploadAccepted \/ UploadRefused \/ UploadUnanswered \/ Reload
  \/ LoaderReads \/ LoaderLands \/ LoaderFails
  \/ PollTick \/ Reconnects \/ PollReads \/ PollLands \/ PollFails
  \/ MeetingEnds \/ OtherStarts

\* The client goes on sending, the server and the browser go on working, and the
\* list can be fetched now and then.
HomeFairness ==
  /\ WF_homeVars((ServerWorks \/ ClientSends) /\ Untouched)
  /\ WF_homeVars(UploadAccepted \/ UploadRefused \/ UploadUnanswered)
  /\ WF_homeVars(LoaderReads) /\ WF_homeVars(LoaderLands)
  /\ WF_homeVars(PollTick) /\ WF_homeVars(PollReads) /\ SF_homeVars(PollLands)

-----------------------------------------------------------------------------
HomeTypeOK ==
  /\ up \in UploadType /\ dir \in {"none", "partial", "whole"}
  /\ row \in Progress /\ other \in Progress /\ list \in List
  /\ tab \in Tab /\ loader \in Fetch /\ poll \in Fetch

\* A meeting that was listed stays in the list, whatever answers arrive late
\* (home.tsx: setQueryData and invalidateQueries).
ListKeepsUpload == [][list.mine # "absent" => list'.mine # "absent"]_homeVars

\* An accepted upload is listed, also when every later fetch fails.
OwnUploadAppears ==
  (tab.fetcher = "loading") ~> (list.mine # "absent" \/ tab.broken)

\* Once nothing is worked on any more, the list says so (CONTEXT.md: "Once
\* everything visible is `done` or `error`, polling stops").
ListSettles ==
  <>[](row # "active" /\ other # "active")
    => <>[](tab.broken \/ (list.mine # "active" /\ list.other # "active"))

\* An upload gets its answer, whatever went wrong in it.
UploadIsAnswered == (tab.fetcher = "submitting") ~> (tab.fetcher # "submitting")
=============================================================================
