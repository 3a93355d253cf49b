----------------------------- MODULE MeetingPage -----------------------------
(***************************************************************************)
(* The page of one meeting in one browser tab (meetings.$meetingId.tsx):   *)
(* its loader, which reads the database with four statements and is run    *)
(* again every five seconds while something is going on, the notice about  *)
(* a regenerated summary, the page's forms, the editor of the title, and   *)
(* the editor of one speaker's name; both may be open while the page is    *)
(* refreshed under them.                                                   *)
(*                                                                         *)
(* Of runs of the loader React Router keeps the newest.  An answer below   *)
(* 400 makes the loader run; a request without an answer, or a loader that *)
(* fails, replaces the page by an error.                                   *)
(***************************************************************************)
EXTENDS Naturals

CONSTANT MaxVersion  \* bound on the summary versions

ASSUME VersionAssumption == MaxVersion \in Nat \ {0}

VARIABLES visit,   \* what the visit is about (a bound: one of Visits)
          db,      \* the meeting in the database
          load,    \* the newest run of the loader
          page,    \* what the page shows
          notice,  \* the notice on the summary
          form,    \* the submitted form
          heading, \* the editor of the title
          editor,  \* the speaker's row
          save     \* its request

pageVars == <<visit, db, load, page, notice, form, heading, editor, save>>

Visits == {"forms", "title", "names"}

Titles == {"first", "typed", "other"}

Names == {"none", "typed", "other"}

\* "busy" is any status at which the worker has yet to work, an "active"
\* regeneration is pending or processing, `label` says whether the transcript
\* has the speaker's label, `version` is the latest summary's number or 0.
Meeting == [status : {"busy", "done", "error", "gone"},
            regen : {"idle", "active", "failed"},
            version : 0 .. MaxVersion, label : BOOLEAN, name : Names,
            title : Titles]

Uploaded == [status |-> "busy", regen |-> "idle", version |-> 0,
             label |-> FALSE, name |-> "none", title |-> "first"]

Gone == [Uploaded EXCEPT !.status = "gone"]

\* What one run of the loader found; `since` is the version at the time it read
\* the meeting's row, `fresh` and `sure` that nobody else has changed the name or
\* the title since.
View == [status : {"busy", "done", "error", "gone"},
         regen : {"idle", "active", "failed"}, version : 0 .. MaxVersion,
         label : BOOLEAN, name : Names, title : Titles,
         since : 0 .. MaxVersion, fresh : BOOLEAN, sure : BOOLEAN]

ViewOf(m) == [status |-> m.status, regen |-> m.regen, version |-> m.version,
              label |-> m.label, name |-> m.name, title |-> m.title,
              since |-> m.version, fresh |-> TRUE, sure |-> TRUE]

Load == [at : 0 .. 5, by : {"poll", "form", "save"}, view : View]

NoLoad == [at |-> 0, by |-> "poll", view |-> [ViewOf(Gone) EXCEPT !.fresh = FALSE]]

LoadFor(by) == [NoLoad EXCEPT !.at = 1, !.by = by]

Editor == [open : BOOLEAN, value : Names, persisted : Names,
           kept : BOOLEAN, orphan : BOOLEAN]

EditorOf(name) == [open |-> FALSE, value |-> name, persisted |-> name,
                   kept |-> FALSE, orphan |-> FALSE]

Save == [at : {"none", "find", "check", "write", "ok", "refused"},
         sent : Names, heard : BOOLEAN]

NoSave == [at |-> "none", sent |-> "none", heard |-> TRUE]

Notice == [tone : {"none", "success", "danger"}, base : 0 .. MaxVersion]

NoNotice == [tone |-> "none", base |-> 0]

\* `told`: "Title saved as ...", or why it was not.
Heading == [editing : BOOLEAN, draft : Titles, told : {"none", "saved", "refused"}]

HeadingOf(title) == [editing |-> FALSE, draft |-> title, told |-> "none"]

\* A meeting as the pipeline leaves it, whenever its page is opened; "first" is
\* the title it has then.  Visits about a name or the title do without what does
\* not touch it (see WorkerWorks).
IsOpened(m) ==
  /\ m.status # "gone" /\ m.title = "first"
  /\ m.status = "done" => m.version >= 1 /\ m.label
  /\ m.status # "done" => m.version = 0 /\ m.regen = "idle"
  /\ visit # "names" => m.name = "none"
  /\ visit # "forms" => m.status # "error" /\ m.version <= 1 /\ m.regen = "idle"

PageInit ==
  /\ visit \in Visits
  /\ db \in {m \in Meeting : IsOpened(m)} /\ load = NoLoad /\ page = ViewOf(db)
  /\ notice = [NoNotice EXCEPT !.base = db.version] /\ heading = HeadingOf(db.title)
  /\ form = "none" /\ editor = EditorOf(db.name) /\ save = NoSave

IsOpen == page.status # "gone"

-----------------------------------------------------------------------------
(* The loader.                                                              *)

\* Variant: the row last, and with it the status the page stops polling at.
LoadOrderReversed == <<"mappings", "segments", "summary", "row">>

LoadOrder == <<"row", "summary", "segments", "mappings">>

LoadReads ==
  /\ load.at \in 1 .. 4
  /\ LET part == LoadOrder[load.at]
     IN  load' =
       CASE part = "row" /\ db.status = "gone" ->
              [NoLoad EXCEPT !.at = 5]
         [] part = "row" /\ db.status # "gone" ->
              [load EXCEPT !.at = @ + 1, !.view.status = db.status,
                           !.view.regen = db.regen, !.view.since = db.version,
                           !.view.title = db.title, !.view.sure = TRUE]
         [] part = "summary" ->
              [load EXCEPT !.at = @ + 1, !.view.version = db.version]
         [] part = "segments" ->
              [load EXCEPT !.at = @ + 1, !.view.label = db.label]
         [] part = "mappings" ->
              [load EXCEPT !.at = @ + 1, !.view.name = db.name, !.view.fresh = TRUE]
  /\ UNCHANGED <<visit, heading, db, page, notice, form, editor, save>>

\* Variant: a regeneration of a finished meeting is not waited for.
ShouldPollStatusOnly(v) == v.status = "busy"

ShouldPollMeetingDetail(v) == v.status = "busy" \/ v.regen = "active"

\* The interval; it is longer than a run of the loader, and does nothing while a
\* form is submitted.
PollsMeeting ==
  /\ IsOpen /\ load.at = 0 /\ form = "none" /\ ShouldPollMeetingDetail(page)
  /\ load' = LoadFor("poll")
  /\ UNCHANGED <<visit, heading, db, page, notice, form, editor, save>>

\* Variant: a regeneration that is over has succeeded.
ObservedNoticeOfEnd(before, now) == IF before = "active" THEN "success" ELSE "none"

\* getObservedSummaryRegenerationNotice
ObservedNotice(before, now) ==
  IF before # "active" THEN "none"
  ELSE IF now = "idle" THEN "success" ELSE IF now = "failed" THEN "danger" ELSE "none"

\* The effect on summaryRegenerationStatus; `base` remembers the version there
\* was when the regeneration was first seen.
Noticed(v) ==
  CASE v.regen = "active" /\ page.regen # "active" -> [tone |-> "none", base |-> v.since]
    [] v.regen # "active" /\ v.regen # page.regen
         /\ ObservedNotice(page.regen, v.regen) # "none" ->
         [notice EXCEPT !.tone = ObservedNotice(page.regen, v.regen)]
    [] OTHER -> notice

\* The effect on speakerMappings; the row of a label that is no longer in the
\* transcript is unmounted, which closes it but leaves it protected.
Merged(e, v) ==
  LET m == IF e.kept THEN e ELSE [e EXCEPT !.value = v.name, !.persisted = v.name]
  IN  IF v.label THEN m ELSE [m EXCEPT !.open = FALSE, !.orphan = @ \/ m.kept]

\* The page makes way for an error, or for the list of meetings.  Its requests
\* are not followed any further: what they write is as if others wrote it.
PageLeft ==
  /\ page' = ViewOf(Gone) /\ load' = NoLoad /\ notice' = NoNotice
  /\ form' = "none" /\ heading' = HeadingOf("first")
  /\ editor' = EditorOf("none") /\ save' = NoSave

LoadFindsNothing ==
  /\ IsOpen /\ load.at = 5 /\ load.view.status = "gone"
  /\ PageLeft /\ UNCHANGED <<visit, db>>

LoadLands ==
  /\ IsOpen /\ load.at = 5 /\ load.view.status # "gone"
  /\ load' = NoLoad /\ page' = load.view
  /\ notice' = Noticed(load.view)
  /\ editor' = Merged(editor, load.view)
  /\ save' = [save EXCEPT !.heard = @ /\ (load.view.label \/ save.at = "none")]
  /\ UNCHANGED <<visit, heading, db, form>>

\* The database fails, or the connection does.
PageBreaks ==
  /\ IsOpen /\ (load.at # 0 \/ form # "none" \/ save.at # "none")
  /\ PageLeft /\ UNCHANGED <<visit, db>>

NoticeFades ==
  /\ IsOpen /\ notice.tone # "none" /\ notice' = [notice EXCEPT !.tone = "none"]
  /\ UNCHANGED <<visit, heading, db, load, page, form, editor, save>>

-----------------------------------------------------------------------------
(* The page's forms: one navigation at a time.                              *)

\* The processing panel offers it for most failures (IsRetryable of MeetingRows).
CanRetry == page.status = "error"

\* The summary panel, once the user has confirmed.
CanRegenerate == page.status = "done" /\ page.version # 0 /\ page.regen # "active"

\* The line under the title, while the meeting is pending.
CanChangeLanguage == page.status = "busy"

\* What the page offers: a deletion always, once the user has confirmed.
Offered(f) ==
  /\ f = "retry" => CanRetry
  /\ f = "regenerate" => CanRegenerate
  /\ f = "language" => CanChangeLanguage

\* A run of the loader for the interval is given up; a save's goes on.
SubmitsForm ==
  /\ visit = "forms" /\ IsOpen /\ form = "none" /\ ~(load.at # 0 /\ load.by = "form")
  /\ \E f \in {"retry", "regenerate", "delete", "language"} :
       /\ Offered(f) /\ form' = f
       /\ notice' = IF f = "regenerate" THEN [notice EXCEPT !.tone = "none"] ELSE notice
  /\ load' = IF load.by = "poll" THEN NoLoad ELSE load
  /\ UNCHANGED <<visit, heading, db, page, editor, save>>

\* The effect on actionData: a title that was refused is edited on.
TitleAnswered(ok) ==
  IF ok THEN [heading EXCEPT !.editing = FALSE, !.told = "saved"]
        ELSE [heading EXCEPT !.editing = TRUE, !.told = "refused"]

\* handleMeetingDetailAction: what the handlers do is in MeetingPipeline.  An
\* accepted deletion leaves for the list of meetings.
Retried(m) == [m EXCEPT !.status = "busy"]

RegenerationQueued(m) == [m EXCEPT !.regen = "active"]

Titled(title) == [db EXCEPT !.title = title]

ServerActs ==
  /\ form \in {"retry", "regenerate", "delete", "language", "title"}
  /\ \/ /\ form = "retry" /\ db.status = "error"
        /\ db' = Retried(db) /\ form' = "accepted"
     \/ /\ form = "regenerate" /\ db.status = "done" /\ db.regen # "active"
        /\ db' = RegenerationQueued(db) /\ form' = "accepted"
     \/ /\ form = "delete" /\ db.status # "gone"
        /\ db' = Gone /\ form' = "deleted"
     \/ /\ form = "language" /\ db.status = "busy"
        /\ UNCHANGED db /\ form' = "accepted"
     \/ /\ form = "title" /\ db.status # "gone"
        /\ db' = Titled(heading.draft) /\ form' = "accepted"
     \/ UNCHANGED db /\ form' = "refused"
  /\ UNCHANGED <<visit, heading, load, page, notice, editor, save>>

\* Variant: the answer is taken as it is, and nothing read again.
ReadAgainNever(l) == l

ReadAgain(l) == LoadFor("form")

FormAnswered ==
  /\ form \in {"accepted", "refused"} /\ form' = "none"
  /\ load' = IF form = "accepted" THEN ReadAgain(load) ELSE load
  /\ heading' = IF visit = "title" THEN TitleAnswered(form = "accepted") ELSE heading
  /\ UNCHANGED <<visit, db, page, notice, editor, save>>

MeetingDeleted == form = "deleted" /\ PageLeft /\ UNCHANGED <<visit, db>>

-----------------------------------------------------------------------------
(* The editor of the title.                                                 *)

\* A form is being submitted, the run of the loader after it included.
IsSubmitting == form # "none" \/ (load.at # 0 /\ load.by = "form")

BeginsTitleEdit ==
  /\ visit = "title" /\ IsOpen /\ ~heading.editing /\ ~IsSubmitting
  /\ heading' = [HeadingOf(page.title) EXCEPT !.editing = TRUE]
  /\ UNCHANGED <<visit, db, load, page, notice, form, editor, save>>

TypesTitle ==
  /\ IsOpen /\ heading.editing /\ ~IsSubmitting
  /\ heading' = [heading EXCEPT !.draft = "typed"]
  /\ UNCHANGED <<visit, db, load, page, notice, form, editor, save>>

CancelsTitleEdit ==
  /\ IsOpen /\ heading.editing /\ ~IsSubmitting
  /\ heading' = HeadingOf(page.title)
  /\ UNCHANGED <<visit, db, load, page, notice, form, editor, save>>

SubmitsTitle ==
  /\ IsOpen /\ heading.editing /\ ~IsSubmitting
  /\ form' = "title"
  /\ load' = IF load.by = "poll" THEN NoLoad ELSE load
  /\ UNCHANGED <<visit, db, page, notice, heading, editor, save>>

-----------------------------------------------------------------------------
(* The editor of a speaker's name.  Its input is disabled while a save is    *)
(* under way, the run of the loader after it included.                      *)

IsSaving == save.at # "none" \/ (load.at # 0 /\ load.by = "save")

\* Opening it focuses the input, which protects the name from the page's
\* refreshes; a disabled input is not focused.
BeginsEdit ==
  /\ visit = "names" /\ IsOpen /\ page.label /\ ~editor.open
  /\ editor' = [editor EXCEPT !.open = TRUE, !.value = editor.persisted,
                             !.kept = @ \/ ~IsSaving]
  /\ UNCHANGED <<visit, heading, db, load, page, notice, form, save>>

\* Variant: the input's focus protects nothing.
TypedUnprotected(name) == [editor EXCEPT !.value = name]

Typed(name) == [editor EXCEPT !.value = name, !.kept = TRUE]

TypesName ==
  /\ IsOpen /\ editor.open /\ ~IsSaving
  /\ \E name \in {"none", "typed"} : editor' = Typed(name)
  /\ UNCHANGED <<visit, heading, db, load, page, notice, form, save>>

\* The row when its protection ends: the effect on protectedSpeakerLabels takes
\* the name from the page again, which has not been refreshed yet.
Released == EditorOf(page.name)

\* Escape, or leaving the input with the name it had.
CancelsEdit ==
  /\ IsOpen /\ editor.open /\ ~IsSaving
  /\ editor' = Released
  /\ UNCHANGED <<visit, heading, db, load, page, notice, form, save>>

\* Leaving the input with another name, or Enter.
SubmitsName ==
  /\ IsOpen /\ editor.open /\ ~IsSaving
  /\ editor' = [editor EXCEPT !.kept = TRUE]
  /\ save' = [at |-> "find", sent |-> editor.value, heard |-> TRUE]
  /\ UNCHANGED <<visit, heading, db, load, page, notice, form>>

\* saveSpeakerMapping: the meeting, the label, then the mapping, one statement
\* each; any of them may fail.
SaveFinds ==
  /\ save.at = "find"
  /\ save' \in {[save EXCEPT !.at = IF db.status = "gone" THEN "refused" ELSE "check"],
               [save EXCEPT !.at = "refused"]}
  /\ UNCHANGED <<visit, heading, db, load, page, notice, form, editor>>

SaveChecks ==
  /\ save.at = "check"
  /\ save' \in {[save EXCEPT !.at = IF db.label THEN "write" ELSE "refused"],
               [save EXCEPT !.at = "refused"]}
  /\ UNCHANGED <<visit, heading, db, load, page, notice, form, editor>>

\* An empty name deletes the mapping.
Mapped(name) == [db EXCEPT !.name = name]

\* A write whose answer is lost is like one of somebody else.
SaveWrites ==
  /\ save.at = "write"
  /\ \/ /\ db.status # "gone" /\ db' = Mapped(save.sent)
        /\ save' = [save EXCEPT !.at = "ok"] /\ UNCHANGED <<load, page>>
     \/ /\ db.status # "gone" /\ db' = Mapped(save.sent)
        /\ save' = [save EXCEPT !.at = "refused"]
        /\ load' = [load EXCEPT !.view.fresh = FALSE]
        /\ page' = [page EXCEPT !.fresh = FALSE]
     \/ save' = [save EXCEPT !.at = "refused"] /\ UNCHANGED <<db, load, page>>
  /\ UNCHANGED <<visit, heading, notice, form, editor>>

\* Variant: the name stays protected.
SavedStillKept(e) == [e EXCEPT !.open = FALSE, !.value = save.sent,
                               !.persisted = save.sent]

\* onNamePersist, onNameUnprotect and the effect that follows.
Saved(e) == Released

\* A row that was unmounted meanwhile does not hear the answer; the loader runs
\* all the same.  After a refusal the editor stays open.
SaveAnswered ==
  /\ IsOpen /\ save.at \in {"ok", "refused"} /\ save' = NoSave
  /\ IF save.at = "ok"
     THEN /\ editor' = IF save.heard THEN Saved(editor) ELSE editor
          /\ load' = LoadFor("save")
     ELSE UNCHANGED <<editor, load>>
  /\ UNCHANGED <<visit, heading, db, page, notice, form>>

-----------------------------------------------------------------------------
(* The worker and other tabs.  To a speaker's row a failure and its retry    *)
(* are just more work, so a visit about names does without.                 *)

WorkerWorks ==
  /\ \/ /\ db.status = "busy"
        /\ db' \in {[db EXCEPT !.label = FALSE], [db EXCEPT !.label = TRUE]}
     \/ visit = "forms" /\ db.status = "busy" /\ db' = [db EXCEPT !.status = "error"]
     \/ /\ db.status = "busy" /\ db.label
        /\ db' = [db EXCEPT !.status = "done", !.version = 1]
     \/ /\ db.regen = "active"
        /\ \/ db.version < MaxVersion
              /\ db' = [db EXCEPT !.regen = "idle", !.version = @ + 1]
           \/ db' = [db EXCEPT !.regen = "failed"]
  /\ UNCHANGED <<visit, heading, load, page, notice, form, editor, save>>

OtherTabActs ==
  /\ \/ db.status = "error" /\ db' = Retried(db)
     \/ visit = "forms" /\ db.status = "done" /\ db.regen # "active"
        /\ db' = RegenerationQueued(db)
     \/ db.status # "gone" /\ db' = Gone
  /\ UNCHANGED <<visit, heading, load, page, notice, form, editor, save>>

OtherTabRenames ==
  /\ visit = "names" /\ db.status # "gone" /\ db.label
  /\ db' = Mapped("other")
  /\ load' = [load EXCEPT !.view.fresh = FALSE]
  /\ page' = [page EXCEPT !.fresh = FALSE]
  /\ UNCHANGED <<visit, heading, notice, form, editor, save>>

OtherTabRetitles ==
  /\ visit = "title" /\ db.status # "gone"
  /\ db' = Titled("other")
  /\ load' = [load EXCEPT !.view.sure = FALSE]
  /\ page' = [page EXCEPT !.sure = FALSE]
  /\ UNCHANGED <<visit, heading, notice, form, editor, save>>

PageStep ==
  \/ LoadReads \/ PollsMeeting \/ LoadLands \/ LoadFindsNothing \/ PageBreaks \/ NoticeFades
  \/ SubmitsForm \/ ServerActs \/ FormAnswered \/ MeetingDeleted
  \/ BeginsTitleEdit \/ TypesTitle \/ CancelsTitleEdit \/ SubmitsTitle
  \/ BeginsEdit \/ TypesName \/ CancelsEdit \/ SubmitsName
  \/ SaveFinds \/ SaveChecks \/ SaveWrites \/ SaveAnswered
  \/ WorkerWorks \/ OtherTabActs \/ OtherTabRenames \/ OtherTabRetitles

\* The interval ticks and the loader gets its answers.
PageFairness ==
  WF_pageVars(PollsMeeting) /\ WF_pageVars(LoadReads) /\ WF_pageVars(LoadLands \/ LoadFindsNothing)

-----------------------------------------------------------------------------
PageTypeOK ==
  /\ db \in Meeting /\ load \in Load /\ page \in View /\ notice \in Notice
  /\ form \in {"none", "retry", "regenerate", "delete", "language", "title",
              "accepted", "refused", "deleted"}
  /\ heading \in Heading
  /\ editor \in Editor /\ save \in Save

\* A page that has stopped polling shows a finished meeting whole, with a summary
\* at least as new as its status: the four statements of the loader are no
\* snapshot, and nothing will be read again.
PageAtRestIsComplete ==
  (db.status # "gone" /\ page.status = "done" /\ page.regen # "active") =>
    page.label /\ page.version >= page.since /\ page.since >= 1

\* "Summary regenerated." is shown next to a summary newer than the one there was
\* when the regeneration was first seen.
NoticeIsTrue ==
  (IsOpen /\ db.status # "gone" /\ notice.tone = "success") =>
    page.version > notice.base

\* While the editor is open a name that differs from the saved one changes only by
\* typing, however often the page is refreshed under it.
TypedNameSurvives ==
  [][(editor.open /\ editor'.open /\ editor.value # editor.persisted)
       => (editor'.value = editor.value \/ TypesName)]_pageVars

\* A closed row shows the stored name once the page is quiet, unless another tab
\* has changed it since or the row was unmounted while it was being edited.
NameAtRest ==
  (/\ IsOpen /\ db.status # "gone" /\ page.label /\ page.fresh
   /\ ~editor.open /\ ~editor.orphan /\ save.at = "none" /\ load.at = 0)
    => editor.value = db.name /\ editor.persisted = db.name

\* A page that is quiet shows the stored title, a saved one included, unless
\* another tab has changed it since; a refused one is still in the editor.
TitleAtRest ==
  /\ heading.told = "refused" => heading.editing
  /\ (IsOpen /\ db.status # "gone" /\ page.sure /\ ~IsSubmitting /\ load.at = 0)
       => page.title = db.title

\* What was typed and saved is what a quiet page shows.
EditsAtRestAreStored == NameAtRest /\ TitleAtRest

\* Once nobody works on the meeting and nothing is submitted, the page shows it
\* so and stops polling.
PageSettles ==
  <>[](db.status # "busy" /\ db.regen # "active" /\ form = "none" /\ save.at = "none")
    => <>[](page.status # "busy" /\ page.regen # "active")
=============================================================================
