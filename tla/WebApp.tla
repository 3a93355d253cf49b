-------------------------------- MODULE WebApp --------------------------------
(***************************************************************************)
(* One browser tab on one of the routes of the web app (routes.ts): the    *)
(* list of meetings with its upload, the page of one meeting, or its       *)
(* export.  The pages share no state but the database, which the steps of  *)
(* the other tabs and of the worker stand for in each of them.             *)
(***************************************************************************)
EXTENDS HomePage, MeetingPage, MeetingReport

VARIABLE route

vars == <<route, homeVars, pageVars, saved>>

\* The page of a route that was not visited is as after leaving it.
HomeLeft ==
  UploadInit /\ other = "absent" /\ list = Table
    /\ tab = FreshTab /\ loader = NoFetch /\ poll = NoFetch

MeetingLeft ==
  visit = "forms" /\ db = Gone /\ page = ViewOf(Gone) /\ load = NoLoad
    /\ notice = NoNotice /\ form = "none" /\ heading = HeadingOf("first")
    /\ editor = EditorOf("none") /\ save = NoSave

Init ==
  /\ ReportInit
  /\ \/ route = "home" /\ HomeInit /\ MeetingLeft
     \/ route = "meeting" /\ PageInit /\ HomeLeft
     \/ route = "export" /\ HomeLeft /\ MeetingLeft

Next ==
  \/ route = "home" /\ HomeStep /\ UNCHANGED <<route, pageVars, saved>>
  \/ route = "meeting" /\ PageStep /\ UNCHANGED <<route, homeVars, saved>>
  \/ route = "export" /\ ReportStep /\ UNCHANGED <<route, homeVars, pageVars>>

FairSpec == Init /\ [][Next]_vars /\ HomeFairness /\ PageFairness

TypeOK == route \in {"home", "meeting", "export"} /\ HomeTypeOK /\ PageTypeOK /\ ReportTypeOK
=============================================================================
