------------------------------ MODULE AudioFiles ------------------------------
(***************************************************************************)
(* What normalization promises about the audio of one meeting: the upload  *)
(* goes only when a whole normalized.wav is there to stay.  The steps      *)
(* Convert and Cleanup of MeetingPipeline rely on exactly this.            *)
(***************************************************************************)
VARIABLES upload,   \* original.<ext> exists
          wav       \* a whole normalized.wav exists

Init == upload = TRUE /\ wav = FALSE

Convert == upload = TRUE /\ wav = FALSE /\ wav' = TRUE /\ UNCHANGED upload

Remove == upload = TRUE /\ wav = TRUE /\ upload' = FALSE /\ UNCHANGED wav

Next == Convert \/ Remove

Spec == Init /\ [][Next]_<<upload, wav>>
=============================================================================
