---------------------------- MODULE Normalization ----------------------------
(***************************************************************************)
(* AudioNormalizer.normalize, file by file: leftovers are unlinked, ffmpeg *)
(* writes a transient file, two renames make it normalized.wav, ffprobe    *)
(* measures it, and the upload is deleted.  A crash may strike between any *)
(* two of these (module StageWork); what it leaves in the directory is     *)
(* what the next attempt finds.                                            *)
(*                                                                         *)
(* One recording is uploaded per meeting, so "original" is the one file    *)
(* whatever its extension, and "multiple originals" cannot occur.          *)
(***************************************************************************)
VARIABLES files,   \* what the meeting's directory holds, by name
          step     \* the next thing normalize does, or how it ended

Names == {"original", "transient", "partial", "normalized"}

Contents == {"none", "part", "whole"}

NormalizationKinds == {"normalization_failed", "config_missing"}

NormalizePoints ==
  {"off", "unlink_partial", "unlink_transient", "find", "ffmpeg", "running",
   "rename", "replace", "probe", "remove", "probe_again", "done"}
    \union NormalizationKinds

FilesInit ==
  /\ files = [n \in Names |-> IF n = "original" THEN "whole" ELSE "none"]
  /\ step = "off"

Move(from, to) == [files EXCEPT ![to] = files[from], ![from] = "none"]

UnlinkPartial ==
  /\ step = "unlink_partial"
  /\ files' = [files EXCEPT !["partial"] = "none"]
  /\ step' = "unlink_transient"

UnlinkTransient ==
  /\ step = "unlink_transient"
  /\ files' = [files EXCEPT !["transient"] = "none"]
  /\ step' = "find"

\* A missing upload is accepted only from a claim at normalizing that finds
\* normalized.wav: an attempt before this one got that far.
FindOriginal(claimed) ==
  /\ step = "find"
  /\ step' = CASE files["original"] # "none" -> "ffmpeg"
               [] /\ files["original"] = "none"
                  /\ claimed = "normalizing"
                  /\ files["normalized"] # "none" -> "probe_again"
               [] OTHER -> "normalization_failed"
  /\ UNCHANGED files

\* Variant: ffmpeg writes where the result is expected.
FfmpegOutputInPlace == "normalized"

FfmpegOutput == "transient"

FfmpegStarts ==
  /\ step = "ffmpeg"
  /\ files' = [files EXCEPT ![FfmpegOutput] = "part"]
  /\ step' = "running"

FfmpegEnds ==
  /\ step = "running"
  /\ files' = [files EXCEPT ![FfmpegOutput] = "whole"]
  /\ step' = "rename"

\* A non-zero exit at any point, or no ffmpeg at all.
FfmpegFails ==
  /\ \/ step = "ffmpeg" /\ step' \in NormalizationKinds
     \/ step = "running" /\ step' = "normalization_failed"
  /\ UNCHANGED files

RenameTransient ==
  /\ step = "rename"
  /\ files' = Move("transient", "partial")
  /\ step' = "replace"

ReplaceNormalized ==
  /\ step = "replace"
  /\ files' = Move("partial", "normalized")
  /\ step' = "probe"

\* ffprobe's duration is accepted or not; there may be no ffprobe.
Probe ==
  /\ step \in {"probe", "probe_again"}
  /\ step' \in NormalizationKinds
         \union {IF step = "probe" THEN "remove" ELSE "done"}
  /\ UNCHANGED files

DeleteOriginal ==
  /\ step = "remove"
  /\ files' = [files EXCEPT !["original"] = "none"]
  /\ step' = "done"

NormalizeStep(claimed) ==
  \/ UnlinkPartial \/ UnlinkTransient \/ FindOriginal(claimed)
  \/ FfmpegStarts \/ FfmpegEnds \/ FfmpegFails
  \/ RenameTransient \/ ReplaceNormalized
  \/ Probe \/ DeleteOriginal

-----------------------------------------------------------------------------
Promise == INSTANCE AudioFiles WITH upload <- files["original"] # "none",
                                    wav <- files["normalized"] = "whole"

\* However often normalization is cut short or fails, a normalized.wav is never
\* half written, once there it stays, and the upload is deleted only after.
NormalizationKeepsAudio == Promise!Spec
=============================================================================
