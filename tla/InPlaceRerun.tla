---------------------------- MODULE InPlaceRerun ----------------------------
(***************************************************************************)
(* The in-place apply when its caller does what the guide tells it to do   *)
(* after a restart (docs/guide.md:162-164): fetch the delta again and call *)
(* detools_apply_in_place again.  A caller whose device went down between  *)
(* the return of that function and the confirmation of the new image       *)
(* (commit) cannot tell the two cases apart: the journal is zero in both.  *)
(***************************************************************************)
EXTENDS InPlaceApply

\* The device restarts before the new image is confirmed, and the caller resumes.
RunAgain ==
  /\ state = "done"
  /\ state' = "init"
  /\ UNCHANGED <<patch, flash, journal, ongoing_step, shifting, index, readerVars,
                 cuts>>

RerunSpec == Init /\ [][Next \/ RunAgain]_vars /\ WF_vars(Step)

\* A complete image stays: "the journal makes the decoder skip segments already
\* written" (docs/guide.md:163; in_place_all_steps_completed sets it to zero).
ImageKept == [][ImageComplete => ImageComplete']_vars

=============================================================================
