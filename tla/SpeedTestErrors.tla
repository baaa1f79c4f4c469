-------------------------- MODULE SpeedTestErrors --------------------------
(***************************************************************************)
(* The error classes the speed test (libcore/speedtest.go) tells apart,    *)
(* and the pure decisions it makes from them.  An error value is one of    *)
(*   none      nil                                                         *)
(*   canceled  an error that errors.Is matches with context.Canceled       *)
(*   deadline  an error that errors.Is matches with DeadlineExceeded       *)
(*   eof       io.EOF or io.ErrUnexpectedEOF of a closed test connection   *)
(*   failure   any other error                                             *)
(*   text      an error rebuilt with %v from the text of others, so that   *)
(*             errors.Is matches nothing                                   *)
(*   textOfCancel   the same, when the text is that of a cancellation      *)
(***************************************************************************)
EXTENDS Naturals

Err == {"none", "canceled", "deadline", "eof", "failure", "text", "textOfCancel"}

Modes == {"download_upload", "download", "upload", "simple_download"}

Downloads(mode) == mode \in {"download_upload", "download", "simple_download"}

Uploads(mode) == mode \in {"download_upload", "upload"}

\* isBenignTransferError without the end of a closed connection.
isBenignExceptEof(e) == e \in {"none", "canceled", "deadline"}

isBenignTransferError(e) == e \in {"none", "eof", "canceled", "deadline"}

\* The stages a session ends in, and the one finish picks for an error.
Final == {"complete", "cancelled", "error"}

FinalStage(e) ==
  CASE e = "none"     -> "complete"
    [] e = "canceled" -> "cancelled"
    [] OTHER          -> "error"

-----------------------------------------------------------------------------
\* TransferVerdict without the test for a phase that moved no data.
TransferVerdictEmptyOk(hard, total, cancelled, expired) ==
  IF hard # "none" THEN hard ELSE IF cancelled THEN "canceled" ELSE "none"

\* What runTransferPhase returns once its workers have ended: the error in
\* errorChannel if there is one, then the cancellation of the session, and a
\* phase without data fails with its deadline or with "transferred no data".
TransferVerdict(hard, total, cancelled, expired) ==
  CASE hard # "none" -> IF total > 0 /\ isBenignTransferError(hard) THEN "none" ELSE hard
    [] hard = "none" /\ cancelled                            -> "canceled"
    [] hard = "none" /\ ~cancelled /\ total = 0 /\ expired   -> "deadline"
    [] hard = "none" /\ ~cancelled /\ total = 0 /\ ~expired  -> "failure"
    [] hard = "none" /\ ~cancelled /\ total > 0              -> "none"
=============================================================================
