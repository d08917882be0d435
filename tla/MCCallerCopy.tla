---------------------------- MODULE MCCallerCopy ----------------------------
(* One upload and one download of the same remote file.                     *)
EXTENDS CallerCopy
=============================================================================
