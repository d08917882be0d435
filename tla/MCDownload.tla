----------------------------- MODULE MCDownload -----------------------------
(* Instances of Download for TLC. *)
EXTENDS Download

\* The chunks and the modification times of the versions of the remote file.
MCTwoChunks == <<2, 2>>
MCTimes     == <<1, 2>>
=============================================================================
