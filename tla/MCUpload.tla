----------------------------- MODULE MCUpload -----------------------------
(* Instances of Upload for TLC. *)
EXTENDS Upload

\* The blocks of the versions of a local file.
MCSameSize == <<2, 2>>
MCOneSize  == <<2>>

MCAllServers == [replaces : BOOLEAN, truncates : BOOLEAN]
MCFullLength == {[replaces |-> r, truncates |-> FALSE] : r \in BOOLEAN}
=============================================================================
