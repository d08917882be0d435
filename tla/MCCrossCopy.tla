------------------------------ MODULE MCCrossCopy ------------------------------
(* Instance of CrossCopy for TLC: one copy between two sessions.           *)
EXTENDS CrossCopy, TLC

CONSTANTS copy, here, there

MCSrc  == copy :> here
MCDest == copy :> there
================================================================================
