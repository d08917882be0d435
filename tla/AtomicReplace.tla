--------------------------- MODULE AtomicReplace ---------------------------
(***************************************************************************)
(* What an upload promises about the remote names it writes: whatever       *)
(* happens to it, a name shows nothing, what it showed before or a complete *)
(* new version, never a part of one or a mixture; and success is reported   *)
(* only when a complete new version is there, or when the file was there    *)
(* already and the policy is to skip it.                                    *)
(***************************************************************************)
CONSTANTS
    Writers,   \* the uploads
    Names,     \* the remote names
    New,       \* New[u]: the complete contents upload u may leave
    Old,       \* contents the names may have before
    None       \* no file

VARIABLES
    content,   \* name -> the content it shows
    status     \* writer -> "idle", "running", "ok", "skipped" or "failed"

vars == <<content, status>>

Init ==
    /\ content \in [Names -> Old \cup {None}]
    /\ status = [u \in Writers |-> "idle"]

Begin(u) ==
    /\ status[u] # "running"
    /\ status' = [status EXCEPT ![u] = "running"]
    /\ UNCHANGED content

\* The new version appears whole, or what was replaced is put back.
Replace(u, n) ==
    /\ status[u] = "running"
    /\ \E c \in New[u] \cup Old : content' = [content EXCEPT ![n] = c]
    /\ UNCHANGED status

Succeed(u) ==
    /\ status[u] = "running"
    /\ \E n \in Names : content[n] \in New[u]
    /\ status' = [status EXCEPT ![u] = "ok"]
    /\ UNCHANGED content

Skip(u) ==
    /\ status[u] = "running"
    /\ \E n \in Names : content[n] # None
    /\ status' = [status EXCEPT ![u] = "skipped"]
    /\ UNCHANGED content

Fail(u) ==
    /\ status[u] = "running"
    /\ status' = [status EXCEPT ![u] = "failed"]
    /\ UNCHANGED content

Next ==
    \E u \in Writers :
      Begin(u) \/ Succeed(u) \/ Skip(u) \/ Fail(u) \/ \E n \in Names : Replace(u, n)

Spec == Init /\ [][Next]_vars
=============================================================================
