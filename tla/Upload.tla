------------------------------- MODULE Upload -------------------------------
(***************************************************************************)
(* What uploads of one file do to a remote directory: the policy probe of   *)
(* upload(), its retry loop, and upload_file_once, which writes the bytes   *)
(* to <target>.ishell-part, checks the length, moves the target to a backup *)
(* of a random name, moves the part into place and deletes the backup       *)
(* (ssh/xfer/upload.rs).                                                    *)
(*                                                                          *)
(* Several uploads may run at once against one directory: two rows of one   *)
(* session, two sessions, or the task of a replaced worker and its resend.  *)
(* Any request may fail, with or without having taken effect; an upload may *)
(* be dropped at any await (cancel, or the worker returning) and be started *)
(* again; the local file may be edited at any time.  A step is one request. *)
(*                                                                          *)
(* Left out: permissions, symbolic links, directories, progress events.     *)
(***************************************************************************)
EXTENDS Naturals, Sequences, FiniteSets

CONSTANTS
    Uploaders,  \* uploads that may be under way at one time
    NumNames,   \* names looked at: the wanted one and its " (1)", " (2)", ...
    Size,       \* Size[v]: blocks of version v of the local file
    Retries,    \* XFER_RETRIES (3 in the code)
    Orig,       \* the author of files made by nobody here
    Servers,    \* the servers considered: does rename replace an existing
                \* target, and may a file silently lose its tail
    MaxRuns     \* bound: times one upload is started

Names    == 1..NumNames
Versions == 1..Len(Size)

ASSUME UploadAssumption ==
    /\ Retries \in Nat /\ MaxRuns \in Nat
    /\ NumNames \in Nat \ {0}
    /\ Size \in Seq(Nat) /\ Size # <<>>
    /\ Orig \notin Uploaders
    /\ Servers \subseteq [replaces : BOOLEAN, truncates : BOOLEAN]

VARIABLES
    data,   \* inode -> content; inodes are never reused
    file,   \* name -> inode of the file of that name, 0 if there is none
    part,   \* name -> inode of <name>.ishell-part, 0 if there is none
    baks,   \* name -> inodes of the backups <name>.ishell-bak-<random>
    up,     \* the uploads
    ver,    \* the current version of each upload's local file
    server, \* what kind of server this is
    cur     \* history: the inode last installed under a name, moved or not

vars == <<data, file, part, baks, up, ver, server, cur>>

Hole  == [src |-> Orig, ver |-> 0]
Block == [src : Uploaders \cup {Orig}, ver : Versions \cup {0}]

\* Version v of the local file of u.
Full(u, v) == [i \in 1..Size[v] |-> [src |-> u, ver |-> v]]

Pc == {"idle", "probe", "start", "open", "write", "verify", "backup", "swap",
       "restore", "clean", "giveup", "done", "skipped", "failed", "dropped"}

Upload == [pc      : Pc,
           pol     : {"overwrite", "skip", "rename"},
           name    : Names,
           attempt : 0..Retries,
           pos     : Nat,                 \* bytes of the part that are ours
           pin     : Versions,            \* pinned_size and pinned_mtime
           handle  : Nat,                 \* rf: the open part, an inode
           bak     : Nat,                 \* the backup of this attempt, or 0
           cancel  : BOOLEAN,             \* the cancel flag
           runs    : 0..MaxRuns,
           own     : BOOLEAN,  \* history: this run has truncated the part
           torn    : BOOLEAN,  \* history: edited while this attempt read it
           checked : BOOLEAN]  \* history: this attempt compared the length

Inodes == DOMAIN data

TypeOK ==
    /\ data \in Seq(Seq(Block))
    /\ file \in [Names -> Inodes \cup {0}]
    /\ part \in [Names -> Inodes \cup {0}]
    /\ baks \in [Names -> SUBSET Inodes]
    /\ up \in [Uploaders -> Upload]
    /\ \A u \in Uploaders : /\ up[u].handle \in Inodes \cup {0}
                            /\ up[u].bak \in Inodes \cup {0}
    /\ ver \in [Uploaders -> Versions]
    /\ server \in Servers
    /\ cur \in [Names -> Inodes \cup {0}]

Idle == [pc |-> "idle", pol |-> "overwrite", name |-> 1, attempt |-> 0, pos |-> 0,
         pin |-> 1, handle |-> 0, bak |-> 0, cancel |-> FALSE, runs |-> 0,
         own |-> FALSE, torn |-> FALSE, checked |-> FALSE]

\* The wanted name exists already or not; nothing else is there.
Init ==
    /\ data = <<<<Hole>>>>
    /\ file \in {[n \in Names |-> 0], [n \in Names |-> IF n = 1 THEN 1 ELSE 0]}
    /\ part = [n \in Names |-> 0]
    /\ baks = [n \in Names |-> {}]
    /\ up = [u \in Uploaders |-> Idle]
    /\ ver = [u \in Uploaders |-> 1]
    /\ server \in Servers
    /\ cur = file

-----------------------------------------------------------------------------
(* Helpers *)

At(u, pc) == up[u].pc = pc
Active(u) == up[u].pc \notin {"idle", "done", "skipped", "failed", "dropped"}
Dir == <<data, file, part, baks, cur>>      \* the remote directory
Env == <<ver, server>>

\* Go on to pc, or take the error path of the retry loop: give up when
\* cancelled or out of attempts, else try again.
Go(u, pc) == up' = [up EXCEPT ![u].pc = pc]

\* The future ends, and its locals with it.
End(u, pc) == up' = [up EXCEPT ![u] = [Idle EXCEPT !.pc = pc, !.name = up[u].name,
                                                   !.runs = up[u].runs]]

GiveUp(u) == up[u].cancel \/ up[u].attempt >= Retries

\* Mutant of Fail: the attempts are not counted.
FailUncounted(u) ==
    up' = [up EXCEPT ![u].pc = IF GiveUp(u) THEN "giveup" ELSE "start"]

Fail(u) ==
    up' = [up EXCEPT ![u].pc = IF GiveUp(u) THEN "giveup" ELSE "start",
                     ![u].attempt = IF GiveUp(u) THEN @ ELSE @ + 1]

\* Writing block b at position k of content c; a gap reads as zeros.
Put(c, k, b) ==
    [i \in 1..(IF k > Len(c) THEN k ELSE Len(c)) |->
       IF i = k THEN b ELSE IF i <= Len(c) THEN c[i] ELSE Hole]

-----------------------------------------------------------------------------
(* Starting, cancelling and dropping an upload; editing its local file *)

Begin(u) ==
    /\ ~Active(u) /\ up[u].runs < MaxRuns
    /\ \E pol \in {"overwrite", "skip", "rename"} :
         up' = [up EXCEPT ![u] = [Idle EXCEPT !.pc = "probe", !.pol = pol,
                                              !.runs = up[u].runs + 1]]
    /\ UNCHANGED <<Dir, Env>>

Cancel(u) ==
    /\ Active(u)
    /\ up' = [up EXCEPT ![u].cancel = TRUE]
    /\ UNCHANGED <<Dir, Env>>

\* The select of start_xfer drops the future where it stands.
Drop(u) ==
    /\ Active(u)
    /\ End(u, "dropped")
    /\ UNCHANGED <<Dir, Env>>

Edit(u) ==
    /\ ver[u] + 1 \in Versions
    /\ ver' = [ver EXCEPT ![u] = @ + 1]
    /\ up' = [up EXCEPT ![u].torn = @ \/ up[u].pc \in {"open", "write"}]
    /\ UNCHANGED <<Dir, server>>

-----------------------------------------------------------------------------
(* upload(): the conflict policy, then the pins *)

\* The first name that is free (remote_nonexistent).
FreeName(n) == file[n] = 0 /\ \A m \in Names : m < n => file[m] # 0

Probe(u) ==
    /\ At(u, "probe")
    /\ UNCHANGED <<Dir, Env>>
    /\ \/ /\ file[1] # 0 /\ up[u].pol = "skip"
          /\ End(u, "skipped")
       \/ \E n \in Names :
            /\ IF file[1] # 0 /\ up[u].pol = "rename" THEN FreeName(n) ELSE n = 1
            /\ file[1] # 0 => up[u].pol # "skip"
            /\ up' = [up EXCEPT ![u].pc = "start", ![u].name = n, ![u].pin = ver[u]]
       \/ End(u, "failed")

-----------------------------------------------------------------------------
(* upload_file_once *)

\* Mutant of LocalUnchanged: the pins are not looked at.
Unpinned(u) == up[u].pin \in Versions

LocalUnchanged(u) == ver[u] = up[u].pin

PartSize(u) == IF part[up[u].name] = 0 THEN 0 ELSE Len(data[part[up[u].name]])

\* Only a retry resumes, from the length of the part if that can be had.
Start(u) ==
    /\ At(u, "start")
    /\ \E start \in {0, PartSize(u)} :
         /\ start > 0 => /\ up[u].attempt > 0
                         /\ LocalUnchanged(u)
                         /\ start <= Size[ver[u]]
         /\ up' = [up EXCEPT ![u].pc = "open", ![u].pos = start, ![u].bak = 0,
                             ![u].torn = FALSE, ![u].checked = FALSE]
    /\ UNCHANGED <<Dir, Env>>

\* Opening the part creates it when it is missing and, from the start,
\* truncates it.
OpenPart(u) ==
    LET n == up[u].name IN
    \/ /\ part[n] = 0
       /\ data' = Append(data, <<>>)
       /\ part' = [part EXCEPT ![n] = Len(data) + 1]
    \/ /\ part[n] # 0
       /\ data' = IF up[u].pos = 0 THEN [data EXCEPT ![part[n]] = <<>>] ELSE data
       /\ UNCHANGED part

Open(u) ==
    /\ At(u, "open")
    /\ \/ /\ OpenPart(u)
          /\ up' = [up EXCEPT ![u].pc = "write", ![u].own = @ \/ up[u].pos = 0,
                              ![u].handle = part'[up[u].name]]
       \/ /\ OpenPart(u) /\ Fail(u)
       \/ /\ UNCHANGED <<data, part>> /\ Fail(u)
    /\ UNCHANGED <<file, baks, cur, Env>>

\* One buffer is read from the local file and written at pos.
WriteAt(u) ==
    data' = [data EXCEPT ![up[u].handle] =
               Put(@, up[u].pos + 1, [src |-> u, ver |-> ver[u]])]

Write(u) ==
    /\ At(u, "write")
    /\ up[u].pos < Size[ver[u]]
    /\ \/ /\ ~up[u].cancel
          /\ WriteAt(u)
          /\ up' = [up EXCEPT ![u].pos = @ + 1]
       \/ WriteAt(u) /\ Fail(u)
       \/ UNCHANGED data /\ Fail(u)
    /\ UNCHANGED <<file, part, baks, cur, Env>>

\* End of file: flush and close.  Some servers silently keep less.
Close(u) ==
    /\ At(u, "write")
    /\ up[u].pos >= Size[ver[u]]
    /\ \/ ~up[u].cancel /\ UNCHANGED data /\ Go(u, "verify")
       \/ /\ ~up[u].cancel /\ server.truncates
          /\ \E k \in 0..Len(data[up[u].handle]) :
               data' = [data EXCEPT ![up[u].handle] = SubSeq(@, 1, k)]
          /\ Go(u, "verify")
       \/ UNCHANGED data /\ Fail(u)
    /\ UNCHANGED <<file, part, baks, cur, Env>>

LengthOk(u) == part[up[u].name] # 0 /\ PartSize(u) = up[u].pos

\* The gate before the swap; it is passed when the length cannot be had.
Verify(u) ==
    /\ At(u, "verify")
    /\ \/ /\ LengthOk(u)
          /\ up' = [up EXCEPT ![u].pc = "backup", ![u].checked = TRUE]
       \/ ~LengthOk(u) /\ part[up[u].name] # 0 /\ Fail(u)
       \/ Go(u, "backup")
    /\ UNCHANGED <<Dir, Env>>

\* rename(target, bak).  "Not found" is a new file; any other error aborts.
MoveAway(n) ==
    /\ file[n] # 0
    /\ file' = [file EXCEPT ![n] = 0]
    /\ baks' = [baks EXCEPT ![n] = @ \cup {file[n]}]

Backup(u) ==
    LET n == up[u].name IN
    /\ At(u, "backup")
    /\ \/ MoveAway(n) /\ up' = [up EXCEPT ![u].pc = "swap", ![u].bak = file[n]]
       \/ /\ file[n] = 0
          /\ Go(u, "swap")
          /\ UNCHANGED <<file, baks>>
       \/ MoveAway(n) /\ Fail(u)
       \/ UNCHANGED <<file, baks>> /\ Fail(u)
    /\ UNCHANGED <<data, part, cur, Env>>

\* Onto a name that is taken, rename fails or replaces, as the server does.
CanRename(n) == file[n] = 0 \/ server.replaces

\* rename(part, target)
MoveIn(n) ==
    /\ part[n] # 0 /\ CanRename(n)
    /\ file' = [file EXCEPT ![n] = part[n]]
    /\ part' = [part EXCEPT ![n] = 0]
    /\ cur' = [cur EXCEPT ![n] = part[n]]

\* Mutant of Swap: its error is ignored.
SwapIgnored(u) ==
    LET n == up[u].name IN
    /\ At(u, "swap")
    /\ \/ MoveIn(n)
       \/ UNCHANGED <<file, part, cur>>
    /\ Go(u, "clean")
    /\ UNCHANGED <<data, baks, Env>>

Swap(u) ==
    LET n == up[u].name IN
    /\ At(u, "swap")
    /\ \/ MoveIn(n) /\ Go(u, "clean")
       \/ MoveIn(n) /\ Go(u, "restore")
       \/ UNCHANGED <<file, part, cur>> /\ Go(u, "restore")
    /\ UNCHANGED <<data, baks, Env>>

\* Mutant of Restore: the backup is deleted even if it could not be put back.
RestoreDrops(u) ==
    LET n == up[u].name IN
    /\ At(u, "restore")
    /\ baks' = [baks EXCEPT ![n] = @ \ {up[u].bak}]
    /\ \/ /\ up[u].bak # 0 /\ CanRename(n)
          /\ file' = [file EXCEPT ![n] = up[u].bak]
          /\ cur' = [cur EXCEPT ![n] = up[u].bak]
       \/ UNCHANGED <<file, cur>>
    /\ Fail(u)
    /\ UNCHANGED <<data, part, Env>>

\* rename(bak, target), if a backup was made, after a failed swap.
Restore(u) ==
    LET n == up[u].name IN
    /\ At(u, "restore")
    /\ \/ /\ up[u].bak # 0 /\ CanRename(n)
          /\ file' = [file EXCEPT ![n] = up[u].bak]
          /\ baks' = [baks EXCEPT ![n] = @ \ {up[u].bak}]
          /\ cur' = [cur EXCEPT ![n] = up[u].bak]
       \/ UNCHANGED <<file, baks, cur>>
    /\ Fail(u)
    /\ UNCHANGED <<data, part, Env>>

\* Delete the backup, best effort.
Clean(u) ==
    LET n == up[u].name IN
    /\ At(u, "clean")
    /\ Go(u, "done")
    /\ \/ baks' = [baks EXCEPT ![n] = @ \ {up[u].bak}]
       \/ UNCHANGED baks
    /\ UNCHANGED <<data, file, part, cur, Env>>

\* Out of attempts or cancelled: delete the part, best effort, and report.
Abandon(u) ==
    LET n == up[u].name IN
    /\ At(u, "giveup")
    /\ End(u, "failed")
    /\ \/ part' = [part EXCEPT ![n] = 0]
       \/ UNCHANGED part
    /\ UNCHANGED <<data, file, baks, cur, Env>>

-----------------------------------------------------------------------------

Work(u) ==
    \/ Probe(u) \/ Start(u) \/ Open(u) \/ Write(u) \/ Close(u) \/ Verify(u)
    \/ Backup(u) \/ Swap(u) \/ Restore(u) \/ Clean(u) \/ Abandon(u)

Next == \E u \in Uploaders : Begin(u) \/ Cancel(u) \/ Drop(u) \/ Edit(u) \/ Work(u)

Spec == Init /\ [][Next]_vars

\* Every request is answered or times out.
FairSpec == Spec /\ \A u \in Uploaders : WF_vars(Work(u))

-----------------------------------------------------------------------------
(* Safety *)

\* What was last installed under a name is still there, under the name or as
\* a backup of it, whatever fails, is dropped or runs beside it
\* (upload.rs:630, "no step that fails loses the original").
NothingLost ==
    \A n \in Names : cur[n] # 0 => file[n] = cur[n] \/ cur[n] \in baks[n]

\* Upload u has moved its part into place and was told so.
Committed(u) == up[u].pc \in {"clean", "done"}

\* An upload that commits has put a complete version of its local file there:
\* across retries, resumption from the part's length, edits of the local file
\* and a server that drops the tail.  Three cases are excepted: the file was
\* edited while this attempt read it, the run never truncated the part itself
\* (OwnPrefix below), and the server lost the tail and would not tell the length.
CommitComplete ==
    \A u \in Uploaders :
      /\ Committed(u) /\ ~up[u].torn /\ up[u].own
      /\ up[u].checked \/ ~server.truncates
      => \E v \in Versions : data[up[u].handle] = Full(u, v)

\* The upload is a replacement in one step: see AtomicReplace.
Shown == [n \in Names |-> IF cur[n] = 0 THEN {} ELSE {data[cur[n]]}]

Status == [u \in Uploaders |->
            CASE up[u].pc = "idle" -> "idle"
              [] up[u].pc = "done" -> "ok"
              [] up[u].pc = "skipped" -> "skipped"
              [] up[u].pc \in {"failed", "dropped"} -> "failed"
              [] OTHER -> "running"]

Abstract == INSTANCE AtomicReplace WITH
              Writers <- Uploaders, content <- Shown, status <- Status,
              New <- [u \in Uploaders |-> {{Full(u, v)} : v \in Versions}],
              Old <- {{<<Hole>>}}, None <- {}

\* With one upload at a time and a local file nobody edits, the twelve kinds
\* of request, their failures and the retries implement AtomicReplace: no
\* reader who follows the backups ever sees a partial file.
ReplacesAtomically == Abstract!Spec

-----------------------------------------------------------------------------
(* Liveness *)

\* Every upload ends: XFER_RETRIES bounds the attempts, end of file the writes.
UploadEnds == \A u \in Uploaders : Active(u) ~> ~Active(u)

-----------------------------------------------------------------------------
(* What comments of the code say and the code does not do *)

\* upload.rs:520, on resumption "the remote content is necessarily a local
\* prefix this process has just written".
OwnPrefix ==
    [][\A u \in Uploaders : Start(u) =>
         \A i \in 1..up'[u].pos :
           data[part[up[u].name]][i] = [src |-> u, ver |-> ver[u]]]_vars
=============================================================================
