------------------------------ MODULE Download ------------------------------
(***************************************************************************)
(* Downloads of one remote file to one local path: download() and           *)
(* download_file() of ssh/xfer/download.rs.  A small file is streamed into   *)
(* <local>.ishellpart.data.  A large one is fetched in chunks by parallel   *)
(* workers into a preallocated data file, and the chunks done are kept in a  *)
(* sidecar (size, mtime, bitmap), from which a later run resumes.  Then the  *)
(* data file is swapped in (finish_download).                               *)
(*                                                                          *)
(* One run at a time; it may fail, be dropped at an await (cancel, or the    *)
(* worker returning) or die with the program at any step, and be started     *)
(* again.  The remote file may be edited, or put back, at any time, and the  *)
(* data file may be truncated or deleted between runs.  What has been        *)
(* written to a local file survives the end of the program.                 *)
(*                                                                          *)
(* Left out: directories, the Rename policy (it downloads to another path),  *)
(* progress, two runs to one path.                                          *)
(***************************************************************************)
EXTENDS Naturals, Sequences, FiniteSets, FiniteSetsExt

CONSTANTS
    Size,     \* Size[v]: chunks of version v of the remote file
    Mtime,    \* Mtime[v]: its modification time, 0 if the server tells none
    Workers,  \* DL_PARALLEL workers at most (8 in the code)
    PerByte,  \* chunks whose bits share a byte of the bitmap (8)
    Retries,  \* XFER_RETRIES (3 in the code)
    MaxRuns,  \* bound: runs
    MaxCrash, \* bound: times the program ends
    MaxEdits, \* bound: edits of the remote file
    MaxLoss   \* bound: times the data file is damaged between runs

Versions == 1..Len(Size)

ASSUME DownloadAssumption ==
    /\ Size \in Seq(Nat) /\ Size # <<>>
    /\ Mtime \in [Versions -> Nat]
    /\ PerByte \in Nat \ {0}
    /\ Retries \in Nat
    /\ MaxRuns \in Nat /\ MaxCrash \in Nat /\ MaxEdits \in Nat /\ MaxLoss \in Nat

VARIABLES
    ver,    \* the version of the remote file
    data,   \* <local>.ishellpart.data
    side,   \* the sidecar <local>.ishellpart
    target, \* the local file
    baks,   \* contents of the backups <local>.ishell-bak-<random>
    run,    \* the future of download()
    wk,     \* the workers of its current round
    hist,   \* history, not in the code
    bound   \* the counters that bound the model

vars == <<ver, data, side, target, baks, run, wk, hist, bound>>

\* A chunk holds the version it was read from; 0 is a hole (zeros).
Chunks   == Seq(Versions \cup {0})
NoFile   == [there |-> FALSE, chunks |-> <<>>]
With(c)  == [there |-> TRUE, chunks |-> c]
File     == [there : BOOLEAN, chunks : Chunks]
Full(v)  == [i \in 1..Size[v] |-> v]

\* head: the header is complete.  bits: the chunks marked done.
Sidecar == [head : BOOLEAN, size : Nat, mtime : Nat, bits : SUBSET Nat]
NoSide  == [head |-> FALSE, size |-> 0, mtime |-> 0, bits |-> {}]

\* In the order of the code; between two of them the program may end.
Pc == {"idle", "policy", "mtime", "small", "stream", "plan", "length", "sidecar",
       "header", "bits", "spawn", "round", "check", "finish", "swap", "clean",
       "restore", "done", "skipped", "failed", "dropped"}

Run == [pc      : Pc,
        size    : Nat,           \* as the first metadata told, 0 if it failed
        mtime   : Nat,           \* as the second told, 0 if it failed
        resume  : BOOLEAN,       \* resume_bm is Some
        done    : SUBSET Nat,    \* chunk_done
        cursor  : Nat,
        attempt : 0..Retries,
        cancel  : BOOLEAN,       \* the cancel flag
        bak     : Chunks,        \* what finish_download moved to its backup
        pin     : Versions,      \* history: the version mtime belongs to
        split   : BOOLEAN]       \* history: size belongs to another version

\* buf: the version of the chunk read.  byte: the bits to be written.
Worker == [pc   : {"off", "open", "next", "read", "write", "mark", "byte", "side"},
           idx  : Nat,
           buf  : Versions,
           byte : SUBSET Nat]

\* torn: a chunk of the data file was read after an edit.  gap: the data file
\* was made anew beside a sidecar that has bits.  cur: what was last at target.
Hist == [torn : BOOLEAN, gap : BOOLEAN, cur : File]

TypeOK ==
    /\ ver \in Versions
    /\ data \in File /\ target \in File
    /\ side \in Sidecar
    /\ baks \in SUBSET Chunks
    /\ run \in Run
    /\ wk \in [Workers -> Worker]
    /\ hist \in Hist
    /\ bound \in [runs : 0..MaxRuns, crash : 0..MaxCrash, edits : 0..MaxEdits,
                  loss : 0..MaxLoss]

Off == [pc |-> "off", idx |-> 0, buf |-> 1, byte |-> {}]

NoRun == [pc |-> "idle", size |-> 0, mtime |-> 0, resume |-> FALSE,
          done |-> {}, cursor |-> 0, attempt |-> 0, cancel |-> FALSE, bak |-> <<>>,
          pin |-> 1, split |-> FALSE]

\* The local path is free or holds another file.
Init ==
    /\ ver = 1
    /\ data = NoFile /\ side = NoSide /\ baks = {}
    /\ target \in {NoFile, With(<<0>>)}
    /\ run = NoRun
    /\ wk = [w \in Workers |-> Off]
    /\ hist = [torn |-> FALSE, gap |-> FALSE, cur |-> target]
    /\ bound = [runs |-> 0, crash |-> 0, edits |-> 0, loss |-> 0]

-----------------------------------------------------------------------------
(* Helpers *)

At(pc) == run.pc = pc
Ended  == run.pc \in {"idle", "done", "skipped", "failed", "dropped"}
Disk   == <<data, side, target, baks>>
Go(pc) == run' = [run EXCEPT !.pc = pc]

\* The future ends, and its workers with it.
End(pc) ==
    /\ run' = [NoRun EXCEPT !.pc = pc]
    /\ wk' = [w \in Workers |-> Off]

\* An error that ? hands to the caller.
Err == End("failed")

Indices == 0..(run.size - 1)

\* The data file is created anew.
MakeData ==
    /\ data' = With(<<>>)
    /\ hist' = [hist EXCEPT !.torn = FALSE, !.gap = @ \/ side.bits # {}]

-----------------------------------------------------------------------------
(* Starting, cancelling, dropping, crashing; the world outside *)

Begin ==
    /\ Ended /\ bound.runs < MaxRuns
    /\ run' = [NoRun EXCEPT !.pc = "policy"]
    /\ bound' = [bound EXCEPT !.runs = @ + 1]
    /\ UNCHANGED <<ver, Disk, wk, hist>>

Cancel ==
    /\ ~Ended /\ ~run.cancel
    /\ run' = [run EXCEPT !.cancel = TRUE]
    /\ UNCHANGED <<ver, Disk, wk, hist, bound>>

\* A future is dropped at an await only: not while the setup or the swap runs,
\* nor while a worker is between its read and the end of its bookkeeping.
Drop ==
    /\ run.pc \in {"policy", "mtime", "small", "stream", "spawn", "round"}
    /\ \A w \in Workers : wk[w].pc \in {"off", "open", "next", "read"}
    /\ End("dropped")
    /\ UNCHANGED <<ver, Disk, hist, bound>>

Crash ==
    /\ ~Ended /\ bound.crash < MaxCrash
    /\ End("dropped")
    /\ bound' = [bound EXCEPT !.crash = @ + 1]
    /\ UNCHANGED <<ver, Disk, hist>>

Edit ==
    /\ bound.edits < MaxEdits
    /\ \E v \in Versions \ {ver} : ver' = v
    /\ bound' = [bound EXCEPT !.edits = @ + 1]
    /\ UNCHANGED <<Disk, run, wk, hist>>

Damage ==
    /\ Ended /\ data.there /\ bound.loss < MaxLoss
    /\ data' \in {NoFile, With(<<>>)}
    /\ bound' = [bound EXCEPT !.loss = @ + 1]
    /\ UNCHANGED <<ver, side, target, baks, run, wk, hist>>

-----------------------------------------------------------------------------
(* download(): the policy, then the size *)

\* Skip ends the run if the local path is taken; Overwrite goes on.
Policy ==
    /\ At("policy")
    /\ \/ target.there /\ End("skipped")
       \/ /\ \E s \in {Size[ver], 0} :
               run' = [run EXCEPT !.pc = "mtime", !.size = s, !.pin = ver]
          /\ UNCHANGED wk
    /\ UNCHANGED <<ver, Disk, hist, bound>>

\* The argument of download_file(), which then looks at the size.
AskMtime ==
    /\ At("mtime")
    /\ \/ \E m \in {Mtime[ver], 0} :
            run' = [run EXCEPT !.pc = IF run.size <= 1 THEN "small" ELSE "plan",
                               !.mtime = m, !.pin = ver, !.split = run.pin # ver]
          /\ UNCHANGED wk
       \/ Err                                      \* create_dir_all
    /\ UNCHANGED <<ver, Disk, hist, bound>>

-----------------------------------------------------------------------------
(* Small files and files of unknown size: one stream, read to its end *)

\* Mutant of Again: the attempts are not counted.
AgainUncounted(pc) ==
    IF run.cancel \/ run.attempt >= Retries
    THEN Err
    ELSE run' = [run EXCEPT !.pc = pc] /\ UNCHANGED wk

\* Try again unless cancelled or out of attempts.
Again(pc) ==
    IF run.cancel \/ run.attempt >= Retries
    THEN Err
    ELSE run' = [run EXCEPT !.pc = pc, !.attempt = @ + 1] /\ UNCHANGED wk

\* The error path of the stream, which deletes the data file when it gives up.
StreamFail ==
    /\ Again("small")
    /\ IF run.cancel \/ run.attempt >= Retries
       THEN data' \in {NoFile, data} ELSE UNCHANGED data
    /\ UNCHANGED hist

SmallOpen ==
    /\ At("small")
    /\ \/ MakeData /\ Go("stream") /\ UNCHANGED wk
       \/ StreamFail
    /\ UNCHANGED <<ver, side, target, baks, bound>>

StreamEnd == Len(data.chunks) >= Size[ver]

Stream ==
    /\ At("stream")
    /\ \/ /\ ~run.cancel /\ ~StreamEnd
          /\ data' = With(Append(data.chunks, ver))
          /\ hist' = [hist EXCEPT !.torn = @ \/ ver # run.pin]
          /\ UNCHANGED <<run, wk>>
       \/ /\ ~run.cancel /\ StreamEnd
          /\ Go("finish")
          /\ hist' = [hist EXCEPT !.torn = @ \/ ver # run.pin]
          /\ UNCHANGED <<data, wk>>
       \/ StreamFail
    /\ UNCHANGED <<ver, side, target, baks, bound>>

-----------------------------------------------------------------------------
(* Large files: resume or start anew, then the sidecar.  No await up to spawn. *)

\* data_len_ok
DataWhole(n) == data.there /\ Len(data.chunks) = n

\* Mutant of SameRemote: the modification time is not compared.
SameSize(n, m) == side.head /\ side.size = n /\ m # 0

SameRemote(n, m) == side.head /\ side.size = n /\ side.mtime = m /\ m # 0

Resumable == DataWhole(run.size) /\ SameRemote(run.size, run.mtime)

\* Opening the data file, or creating it.
Plan ==
    /\ At("plan")
    /\ \/ /\ Resumable
          /\ run' = [run EXCEPT !.pc = "sidecar", !.resume = TRUE, !.done = side.bits]
          /\ UNCHANGED <<data, hist, wk>>
       \/ ~Resumable /\ MakeData /\ Go("length") /\ UNCHANGED wk
       \/ Err /\ UNCHANGED <<data, hist>>
    /\ UNCHANGED <<ver, side, target, baks, bound>>

\* set_len(size)
SetLength ==
    /\ At("length")
    /\ \/ /\ data' = With([i \in 1..run.size |-> 0])
          /\ Go("sidecar") /\ UNCHANGED wk
       \/ Err /\ UNCHANGED data
    /\ UNCHANGED <<ver, side, target, baks, hist, bound>>

\* Creating the sidecar truncates the old one.
MakeSidecar ==
    /\ At("sidecar")
    /\ \/ /\ side' = NoSide
          /\ hist' = [hist EXCEPT !.gap = @ /\ run.resume]
          /\ Go("header") /\ UNCHANGED wk
       \/ Err /\ UNCHANGED <<side, hist>>
    /\ UNCHANGED <<ver, data, target, baks, bound>>

WriteHeader ==
    /\ At("header")
    /\ \/ /\ side' = [head |-> TRUE, size |-> run.size, mtime |-> run.mtime, bits |-> {}]
          /\ Go("bits") /\ UNCHANGED wk
       \/ Err /\ UNCHANGED side
    /\ UNCHANGED <<ver, data, target, baks, hist, bound>>

\* The bits of a resumed run are put back.
WriteBits ==
    /\ At("bits")
    /\ \/ /\ side' = [side EXCEPT !.bits = run.done]
          /\ Go("spawn") /\ UNCHANGED wk
       \/ Err /\ UNCHANGED side
    /\ UNCHANGED <<ver, data, target, baks, hist, bound>>

-----------------------------------------------------------------------------
(* A round of the workers *)

Spawn ==
    /\ At("spawn")
    /\ run' = [run EXCEPT !.pc = "round", !.cursor = 0]
    /\ \E W \in SUBSET Workers :
         /\ Cardinality(W) = Min({Cardinality(Workers), run.size})
         /\ wk' = [w \in Workers |-> IF w \in W THEN [Off EXCEPT !.pc = "open"] ELSE Off]
    /\ UNCHANGED <<ver, Disk, hist, bound>>

WAt(w, pc) == At("round") /\ wk[w].pc = pc
WGo(w, pc) == wk' = [wk EXCEPT ![w].pc = pc]
WEnd(w)    == wk' = [wk EXCEPT ![w] = Off]

WOpen(w) ==
    /\ WAt(w, "open")
    /\ WGo(w, "next") \/ WEnd(w)
    /\ UNCHANGED <<ver, Disk, run, hist, bound>>

\* The next index off the shared cursor, unless it was done in an earlier round.
WNext(w) ==
    /\ WAt(w, "next")
    /\ \/ run.cancel /\ WEnd(w) /\ UNCHANGED run
       \/ /\ ~run.cancel
          /\ run' = [run EXCEPT !.cursor = @ + 1]
          /\ IF run.cursor >= run.size THEN WEnd(w)
             ELSE IF run.cursor \in run.done THEN UNCHANGED wk
             ELSE wk' = [wk EXCEPT ![w].pc = "read", ![w].idx = run.cursor]
    /\ UNCHANGED <<ver, Disk, hist, bound>>

\* A short read is an error.
WRead(w) ==
    /\ WAt(w, "read")
    /\ \/ /\ wk[w].idx < Size[ver]
          /\ wk' = [wk EXCEPT ![w].pc = "write", ![w].buf = ver]
       \/ WEnd(w)
    /\ UNCHANGED <<ver, Disk, run, hist, bound>>

WWrite(w) ==
    /\ WAt(w, "write")
    /\ \/ /\ data' = [data EXCEPT !.chunks[wk[w].idx + 1] = wk[w].buf]
          /\ hist' = [hist EXCEPT !.torn = @ \/ wk[w].buf # run.pin]
          /\ WGo(w, "mark")
       \/ WEnd(w) /\ UNCHANGED <<data, hist>>
    /\ UNCHANGED <<ver, side, target, baks, run, bound>>

WMark(w) ==
    /\ WAt(w, "mark")
    /\ run' = [run EXCEPT !.done = @ \cup {wk[w].idx}]
    /\ WGo(w, "byte")
    /\ UNCHANGED <<ver, Disk, hist, bound>>

\* The chunks whose bits are in the byte of chunk k.
Octet(k) == {c \in Indices : c \div PerByte = k \div PerByte}

WByte(w) ==
    /\ WAt(w, "byte")
    /\ wk' = [wk EXCEPT ![w].pc = "side", ![w].byte = run.done \cap Octet(wk[w].idx)]
    /\ UNCHANGED <<ver, Disk, run, hist, bound>>

\* Another worker may have written a newer byte meanwhile.
WSide(w) ==
    /\ WAt(w, "side")
    /\ \/ /\ side' = [side EXCEPT !.bits = (@ \ Octet(wk[w].idx)) \cup wk[w].byte]
          /\ wk' = [wk EXCEPT ![w] = [Off EXCEPT !.pc = "next"]]
       \/ WEnd(w) /\ UNCHANGED side
    /\ UNCHANGED <<ver, data, target, baks, run, hist, bound>>

AllDone == Indices \subseteq run.done

\* Every worker has ended: complete, cancelled, given up, or another round.
\* Removing the sidecar and the data file is best effort.
Join ==
    /\ At("round")
    /\ \A w \in Workers : wk[w].pc = "off"
    /\ \/ /\ AllDone
          /\ side' \in {NoSide, side}
          /\ Go("check")
          /\ UNCHANGED <<data, wk>>
       \/ /\ ~AllDone /\ run.cancel
          /\ side' \in {NoSide, side} /\ data' \in {NoFile, data}
          /\ Err
       \/ ~AllDone /\ ~run.cancel /\ Again("spawn") /\ UNCHANGED <<side, data>>
    /\ UNCHANGED <<ver, target, baks, hist, bound>>

-----------------------------------------------------------------------------
(* The swap: finish_download().  No await from here on. *)

Check ==
    /\ At("check")
    /\ \/ DataWhole(run.size) /\ Go("finish") /\ UNCHANGED wk
       \/ Err
    /\ UNCHANGED <<ver, Disk, hist, bound>>

\* rename(data, target)
MoveIn ==
    /\ target' = data
    /\ data' = NoFile
    /\ hist' = [hist EXCEPT !.cur = data]

\* Nothing at the path: move in.  Else move what is there to a backup.
Finish ==
    /\ At("finish")
    /\ \/ ~target.there /\ MoveIn /\ Go("done") /\ UNCHANGED <<baks, wk>>
       \/ /\ target.there
          /\ target' = NoFile /\ baks' = baks \cup {target.chunks}
          /\ run' = [run EXCEPT !.pc = "swap", !.bak = target.chunks]
          /\ UNCHANGED <<data, hist, wk>>
       \/ Err /\ UNCHANGED <<data, target, baks, hist>>
    /\ UNCHANGED <<ver, side, bound>>

Swap ==
    /\ At("swap")
    /\ \/ MoveIn /\ Go("clean")
       \/ Go("restore") /\ UNCHANGED <<data, target, hist>>
    /\ UNCHANGED <<ver, side, baks, wk, bound>>

\* Delete the backup, best effort.
Clean ==
    /\ At("clean")
    /\ baks' \in {baks, baks \ {run.bak}}
    /\ Go("done")
    /\ UNCHANGED <<ver, data, side, target, wk, hist, bound>>

\* Mutant of Restore: the backup is deleted even if it could not be put back.
RestoreDrops ==
    /\ At("restore")
    /\ target' \in {target, With(run.bak)}
    /\ baks' = baks \ {run.bak}
    /\ data' \in {NoFile, data}
    /\ Err
    /\ UNCHANGED <<ver, side, hist, bound>>

\* Put the backup back and delete the data file, each best effort.
Restore ==
    /\ At("restore")
    /\ \/ target' = With(run.bak) /\ baks' = baks \ {run.bak}
       \/ UNCHANGED <<target, baks>>
    /\ data' \in {NoFile, data}
    /\ Err
    /\ UNCHANGED <<ver, side, hist, bound>>

-----------------------------------------------------------------------------

Setup == Policy \/ AskMtime \/ Plan \/ SetLength \/ MakeSidecar \/ WriteHeader \/ WriteBits

Main ==
    \/ Setup \/ SmallOpen \/ Stream \/ Spawn \/ Join
    \/ Check \/ Finish \/ Swap \/ Clean \/ Restore

Fetch(w) ==
    WOpen(w) \/ WNext(w) \/ WRead(w) \/ WWrite(w) \/ WMark(w) \/ WByte(w) \/ WSide(w)

Next ==
    \/ Begin \/ Cancel \/ Drop \/ Crash \/ Edit \/ Damage
    \/ Main \/ \E w \in Workers : Fetch(w)

Spec == Init /\ [][Next]_vars

\* Local files answer, SFTP requests are answered or time out, and tokio polls
\* every ready task.
FairSpec == Spec /\ WF_vars(Main) /\ \A w \in Workers : WF_vars(Fetch(w))

-----------------------------------------------------------------------------
(* Safety *)

\* The data file was moved into place by this run.
Installed == run.pc \in {"clean", "done"}

\* What a download installs is one complete version of the remote file, across
\* interrupted runs, retries, resumption, workers that overwrite each other's
\* bitmap bytes, edits and rollbacks between runs and a data file damaged
\* meanwhile.  Excepted: the file was edited while a run read it (the code looks
\* at size and mtime once), and what ResumeSound below is about.
InstalledWhole ==
    Installed /\ ~run.split /\ ~hist.torn /\ ~(run.resume /\ hist.gap) =>
      target = With(Full(run.pin))

\* What stood under the local path last is there or in a backup
\* (download.rs:854, "the original is never lost").
OriginalKept == hist.cur.there => target = hist.cur \/ hist.cur.chunks \in baks

-----------------------------------------------------------------------------
(* Liveness *)

\* A download ends: XFER_RETRIES bounds the rounds, the cursor the chunks.
DownloadEnds == ~Ended ~> Ended

-----------------------------------------------------------------------------
(* What comments of the code say and the code does not do *)

\* download.rs:675, a data file that does not fit is created anew and the
\* resume information dropped, so that no chunk is skipped that is not there:
\* no hole is ever installed.
ResumeSound ==
    Installed /\ ~run.split /\ ~hist.torn =>
      \A i \in 1..Len(target.chunks) : target.chunks[i] # 0
=============================================================================
