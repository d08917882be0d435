---------------------------- MODULE DownloadProofs ----------------------------
(***************************************************************************)
(* Proofs about Download, for every number of chunks, versions, workers,   *)
(* retries and runs.                                                       *)
(*                                                                         *)
(* The inductive invariant follows what a chunk of the data file is worth: *)
(* Sound says that no chunk was read after an edit and that no bitmap was  *)
(* kept beside a data file made anew; then every chunk marked done, in     *)
(* memory or in the sidecar, is the version whose modification time the    *)
(* run or the sidecar names.                                               *)
(***************************************************************************)
EXTENDS Download, Integers, TLAPS

\* Two versions of the remote file never have the same modification time.
\* The code tells versions apart by size and time alone.
MtimeDistinct == \A v, w \in Versions : Mtime[v] = Mtime[w] /\ Mtime[v] # 0 => v = w

\* Before the sidecar of this run; with the data file laid out; large files.
Fresh == {"policy", "mtime", "small", "stream", "plan", "length"}
Laid  == {"sidecar", "header", "bits", "spawn", "round", "check"}
Large == {"plan", "length"} \cup Laid

Sound   == MtimeDistinct /\ ~hist.torn /\ ~hist.gap
Trusted == MtimeDistinct /\ ~run.split /\ ~hist.torn /\ ~(run.resume /\ hist.gap)

RunOK ==
    /\ At("mtime") => run.size \in {Size[run.pin], 0}
    /\ run.pc \in Large => /\ run.size > 1
                           /\ run.mtime \in {Mtime[run.pin], 0}
                           /\ ~run.split => run.size = Size[run.pin]
    /\ run.pc \in Fresh => ~run.resume
    /\ (run.pc \in Fresh \cup {"sidecar"} /\ ~run.resume) => run.done = {}
    /\ run.pc \in Laid => data.there /\ Len(data.chunks) = run.size
    /\ (run.pc \in Laid \ {"sidecar"} /\ hist.gap) => run.resume

\* The sidecar tells the truth about the data file it lies beside.
Mirror == (Sound /\ side.mtime # 0) =>
    \A v \in Versions, i \in side.bits :
       Mtime[v] = side.mtime /\ i + 1 \in DOMAIN data.chunks => data.chunks[i + 1] = v

SideOK ==
    /\ ((At("length") \/ At("stream")) /\ ~hist.gap) => side.bits = {}
    /\ At("header") => side.bits = {}
    /\ run.pc \in {"bits", "spawn", "round"} => side.mtime = run.mtime
    /\ Mirror

\* The chunks this run counts as done are chunks of its version.
DoneOK == (run.pc \in Laid /\ Sound) =>
    \A i \in Indices : i \in run.done => data.chunks[i + 1] = run.pin

WorkerOK(w) ==
    /\ wk[w].pc \in {"read", "write", "mark"} => wk[w].idx < run.size
    /\ (wk[w].pc = "mark" /\ Sound) => data.chunks[wk[w].idx + 1] = run.pin
    /\ wk[w].pc = "side" => wk[w].byte \subseteq run.done

WorkOK ==
    /\ DoneOK
    /\ At("check") => AllDone
    /\ At("round") => \A w \in Workers : WorkerOK(w)

\* What is about to be installed, and what was.
DataOK ==
    /\ At("stream") => /\ data.there
                       /\ ~hist.torn => /\ Len(data.chunks) <= Size[run.pin]
                                        /\ \A i \in DOMAIN data.chunks : data.chunks[i] = run.pin
    /\ run.pc \in {"finish", "swap"} => data.there /\ (Trusted => data.chunks = Full(run.pin))
    /\ (Installed /\ Trusted) => target = With(Full(run.pin))

KeptOK ==
    /\ OriginalKept
    /\ run.pc \in {"swap", "restore"} => ~target.there
    /\ At("clean") => target = hist.cur

IInv == TypeOK /\ RunOK /\ SideOK /\ WorkOK /\ DataOK /\ KeptOK

-----------------------------------------------------------------------------
(* Types and records *)

LEMMA VersionFacts ==
  ASSUME NEW v \in Versions
  PROVE  Size[v] \in Nat /\ Mtime[v] \in Nat /\ v \in Nat /\ v # 0 /\ Full(v) \in Chunks
<1>1. Len(Size) \in Nat /\ Size \in [Versions -> Nat]
  BY DownloadAssumption DEF Versions
<1>2. Size[v] \in Nat /\ Mtime[v] \in Nat /\ v \in Nat /\ v # 0
  BY <1>1, DownloadAssumption DEF Versions
<1>3. Full(v) \in [1..Size[v] -> Versions \cup {0}]
  BY DEF Full
<1>4. Full(v) \in Seq(Versions \cup {0})
  BY <1>2, <1>3
<1>5. QED  BY <1>2, <1>4 DEF Chunks

LEMMA Types ==
  ASSUME TypeOK
  PROVE  /\ ver \in Versions
         /\ data.there \in BOOLEAN /\ data.chunks \in Chunks
         /\ target.there \in BOOLEAN /\ target.chunks \in Chunks
         /\ data = [there |-> data.there, chunks |-> data.chunks]
         /\ target = [there |-> target.there, chunks |-> target.chunks]
         /\ side.head \in BOOLEAN /\ side.size \in Nat /\ side.mtime \in Nat
         /\ side.bits \in SUBSET Nat
         /\ run.pc \in Pc /\ run.size \in Nat /\ run.mtime \in Nat /\ run.resume \in BOOLEAN
         /\ run.done \in SUBSET Nat /\ run.cursor \in Nat /\ run.attempt \in 0..Retries
         /\ run.cancel \in BOOLEAN /\ run.bak \in Chunks /\ run.pin \in Versions
         /\ run.split \in BOOLEAN
         /\ hist.torn \in BOOLEAN /\ hist.gap \in BOOLEAN /\ hist.cur \in File
BY DEF TypeOK, File, Sidecar, Run, Hist

\* Everything of a run but where it is.
SameRun(q, r) ==
    /\ q.size = r.size /\ q.mtime = r.mtime /\ q.resume = r.resume /\ q.done = r.done
    /\ q.cursor = r.cursor /\ q.attempt = r.attempt /\ q.cancel = r.cancel /\ q.bak = r.bak
    /\ q.pin = r.pin /\ q.split = r.split

LEMMA GoFields ==
  ASSUME TypeOK, NEW p \in Pc, run' = [run EXCEPT !.pc = p]
  PROVE  run' \in Run /\ run'.pc = p /\ SameRun(run', run)
BY DEF TypeOK, Run, SameRun

LEMMA EndFields ==
  ASSUME NEW p \in Pc, run' = [NoRun EXCEPT !.pc = p]
  PROVE  run' \in Run /\ run'.pc = p /\ ~run'.resume /\ run'.done = {}
<1>1. 1 \in Versions
  <2>1. Len(Size) \in Nat /\ Len(Size) # 0
    BY DownloadAssumption
  <2>2. QED  BY <2>1 DEF Versions
<1>2. <<>> \in Chunks /\ 0 \in 0..Retries
  BY DownloadAssumption DEF Chunks
<1>3. run' = [pc |-> p, size |-> 0, mtime |-> 0, resume |-> FALSE,
          done |-> {}, cursor |-> 0, attempt |-> 0, cancel |-> FALSE, bak |-> <<>>,
          pin |-> 1, split |-> FALSE]
  BY DEF NoRun
<1>4. FALSE \in BOOLEAN /\ {} \in SUBSET Nat /\ 0 \in Nat
  OBVIOUS
<1>5. run' \in Run
  <2>1. [pc |-> p, size |-> 0, mtime |-> 0, resume |-> FALSE,
         done |-> {}, cursor |-> 0, attempt |-> 0, cancel |-> FALSE, bak |-> <<>>,
         pin |-> 1, split |-> FALSE] \in Run
    BY <1>1, <1>2, <1>4, Zenon DEF Run
  <2>2. QED  BY <1>3, <2>1, Zenon
<1>6. run'.pc = p /\ run'.resume = FALSE /\ run'.done = {}
  BY <1>3
<1>7. QED  BY <1>5, <1>6

LEMMA OffWorkers ==
  ASSUME wk' = [w \in Workers |-> Off]
  PROVE  wk' \in [Workers -> Worker]
<1>1. 1 \in Versions
  <2>1. Len(Size) \in Nat /\ Len(Size) # 0
    BY DownloadAssumption
  <2>2. QED  BY <2>1 DEF Versions
<1>2. Off \in Worker
  BY <1>1 DEF Off, Worker
<1>3. QED  BY <1>2

\* Losing the data file or the sidecar makes no sidecar lie.
LEMMA MirrorKept ==
  ASSUME Mirror, data' \in {data, NoFile, With(<<>>)}, side' \in {side, NoSide},
         Sound' => Sound
  PROVE  Mirror'
<1>1. DOMAIN NoFile.chunks = {} /\ DOMAIN With(<<>>).chunks = {} /\ NoSide.bits = {}
  BY DEF NoFile, With, NoSide
<1>2. QED  BY <1>1 DEF Mirror

LEMMA NoFiles ==
  /\ NoFile \in File /\ With(<<>>) \in File /\ NoSide \in Sidecar
  /\ \A c \in Chunks : With(c) \in File /\ With(c).there /\ With(c).chunks = c
  /\ ~NoFile.there /\ NoSide.bits = {} /\ NoSide.mtime = 0
<1>1. <<>> \in Chunks
  BY DEF Chunks
<1>2. QED  BY <1>1 DEF NoFile, With, NoSide, File, Sidecar

\* A run that is over, or has just begun, promises nothing of its own.
LEMMA EndStep ==
  ASSUME TypeOK, NEW p \in {"policy", "skipped", "failed", "dropped"},
         run' = [NoRun EXCEPT !.pc = p], wk' \in [Workers -> Worker],
         ver' \in Versions, data' \in File, side' \in Sidecar, target' \in File,
         baks' \in SUBSET Chunks, hist' \in Hist,
         bound' \in [runs : 0..MaxRuns, crash : 0..MaxCrash, edits : 0..MaxEdits, loss : 0..MaxLoss],
         Mirror', OriginalKept'
  PROVE  IInv'
<1>1. p \in Pc
  BY DEF Pc
<1>2. run' \in Run /\ run'.pc = p /\ ~run'.resume /\ run'.done = {}
  BY <1>1, EndFields
<1>3. TypeOK'
  BY <1>2 DEF TypeOK
<1>4. p \notin Large /\ p \notin Laid /\ p \notin {"mtime", "length", "stream", "header", "bits",
        "spawn", "round", "check", "finish", "swap", "clean", "restore", "done"}
  BY DEF Large, Laid
<1>5. RunOK'
  BY <1>2, <1>4 DEF RunOK, At
<1>6. SideOK'
  BY <1>2, <1>4 DEF SideOK, At
<1>7. WorkOK'
  BY <1>2, <1>4 DEF WorkOK, DoneOK, At
<1>8. DataOK'
  BY <1>2, <1>4 DEF DataOK, At, Installed
<1>9. KeptOK'
  BY <1>2, <1>4 DEF KeptOK, At
<1>10. QED  BY <1>3, <1>5, <1>6, <1>7, <1>8, <1>9 DEF IInv

\* The future ends, by an error, a skip or by being dropped; what it may
\* still delete is the data file and the sidecar.
LEMMA GivesUp ==
  ASSUME IInv, NEW p \in {"skipped", "failed", "dropped"}, End(p),
         ver' = ver, data' \in {data, NoFile}, side' \in {side, NoSide},
         hist' = hist, OriginalKept', target' \in File, baks' \in SUBSET Chunks,
         bound' \in [runs : 0..MaxRuns, crash : 0..MaxCrash, edits : 0..MaxEdits, loss : 0..MaxLoss]
  PROVE  IInv'
<1>1. TypeOK /\ Mirror
  BY DEF IInv, SideOK
<1>2. Mirror'
  <2>1. Sound' => Sound
    BY DEF Sound
  <2>2. QED  BY <1>1, <2>1, MirrorKept
<1>3. run' = [NoRun EXCEPT !.pc = p] /\ wk' \in [Workers -> Worker]
  BY OffWorkers DEF End
<1>4. data' \in File /\ side' \in Sidecar /\ ver' \in Versions /\ hist' \in Hist
  BY <1>1, NoFiles DEF TypeOK
<1>5. QED  BY <1>1, <1>2, <1>3, <1>4, EndStep

-----------------------------------------------------------------------------
(* Starting, cancelling, dropping, crashing; the world outside *)

\* A bound not yet used up may be spent once more.
LEMMA Counters ==
  ASSUME TypeOK
  PROVE  /\ bound.runs < MaxRuns => bound.runs + 1 \in 0..MaxRuns
         /\ bound.crash < MaxCrash => bound.crash + 1 \in 0..MaxCrash
         /\ bound.edits < MaxEdits => bound.edits + 1 \in 0..MaxEdits
         /\ bound.loss < MaxLoss => bound.loss + 1 \in 0..MaxLoss
<1>1. /\ bound.runs \in 0..MaxRuns /\ bound.crash \in 0..MaxCrash
      /\ bound.edits \in 0..MaxEdits /\ bound.loss \in 0..MaxLoss
  BY DEF TypeOK
<1>2. MaxRuns \in Nat /\ MaxCrash \in Nat /\ MaxEdits \in Nat /\ MaxLoss \in Nat
  BY DownloadAssumption
<1>3. QED  BY <1>1, <1>2

LEMMA BeginStep ==
  ASSUME IInv, Begin PROVE IInv'
<1>1. TypeOK /\ Mirror /\ OriginalKept
  BY DEF IInv, SideOK, KeptOK
<1>2. /\ run' = [NoRun EXCEPT !.pc = "policy"]
      /\ UNCHANGED <<ver, data, side, target, baks, wk, hist>>
      /\ bound' = [bound EXCEPT !.runs = @ + 1] /\ bound.runs < MaxRuns
  BY DEF Begin, Disk
<1>3. bound' \in [runs : 0..MaxRuns, crash : 0..MaxCrash, edits : 0..MaxEdits, loss : 0..MaxLoss]
  <2>1. bound.runs + 1 \in 0..MaxRuns
    BY <1>1, <1>2, Counters
  <2>2. QED  BY <1>1, <1>2, <2>1 DEF TypeOK
<1>4. Mirror' /\ OriginalKept'
  BY <1>1, <1>2 DEF Mirror, Sound, OriginalKept
<1>5. QED  BY <1>1, <1>2, <1>3, <1>4, EndStep DEF TypeOK

LEMMA CancelStep ==
  ASSUME IInv, Cancel PROVE IInv'
<1>1. TypeOK /\ run' = [run EXCEPT !.cancel = TRUE]
      /\ UNCHANGED <<ver, data, side, target, baks, wk, hist, bound>>
  BY DEF IInv, Cancel, Disk
<1>2. /\ run' \in Run /\ run'.pc = run.pc /\ run'.size = run.size /\ run'.mtime = run.mtime
      /\ run'.resume = run.resume /\ run'.done = run.done /\ run'.pin = run.pin
      /\ run'.split = run.split
  BY <1>1 DEF TypeOK, Run
<1>3. TypeOK'
  BY <1>1, <1>2 DEF TypeOK
<1>4. RunOK' /\ SideOK'
  BY <1>1, <1>2 DEF IInv, RunOK, SideOK, Mirror, Sound, At
<1>5. WorkOK'
  BY <1>1, <1>2 DEF IInv, WorkOK, DoneOK, WorkerOK, AllDone, Indices, Sound, At
<1>6. DataOK' /\ KeptOK'
  BY <1>1, <1>2 DEF IInv, DataOK, KeptOK, Trusted, Installed, OriginalKept, At
<1>7. QED  BY <1>3, <1>4, <1>5, <1>6 DEF IInv

LEMMA DropStep ==
  ASSUME IInv, Drop PROVE IInv'
<1>1. TypeOK /\ OriginalKept /\ End("dropped")
      /\ UNCHANGED <<ver, data, side, target, baks, hist, bound>>
  BY DEF IInv, KeptOK, Drop, Disk
<1>2. OriginalKept'
  BY <1>1 DEF OriginalKept
<1>3. QED  BY <1>1, <1>2, GivesUp DEF TypeOK

LEMMA CrashStep ==
  ASSUME IInv, Crash PROVE IInv'
<1>1. TypeOK /\ OriginalKept /\ End("dropped")
      /\ UNCHANGED <<ver, data, side, target, baks, hist>>
      /\ bound' = [bound EXCEPT !.crash = @ + 1] /\ bound.crash < MaxCrash
  BY DEF IInv, KeptOK, Crash, Disk
<1>2. OriginalKept'
  BY <1>1 DEF OriginalKept
<1>3. bound' \in [runs : 0..MaxRuns, crash : 0..MaxCrash, edits : 0..MaxEdits, loss : 0..MaxLoss]
  <2>1. bound.crash + 1 \in 0..MaxCrash
    BY <1>1, Counters
  <2>2. QED  BY <1>1, <2>1 DEF TypeOK
<1>4. QED  BY <1>1, <1>2, <1>3, GivesUp DEF TypeOK

LEMMA EditStep ==
  ASSUME IInv, Edit PROVE IInv'
<1>1. TypeOK /\ UNCHANGED <<data, side, target, baks, run, wk, hist>>
      /\ ver' \in Versions
      /\ bound' = [bound EXCEPT !.edits = @ + 1] /\ bound.edits < MaxEdits
  BY DEF IInv, Edit, Disk
<1>2. bound' \in [runs : 0..MaxRuns, crash : 0..MaxCrash, edits : 0..MaxEdits, loss : 0..MaxLoss]
  <2>1. bound.edits + 1 \in 0..MaxEdits
    BY <1>1, Counters
  <2>2. QED  BY <1>1, <2>1 DEF TypeOK
<1>3. TypeOK'
  BY <1>1, <1>2 DEF TypeOK
<1>4. RunOK' /\ SideOK'
  BY <1>1 DEF IInv, RunOK, SideOK, Mirror, Sound, At
<1>5. WorkOK'
  BY <1>1 DEF IInv, WorkOK, DoneOK, WorkerOK, AllDone, Indices, Sound, At
<1>6. DataOK' /\ KeptOK'
  BY <1>1 DEF IInv, DataOK, KeptOK, Trusted, Installed, OriginalKept, At
<1>7. QED  BY <1>3, <1>4, <1>5, <1>6 DEF IInv

LEMMA DamageStep ==
  ASSUME IInv, Damage PROVE IInv'
<1>1. TypeOK /\ UNCHANGED <<ver, side, target, baks, run, wk, hist>>
      /\ data' \in {NoFile, With(<<>>)}
      /\ bound' = [bound EXCEPT !.loss = @ + 1] /\ bound.loss < MaxLoss
      /\ run.pc \in {"idle", "done", "skipped", "failed", "dropped"}
  BY DEF IInv, Damage, Ended
<1>2. bound' \in [runs : 0..MaxRuns, crash : 0..MaxCrash, edits : 0..MaxEdits, loss : 0..MaxLoss]
  <2>1. bound.loss + 1 \in 0..MaxLoss
    BY <1>1, Counters
  <2>2. QED  BY <1>1, <2>1 DEF TypeOK
<1>3. TypeOK'
  BY <1>1, <1>2, NoFiles DEF TypeOK
<1>4. RunOK'
  BY <1>1 DEF IInv, RunOK, At, Large, Laid, Fresh
<1>5. SideOK'
  <2>1. Mirror'
    BY <1>1, MirrorKept DEF IInv, SideOK, Sound
  <2>2. QED  BY <1>1, <2>1 DEF SideOK, At
<1>6. WorkOK'
  BY <1>1 DEF WorkOK, DoneOK, Laid, At
<1>7. DataOK' /\ KeptOK'
  BY <1>1 DEF IInv, DataOK, KeptOK, Trusted, Installed, OriginalKept, At
<1>8. QED  BY <1>3, <1>4, <1>5, <1>6, <1>7 DEF IInv

-----------------------------------------------------------------------------
(* download(): the policy, then the size *)

LEMMA PolicyStep ==
  ASSUME IInv, Policy PROVE IInv'
<1>1. TypeOK /\ OriginalKept /\ run.pc = "policy"
      /\ UNCHANGED <<ver, data, side, target, baks, hist, bound>>
  BY DEF IInv, KeptOK, Policy, Disk, At
<1>2. OriginalKept'
  BY <1>1 DEF OriginalKept
<1>3. CASE End("skipped")
  BY <1>1, <1>2, <1>3, GivesUp DEF TypeOK
<1>4. CASE /\ \E s \in {Size[ver], 0} :
                run' = [run EXCEPT !.pc = "mtime", !.size = s, !.pin = ver]
           /\ UNCHANGED wk
  <2>1. PICK s \in {Size[ver], 0} :
                run' = [run EXCEPT !.pc = "mtime", !.size = s, !.pin = ver]
    BY <1>4
  <2>2. s \in Nat /\ ver \in Versions /\ "mtime" \in Pc
    BY <1>1, VersionFacts DEF TypeOK, Pc
  <2>3. /\ run' \in Run /\ run'.pc = "mtime" /\ run'.size = s /\ run'.pin = ver
        /\ run'.resume = run.resume /\ run'.done = run.done
    BY <1>1, <2>1, <2>2 DEF TypeOK, Run
  <2>4. TypeOK'
    BY <1>1, <1>4, <2>3 DEF TypeOK
  <2>5. RunOK'
    BY <1>1, <2>1, <2>3 DEF IInv, RunOK, At, Fresh, Large, Laid
  <2>6. SideOK'
    BY <1>1, <2>3 DEF IInv, SideOK, Mirror, Sound, At
  <2>7. WorkOK' /\ DataOK' /\ KeptOK'
    BY <1>1, <1>2, <2>3 DEF WorkOK, DoneOK, Laid, DataOK, KeptOK, Installed, At
  <2>8. QED  BY <2>4, <2>5, <2>6, <2>7 DEF IInv
<1>5. QED  BY <1>3, <1>4 DEF Policy

LEMMA AskMtimeStep ==
  ASSUME IInv, AskMtime PROVE IInv'
<1>1. TypeOK /\ OriginalKept /\ run.pc = "mtime"
      /\ UNCHANGED <<ver, data, side, target, baks, hist, bound>>
  BY DEF IInv, KeptOK, AskMtime, Disk, At
<1>2. OriginalKept'
  BY <1>1 DEF OriginalKept
<1>3. CASE Err
  BY <1>1, <1>2, <1>3, GivesUp DEF TypeOK, Err
<1>4. CASE /\ \E m \in {Mtime[ver], 0} :
                run' = [run EXCEPT !.pc = IF run.size <= 1 THEN "small" ELSE "plan",
                               !.mtime = m, !.pin = ver, !.split = run.pin # ver]
           /\ UNCHANGED wk
  <2> DEFINE sp == run.pin # ver
             p  == IF run.size <= 1 THEN "small" ELSE "plan"
  <2>1. PICK m \in {Mtime[ver], 0} :
                run' = [run EXCEPT !.pc = p, !.mtime = m, !.pin = ver, !.split = sp]
    BY <1>4
  <2>2. m \in Nat /\ ver \in Versions /\ p \in Pc /\ sp \in BOOLEAN
    BY <1>1, VersionFacts DEF TypeOK, Pc
  <2>3. (p = "small" /\ run.size <= 1) \/ (p = "plan" /\ ~(run.size <= 1))
    OBVIOUS
  <2>4. sp \/ run.pin = ver
    OBVIOUS
  <2> HIDE DEF sp, p
  <2>5. /\ run' \in Run /\ run'.pc = p /\ run'.size = run.size /\ run'.pin = ver
        /\ run'.mtime = m /\ run'.split = sp
        /\ run'.resume = run.resume /\ run'.done = run.done
    BY <1>1, <2>1, <2>2 DEF TypeOK, Run
  <2>6. TypeOK'
    BY <1>1, <1>4, <2>5 DEF TypeOK
  <2>7. RunOK'
    <3>1. run.size \in {Size[run.pin], 0} /\ run.size \in Nat /\ ~run.resume /\ run.done = {}
      BY <1>1, Types DEF IInv, RunOK, Fresh, At
    <3>2. p = "plan" => run.size > 1 /\ (~sp => run.size = Size[ver])
      BY <2>3, <2>4, <3>1
    <3>3. p \notin Laid /\ p # "mtime"
      BY <2>3 DEF Laid
    <3>4. p \in Large => p = "plan"
      BY <2>3 DEF Large, Laid
    <3>5. QED  BY <1>1, <2>1, <2>5, <3>1, <3>2, <3>3, <3>4 DEF RunOK, At
  <2>8. SideOK'
    BY <1>1, <2>3, <2>5 DEF IInv, SideOK, Mirror, Sound, At
  <2>9. WorkOK' /\ DataOK' /\ KeptOK'
    BY <1>1, <1>2, <2>3, <2>5 DEF WorkOK, DoneOK, Laid, DataOK, KeptOK, Installed, At
  <2>10. QED  BY <2>6, <2>7, <2>8, <2>9 DEF IInv
<1>5. QED  BY <1>3, <1>4 DEF AskMtime

-----------------------------------------------------------------------------
(* Small files *)

\* What a new attempt keeps of the run.
LEMMA AgainFields ==
  ASSUME TypeOK, NEW p \in Pc, ~(run.attempt >= Retries),
         run' = [run EXCEPT !.pc = p, !.attempt = @ + 1]
  PROVE  /\ run' \in Run /\ run'.pc = p /\ run'.size = run.size /\ run'.mtime = run.mtime
         /\ run'.resume = run.resume /\ run'.done = run.done /\ run'.pin = run.pin
         /\ run'.split = run.split
<1>1. run.attempt + 1 \in 0..Retries
  <2>1. run.attempt \in 0..Retries /\ Retries \in Nat
    BY Types, DownloadAssumption
  <2>2. QED  BY <2>1
<1>2. QED  BY <1>1 DEF TypeOK, Run

LEMMA MakeDataFacts ==
  ASSUME TypeOK, MakeData, UNCHANGED side
  PROVE  /\ data' \in File /\ data' = With(<<>>) /\ hist' \in Hist
         /\ Mirror' /\ (~hist'.gap => side.bits = {}) /\ hist'.cur = hist.cur
<1> DEFINE g == hist.gap \/ side.bits # {}
<1>1. data' = With(<<>>) /\ hist' = [hist EXCEPT !.torn = FALSE, !.gap = g]
  BY DEF MakeData
<1>2. g \in BOOLEAN /\ (~g => side.bits = {})
  OBVIOUS
<1> HIDE DEF g
<1>3. hist' \in Hist /\ hist'.gap = g /\ hist'.cur = hist.cur
  BY <1>1, <1>2 DEF TypeOK, Hist
<1>4. Mirror'
  BY <1>2, <1>3 DEF Mirror, Sound
<1>5. QED  BY <1>1, <1>2, <1>3, <1>4, NoFiles

LEMMA StreamFails ==
  ASSUME IInv, run.pc \in {"small", "stream"}, StreamFail,
         UNCHANGED <<ver, side, target, baks, bound>>
  PROVE  IInv'
<1>1. TypeOK /\ OriginalKept /\ hist' = hist
  BY DEF IInv, KeptOK, StreamFail
<1>2. OriginalKept'
  BY <1>1 DEF OriginalKept
<1>3. CASE run.cancel \/ run.attempt >= Retries
  <2>1. End("failed") /\ data' \in {data, NoFile}
    BY <1>3 DEF StreamFail, Again, Err
  <2>2. QED  BY <1>1, <1>2, <2>1, GivesUp DEF TypeOK
<1>4. CASE ~(run.cancel \/ run.attempt >= Retries)
  <2>1. run' = [run EXCEPT !.pc = "small", !.attempt = @ + 1] /\ UNCHANGED <<data, wk>>
    BY <1>4 DEF StreamFail, Again
  <2>2. "small" \in Pc
    BY DEF Pc
  <2>3. /\ run' \in Run /\ run'.pc = "small" /\ run'.size = run.size /\ run'.mtime = run.mtime
        /\ run'.resume = run.resume /\ run'.done = run.done /\ run'.pin = run.pin
        /\ run'.split = run.split
    BY <1>1, <1>4, <2>1, <2>2, AgainFields
  <2>4. TypeOK'
    BY <1>1, <2>1, <2>3 DEF TypeOK
  <2>5. RunOK' /\ SideOK'
    BY <1>1, <2>1, <2>3 DEF IInv, RunOK, SideOK, Mirror, Sound, Fresh, Large, Laid, At
  <2>6. WorkOK' /\ DataOK' /\ KeptOK'
    BY <1>1, <1>2, <2>1, <2>3 DEF WorkOK, DoneOK, Laid, DataOK, KeptOK, Installed, At
  <2>7. QED  BY <2>4, <2>5, <2>6 DEF IInv
<1>5. QED  BY <1>3, <1>4

LEMMA SmallOpenStep ==
  ASSUME IInv, SmallOpen PROVE IInv'
<1>1. TypeOK /\ OriginalKept /\ run.pc = "small"
      /\ UNCHANGED <<ver, side, target, baks, bound>>
  BY DEF IInv, KeptOK, SmallOpen, At
<1>2. CASE StreamFail
  BY <1>1, <1>2, StreamFails
<1>3. CASE MakeData /\ Go("stream") /\ UNCHANGED wk
  <2>1. /\ data' \in File /\ data' = With(<<>>) /\ hist' \in Hist
        /\ Mirror' /\ (~hist'.gap => side.bits = {}) /\ hist'.cur = hist.cur
    BY <1>1, <1>3, MakeDataFacts
  <2>2. "stream" \in Pc /\ run' = [run EXCEPT !.pc = "stream"]
    BY <1>3 DEF Pc, Go
  <2>3. run' \in Run /\ run'.pc = "stream" /\ SameRun(run', run)
    BY <1>1, <2>2, GoFields
  <2>4. TypeOK'
    BY <1>1, <1>3, <2>1, <2>3 DEF TypeOK
  <2>5. RunOK'
    BY <1>1, <2>3 DEF IInv, RunOK, Fresh, Large, Laid, At, SameRun
  <2>6. SideOK'
    BY <1>1, <2>1, <2>3 DEF SideOK, At
  <2>7. WorkOK' /\ KeptOK'
    BY <1>1, <2>1, <2>3 DEF WorkOK, DoneOK, Laid, KeptOK, OriginalKept, At
  <2>8. DataOK'
    <3>1. data'.there /\ data'.chunks = <<>>
      BY <2>1 DEF With
    <3>2. run'.pin \in Versions
      BY <2>3 DEF Run
    <3>3. Len(data'.chunks) <= Size[run'.pin] /\ DOMAIN data'.chunks = {}
      BY <3>1, <3>2, VersionFacts
    <3>4. QED  BY <2>3, <3>1, <3>3 DEF DataOK, Installed, At
  <2>9. QED  BY <2>4, <2>5, <2>6, <2>7, <2>8 DEF IInv
<1>4. QED  BY <1>1, <1>2, <1>3 DEF SmallOpen

LEMMA StreamStep ==
  ASSUME IInv, Stream PROVE IInv'
<1>1. TypeOK /\ OriginalKept /\ run.pc = "stream" /\ data.there
      /\ UNCHANGED <<ver, side, target, baks, bound>>
  BY DEF IInv, KeptOK, DataOK, Stream, At
<1>2. CASE StreamFail
  BY <1>1, <1>2, StreamFails
<1> DEFINE t == hist.torn \/ ver # run.pin
<1>3. t \in BOOLEAN /\ (~t => ~hist.torn /\ ver = run.pin)
  OBVIOUS
<1> HIDE DEF t
<1>4. ASSUME hist' = [hist EXCEPT !.torn = t]
      PROVE  hist' \in Hist /\ hist'.torn = t /\ hist'.gap = hist.gap /\ hist'.cur = hist.cur
  BY <1>1, <1>3, <1>4 DEF TypeOK, Hist
<1>5. /\ data.chunks \in Seq(Versions \cup {0}) /\ ver \in Versions
      /\ Len(data.chunks) \in Nat /\ Size[ver] \in Nat
      /\ ~hist.torn => /\ Len(data.chunks) <= Size[run.pin]
                       /\ \A i \in DOMAIN data.chunks : data.chunks[i] = run.pin
  <2>1. data.chunks \in Seq(Versions \cup {0}) /\ ver \in Versions
    BY <1>1, Types DEF Chunks
  <2>2. QED  BY <1>1, <2>1, VersionFacts DEF IInv, DataOK, At
<1>6. CASE /\ ~StreamEnd
           /\ data' = With(Append(data.chunks, ver))
           /\ hist' = [hist EXCEPT !.torn = t]
           /\ UNCHANGED <<run, wk>>
  <2>1. Append(data.chunks, ver) \in Chunks
    BY <1>5 DEF Chunks
  <2>2. data' \in File /\ data'.there /\ data'.chunks = Append(data.chunks, ver)
    BY <1>6, <2>1, NoFiles
  <2>3. TypeOK'
    BY <1>1, <1>4, <1>6, <2>2 DEF TypeOK
  <2>4. RunOK'
    BY <1>1, <1>6 DEF IInv, RunOK, Fresh, Large, Laid, At
  <2>5. SideOK'
    BY <1>1, <1>4, <1>6 DEF IInv, SideOK, Mirror, Sound, At
  <2>6. WorkOK' /\ KeptOK'
    BY <1>1, <1>4, <1>6 DEF WorkOK, DoneOK, Laid, KeptOK, OriginalKept, At
  <2>7. DataOK'
    <3>1. SUFFICES ASSUME ~t
                   PROVE  /\ Len(data'.chunks) <= Size[run.pin]
                          /\ \A i \in DOMAIN data'.chunks : data'.chunks[i] = run.pin
      BY <1>1, <1>4, <1>6, <2>2 DEF DataOK, Installed, At
    <3>2. ver = run.pin /\ Len(data.chunks) < Size[ver]
      BY <1>3, <1>5, <1>6, <3>1 DEF StreamEnd
    <3>3. DOMAIN data.chunks = 1..Len(data.chunks)
          /\ DOMAIN data'.chunks = 1..(Len(data.chunks) + 1)
          /\ Len(data'.chunks) = Len(data.chunks) + 1
      BY <1>5, <2>2
    <3>4. ASSUME NEW i \in DOMAIN data'.chunks PROVE data'.chunks[i] = run.pin
      <4>1. i \in DOMAIN data.chunks \/ i = Len(data.chunks) + 1
        BY <1>5, <3>3
      <4>2. QED  BY <1>3, <1>5, <2>2, <3>1, <3>2, <4>1
    <3>5. QED  BY <1>5, <3>2, <3>3, <3>4
  <2>8. QED  BY <2>3, <2>4, <2>5, <2>6, <2>7 DEF IInv
<1>7. CASE /\ StreamEnd
           /\ Go("finish")
           /\ hist' = [hist EXCEPT !.torn = t]
           /\ UNCHANGED <<data, wk>>
  <2>1. "finish" \in Pc /\ run' = [run EXCEPT !.pc = "finish"]
    BY <1>7 DEF Pc, Go
  <2>2. run' \in Run /\ run'.pc = "finish" /\ SameRun(run', run)
    BY <1>1, <2>1, GoFields
  <2>3. TypeOK'
    BY <1>1, <1>4, <1>7, <2>2 DEF TypeOK
  <2>4. RunOK'
    BY <1>1, <2>2 DEF IInv, RunOK, Fresh, Large, Laid, At, SameRun
  <2>5. SideOK'
    BY <1>1, <1>3, <1>4, <1>7, <2>2 DEF IInv, SideOK, Mirror, Sound, At
  <2>6. WorkOK' /\ KeptOK'
    BY <1>1, <1>4, <2>2, <1>7 DEF WorkOK, DoneOK, Laid, KeptOK, OriginalKept, At
  <2>7. DataOK'
    <3>1. ASSUME ~t PROVE data.chunks = Full(run.pin)
      <4>1. ver = run.pin /\ Len(data.chunks) = Size[run.pin]
            /\ \A i \in DOMAIN data.chunks : data.chunks[i] = run.pin
        BY <1>3, <1>5, <1>7, <3>1 DEF StreamEnd
      <4>2. QED  BY <1>5, <4>1 DEF Full
    <3>2. QED  BY <1>1, <1>4, <1>7, <2>2, <3>1 DEF DataOK, Trusted, Installed, At, SameRun
  <2>8. QED  BY <2>3, <2>4, <2>5, <2>6, <2>7 DEF IInv
<1>8. QED  BY <1>2, <1>6, <1>7 DEF Stream, t

-----------------------------------------------------------------------------
(* Large files: resume or start anew, then the sidecar *)

\* The version of a large file's run is the one its modification time tells.
LEMMA Pinned ==
  ASSUME IInv, run.pc \in Large, Sound, NEW v \in Versions,
         Mtime[v] = run.mtime, run.mtime # 0
  PROVE  v = run.pin
<1>1. run.mtime = Mtime[run.pin] /\ run.pin \in Versions
  BY Types DEF IInv, RunOK
<1>2. QED  BY <1>1 DEF Sound, MtimeDistinct

LEMMA PlanStep ==
  ASSUME IInv, Plan PROVE IInv'
<1>1. TypeOK /\ OriginalKept /\ run.pc = "plan" /\ "plan" \in Large
      /\ UNCHANGED <<ver, side, target, baks, bound>>
  BY DEF IInv, KeptOK, Plan, At, Large
<1>2. CASE Err /\ UNCHANGED <<data, hist>>
  <2>1. OriginalKept'
    BY <1>1, <1>2 DEF OriginalKept
  <2>2. QED  BY <1>1, <1>2, <2>1, GivesUp DEF TypeOK, Err
<1>3. CASE MakeData /\ Go("length") /\ UNCHANGED wk
  <2>1. /\ data' \in File /\ data' = With(<<>>) /\ hist' \in Hist
        /\ Mirror' /\ (~hist'.gap => side.bits = {}) /\ hist'.cur = hist.cur
    BY <1>1, <1>3, MakeDataFacts
  <2>2. "length" \in Pc /\ run' = [run EXCEPT !.pc = "length"]
    BY <1>3 DEF Pc, Go
  <2>3. run' \in Run /\ run'.pc = "length" /\ SameRun(run', run)
    BY <1>1, <2>2, GoFields
  <2>4. TypeOK'
    BY <1>1, <1>3, <2>1, <2>3 DEF TypeOK
  <2>5. RunOK'
    BY <1>1, <2>3 DEF IInv, RunOK, Fresh, Large, Laid, At, SameRun
  <2>6. SideOK'
    BY <1>1, <2>1, <2>3 DEF SideOK, At
  <2>7. WorkOK' /\ DataOK' /\ KeptOK'
    BY <1>1, <2>1, <2>3 DEF WorkOK, DoneOK, Laid, DataOK, KeptOK, OriginalKept, Installed, At
  <2>8. QED  BY <2>4, <2>5, <2>6, <2>7 DEF IInv
<1>4. CASE /\ Resumable
           /\ run' = [run EXCEPT !.pc = "sidecar", !.resume = TRUE, !.done = side.bits]
           /\ UNCHANGED <<data, hist, wk>>
  <2>1. side.bits \in SUBSET Nat /\ "sidecar" \in Pc
    BY <1>1, Types DEF Pc
  <2>2. /\ run' \in Run /\ run'.pc = "sidecar" /\ run'.size = run.size
        /\ run'.mtime = run.mtime /\ run'.pin = run.pin /\ run'.split = run.split
        /\ run'.done = side.bits /\ run'.resume = TRUE
    BY <1>1, <1>4, <2>1 DEF TypeOK, Run
  <2>3. /\ data.there /\ Len(data.chunks) = run.size
        /\ side.mtime = run.mtime /\ run.mtime # 0
    BY <1>4 DEF Resumable, DataWhole, SameRemote
  <2>4. TypeOK'
    BY <1>1, <1>4, <2>2 DEF TypeOK
  <2>5. RunOK'
    BY <1>1, <1>4, <2>2, <2>3 DEF IInv, RunOK, Fresh, Large, Laid, At
  <2>6. SideOK'
    BY <1>1, <1>4, <2>2 DEF IInv, SideOK, Mirror, Sound, At
  <2>7. DoneOK'
    <3>1. SUFFICES ASSUME Sound, NEW i \in 0..(run.size - 1), i \in side.bits
                   PROVE  data.chunks[i + 1] = run.pin
      BY <1>4, <2>2 DEF DoneOK, Indices, Sound
    <3>2. run.pin \in Versions /\ Mtime[run.pin] = side.mtime
      BY <1>1, <2>3, Types DEF IInv, RunOK
    <3>3. run.size \in Nat /\ data.chunks \in Seq(Versions \cup {0})
      BY <1>1, Types DEF Chunks
    <3>4. i + 1 \in DOMAIN data.chunks
      BY <2>3, <3>3
    <3>5. QED  BY <2>3, <3>1, <3>2, <3>4 DEF IInv, SideOK, Mirror
  <2>8. WorkOK' /\ DataOK' /\ KeptOK'
    BY <1>1, <1>4, <2>2, <2>7 DEF WorkOK, DataOK, KeptOK, OriginalKept, Installed, At
  <2>9. QED  BY <2>4, <2>5, <2>6, <2>8 DEF IInv
<1>5. QED  BY <1>1, <1>2, <1>3, <1>4 DEF Plan

LEMMA SetLengthStep ==
  ASSUME IInv, SetLength PROVE IInv'
<1>1. TypeOK /\ OriginalKept /\ run.pc = "length"
      /\ UNCHANGED <<ver, side, target, baks, hist, bound>>
  BY DEF IInv, KeptOK, SetLength, At
<1>2. OriginalKept'
  BY <1>1 DEF OriginalKept
<1>3. CASE Err /\ UNCHANGED data
  BY <1>1, <1>2, <1>3, GivesUp DEF TypeOK, Err
<1>4. CASE data' = With([i \in 1..run.size |-> 0]) /\ Go("sidecar") /\ UNCHANGED wk
  <2>1. "sidecar" \in Pc /\ run' = [run EXCEPT !.pc = "sidecar"] /\ run.size \in Nat
    BY <1>1, <1>4, Types DEF Pc, Go
  <2>2. run' \in Run /\ run'.pc = "sidecar" /\ SameRun(run', run)
    BY <1>1, <2>1, GoFields
  <2>3. [i \in 1..run.size |-> 0] \in Seq(Versions \cup {0})
    BY <2>1
  <2>4. Len([i \in 1..run.size |-> 0]) = run.size
    BY <2>1, <2>3
  <2>5. data' \in File /\ data'.there /\ Len(data'.chunks) = run.size
    BY <1>4, <2>3, <2>4, NoFiles DEF Chunks
  <2>6. TypeOK'
    BY <1>1, <1>4, <2>2, <2>5 DEF TypeOK
  <2>7. RunOK'
    BY <1>1, <2>2, <2>5 DEF IInv, RunOK, Fresh, Large, Laid, At, SameRun
  <2>8. SideOK'
    BY <1>1, <2>2 DEF IInv, SideOK, Mirror, Sound, At
  <2>9. WorkOK' /\ DataOK' /\ KeptOK'
    <3>1. run'.done = {}
      BY <1>1, <2>2 DEF IInv, RunOK, Fresh, SameRun
    <3>2. QED  BY <1>1, <1>2, <2>2, <3>1 DEF WorkOK, DoneOK, DataOK, KeptOK, Installed, At
  <2>10. QED  BY <2>6, <2>7, <2>8, <2>9 DEF IInv
<1>5. QED  BY <1>3, <1>4 DEF SetLength

LEMMA MakeSidecarStep ==
  ASSUME IInv, MakeSidecar PROVE IInv'
<1>1. TypeOK /\ OriginalKept /\ run.pc = "sidecar"
      /\ UNCHANGED <<ver, data, target, baks, bound>>
  BY DEF IInv, KeptOK, MakeSidecar, At
<1>2. CASE Err /\ UNCHANGED <<side, hist>>
  <2>1. OriginalKept'
    BY <1>1, <1>2 DEF OriginalKept
  <2>2. QED  BY <1>1, <1>2, <2>1, GivesUp DEF TypeOK, Err
<1>3. CASE /\ side' = NoSide
           /\ hist' = [hist EXCEPT !.gap = @ /\ run.resume]
           /\ Go("header") /\ UNCHANGED wk
  <2> DEFINE g == hist.gap /\ run.resume
  <2>1. hist' = [hist EXCEPT !.gap = g]
    BY <1>3
  <2>2. g \in BOOLEAN /\ (~g => ~hist.gap \/ ~run.resume) /\ (g => run.resume)
    OBVIOUS
  <2> HIDE DEF g
  <2>3. hist' \in Hist /\ hist'.gap = g /\ hist'.torn = hist.torn /\ hist'.cur = hist.cur
    BY <1>1, <2>1, <2>2 DEF TypeOK, Hist
  <2>4. "header" \in Pc /\ run' = [run EXCEPT !.pc = "header"]
    BY <1>3 DEF Pc, Go
  <2>5. run' \in Run /\ run'.pc = "header" /\ SameRun(run', run)
    BY <1>1, <2>4, GoFields
  <2>6. side' \in Sidecar /\ side'.bits = {} /\ side'.mtime = 0
    BY <1>3, NoFiles
  <2>7. TypeOK'
    BY <1>1, <1>3, <2>3, <2>5, <2>6 DEF TypeOK
  <2>8. RunOK'
    BY <1>1, <2>2, <2>3, <2>5 DEF IInv, RunOK, Fresh, Large, Laid, At, SameRun
  <2>9. SideOK'
    BY <2>5, <2>6 DEF SideOK, Mirror, At
  <2>10. DoneOK'
    <3>1. CASE run.resume
      <4>1. Sound' => Sound
        BY <2>2, <2>3, <3>1 DEF Sound
      <4>2. QED  BY <1>1, <2>5, <4>1 DEF IInv, WorkOK, DoneOK, Laid, Indices, SameRun
    <3>2. CASE ~run.resume
      BY <1>1, <2>5, <3>2 DEF IInv, RunOK, DoneOK, SameRun
    <3>3. QED  BY <3>1, <3>2
  <2>11. WorkOK' /\ DataOK' /\ KeptOK'
    BY <1>1, <2>3, <2>5, <2>10 DEF WorkOK, DataOK, KeptOK, OriginalKept, Installed, At
  <2>12. QED  BY <2>7, <2>8, <2>9, <2>11 DEF IInv
<1>4. QED  BY <1>1, <1>2, <1>3 DEF MakeSidecar

LEMMA WriteHeaderStep ==
  ASSUME IInv, WriteHeader PROVE IInv'
<1>1. TypeOK /\ OriginalKept /\ run.pc = "header"
      /\ UNCHANGED <<ver, data, target, baks, hist, bound>>
  BY DEF IInv, KeptOK, WriteHeader, At
<1>2. OriginalKept'
  BY <1>1 DEF OriginalKept
<1>3. CASE Err /\ UNCHANGED side
  BY <1>1, <1>2, <1>3, GivesUp DEF TypeOK, Err
<1>4. CASE /\ side' = [head |-> TRUE, size |-> run.size, mtime |-> run.mtime, bits |-> {}]
           /\ Go("bits") /\ UNCHANGED wk
  <2>1. "bits" \in Pc /\ run' = [run EXCEPT !.pc = "bits"]
        /\ run.size \in Nat /\ run.mtime \in Nat
    BY <1>1, <1>4, Types DEF Pc, Go
  <2>2. run' \in Run /\ run'.pc = "bits" /\ SameRun(run', run)
    BY <1>1, <2>1, GoFields
  <2>3. side' \in Sidecar /\ side'.bits = {} /\ side'.mtime = run.mtime
    BY <1>4, <2>1 DEF Sidecar
  <2>4. TypeOK'
    BY <1>1, <1>4, <2>2, <2>3 DEF TypeOK
  <2>5. RunOK'
    BY <1>1, <2>2 DEF IInv, RunOK, Fresh, Large, Laid, At, SameRun
  <2>6. SideOK'
    BY <2>2, <2>3 DEF SideOK, Mirror, At, SameRun
  <2>7. DoneOK'
    BY <1>1, <2>2 DEF IInv, WorkOK, DoneOK, Laid, Sound, Indices, SameRun
  <2>8. WorkOK' /\ DataOK' /\ KeptOK'
    BY <1>1, <1>2, <2>2, <2>7 DEF WorkOK, DataOK, KeptOK, Installed, At
  <2>9. QED  BY <2>4, <2>5, <2>6, <2>8 DEF IInv
<1>5. QED  BY <1>3, <1>4 DEF WriteHeader

\* Bits of chunks that are done make the sidecar tell no lie.
LEMMA DoneMirror ==
  ASSUME IInv, run.pc \in Laid, side.mtime = run.mtime,
         NEW B, B \subseteq side.bits \cup run.done,
         Sound, side.mtime # 0, NEW v \in Versions, NEW i \in B,
         Mtime[v] = side.mtime, i + 1 \in DOMAIN data.chunks
  PROVE  data.chunks[i + 1] = v
<1>1. CASE i \in side.bits
  BY <1>1 DEF IInv, SideOK, Mirror
<1>2. CASE i \in run.done
  <2>1. v = run.pin
    BY Pinned DEF Large
  <2>2. data.chunks \in Seq(Versions \cup {0}) /\ run.size \in Nat /\ run.done \in SUBSET Nat
        /\ Len(data.chunks) = run.size
    BY Types DEF IInv, Chunks, RunOK
  <2>3. i \in Indices
    BY <1>2, <2>2 DEF Indices
  <2>4. QED  BY <1>2, <2>1, <2>3 DEF IInv, WorkOK, DoneOK
<1>3. QED  BY <1>1, <1>2

LEMMA WriteBitsStep ==
  ASSUME IInv, WriteBits PROVE IInv'
<1>1. TypeOK /\ OriginalKept /\ run.pc = "bits"
      /\ UNCHANGED <<ver, data, target, baks, hist, bound>>
  BY DEF IInv, KeptOK, WriteBits, At
<1>2. OriginalKept'
  BY <1>1 DEF OriginalKept
<1>3. CASE Err /\ UNCHANGED side
  BY <1>1, <1>2, <1>3, GivesUp DEF TypeOK, Err
<1>4. CASE side' = [side EXCEPT !.bits = run.done] /\ Go("spawn") /\ UNCHANGED wk
  <2>1. "spawn" \in Pc /\ run' = [run EXCEPT !.pc = "spawn"] /\ run.done \in SUBSET Nat
    BY <1>1, <1>4, Types DEF Pc, Go
  <2>2. run' \in Run /\ run'.pc = "spawn" /\ SameRun(run', run)
    BY <1>1, <2>1, GoFields
  <2>3. side' \in Sidecar /\ side'.bits = run.done /\ side'.mtime = side.mtime
    BY <1>1, <1>4, <2>1 DEF TypeOK, Sidecar
  <2>4. TypeOK'
    BY <1>1, <1>4, <2>2, <2>3 DEF TypeOK
  <2>5. RunOK'
    BY <1>1, <2>2 DEF IInv, RunOK, Fresh, Large, Laid, At, SameRun
  <2>6. side.mtime = run.mtime /\ run.pc \in Laid
    BY <1>1 DEF IInv, SideOK, Laid
  <2>7. Mirror'
    <3>1. SUFFICES ASSUME Sound, side.mtime # 0, NEW v \in Versions, NEW i \in run.done,
                          Mtime[v] = side.mtime, i + 1 \in DOMAIN data.chunks
                   PROVE  data.chunks[i + 1] = v
      BY <1>1, <2>3 DEF Mirror, Sound
    <3>2. run.done \subseteq side.bits \cup run.done
      OBVIOUS
    <3>3. QED  BY <2>6, <3>1, <3>2, DoneMirror
  <2>8. SideOK'
    BY <2>2, <2>3, <2>6, <2>7 DEF SideOK, At, SameRun
  <2>9. DoneOK'
    BY <1>1, <2>2 DEF IInv, WorkOK, DoneOK, Laid, Sound, Indices, SameRun
  <2>10. WorkOK' /\ DataOK' /\ KeptOK'
    BY <1>1, <1>2, <2>2, <2>9 DEF WorkOK, DataOK, KeptOK, Installed, At
  <2>11. QED  BY <2>4, <2>5, <2>8, <2>10 DEF IInv
<1>5. QED  BY <1>3, <1>4 DEF WriteBits

-----------------------------------------------------------------------------
(* A round of the workers *)

LEMMA SpawnStep ==
  ASSUME IInv, Spawn PROVE IInv'
<1>1. TypeOK /\ OriginalKept /\ run.pc = "spawn"
      /\ run' = [run EXCEPT !.pc = "round", !.cursor = 0]
      /\ UNCHANGED <<ver, data, side, target, baks, hist, bound>>
  BY DEF IInv, KeptOK, Spawn, At, Disk
<1>2. OriginalKept'
  BY <1>1 DEF OriginalKept
<1>3. /\ run' \in Run /\ run'.pc = "round" /\ run'.size = run.size
      /\ run'.mtime = run.mtime /\ run'.pin = run.pin /\ run'.split = run.split
      /\ run'.done = run.done /\ run'.resume = run.resume
  <2>1. "round" \in Pc /\ 0 \in Nat
    BY DEF Pc
  <2>2. QED  BY <1>1, <2>1 DEF TypeOK, Run
<1>4. PICK W \in SUBSET Workers :
        wk' = [w \in Workers |-> IF w \in W THEN [Off EXCEPT !.pc = "open"] ELSE Off]
  BY DEF Spawn
<1>5. /\ Off \in Worker /\ [Off EXCEPT !.pc = "open"] \in Worker
      /\ Off.pc = "off" /\ [Off EXCEPT !.pc = "open"].pc = "open"
  <2>1. 1 \in Versions
    <3>1. Len(Size) \in Nat /\ Len(Size) # 0
      BY DownloadAssumption
    <3>2. QED  BY <3>1 DEF Versions
  <2>2. QED  BY <2>1 DEF Off, Worker
<1>6. wk' \in [Workers -> Worker] /\ \A w \in Workers : wk'[w].pc \in {"off", "open"}
  BY <1>4, <1>5
<1>7. TypeOK'
  BY <1>1, <1>3, <1>6 DEF TypeOK
<1>8. RunOK'
  BY <1>1, <1>3 DEF IInv, RunOK, Fresh, Large, Laid, At
<1>9. SideOK'
  BY <1>1, <1>3 DEF IInv, SideOK, Mirror, Sound, At
<1>10. DoneOK'
  BY <1>1, <1>3 DEF IInv, WorkOK, DoneOK, Laid, Sound, Indices
<1>11. WorkOK'
  BY <1>3, <1>6, <1>10 DEF WorkOK, WorkerOK, At
<1>12. DataOK' /\ KeptOK'
  BY <1>1, <1>2, <1>3 DEF DataOK, KeptOK, Installed, At
<1>13. QED  BY <1>7, <1>8, <1>9, <1>11, <1>12 DEF IInv

\* Where a worker goes without a chunk in its hands.
IdlePc == {"off", "open", "next", "byte"}

\* A worker steps, the run, the files and the history stay as they are.
LEMMA WorkerMoves ==
  ASSUME IInv, At("round"), NEW w \in Workers, NEW u \in Worker,
         wk' = [wk EXCEPT ![w] = u],
         \/ u.pc \in IdlePc
         \/ u.pc = "read" /\ u.idx < run.size
         \/ u.pc = "write" /\ u.idx < run.size
         \/ u.pc = "side" /\ u.byte \subseteq run.done,
         UNCHANGED <<ver, data, side, target, baks, hist, bound>>,
         UNCHANGED <<run.pc, run.size, run.mtime, run.resume, run.done, run.pin, run.split>>,
         run' \in Run
  PROVE  IInv'
<1>1. TypeOK /\ OriginalKept /\ run.pc = "round" /\ run'.pc = "round"
  BY DEF IInv, KeptOK, At
<1>2. wk' \in [Workers -> Worker] /\ wk'[w] = u
      /\ \A x \in Workers : x # w => wk'[x] = wk[x]
  BY <1>1 DEF TypeOK
<1>3. TypeOK'
  BY <1>1, <1>2 DEF TypeOK
<1>4. RunOK'
  BY <1>1 DEF IInv, RunOK, Fresh, Large, Laid, At
<1>5. SideOK'
  BY <1>1 DEF IInv, SideOK, Mirror, Sound, At
<1>6. DoneOK'
  BY <1>1 DEF IInv, WorkOK, DoneOK, Laid, Sound, Indices
<1>7. ASSUME NEW x \in Workers PROVE WorkerOK(x)'
  <2>1. WorkerOK(x)
    BY <1>1 DEF IInv, WorkOK, At
  <2>2. CASE x # w
    BY <1>2, <2>1, <2>2 DEF WorkerOK, Sound
  <2>3. CASE x = w
    BY <1>2, <2>3 DEF WorkerOK, IdlePc
  <2>4. QED  BY <2>2, <2>3
<1>8. WorkOK'
  BY <1>1, <1>6, <1>7 DEF WorkOK, At
<1>9. DataOK' /\ KeptOK'
  BY <1>1 DEF DataOK, KeptOK, Installed, OriginalKept, At
<1>10. QED  BY <1>3, <1>4, <1>5, <1>8, <1>9 DEF IInv

LEMMA OffWorker == Off \in Worker /\ Off.pc = "off"
<1>1. 1 \in Versions
  <2>1. Len(Size) \in Nat /\ Len(Size) # 0
    BY DownloadAssumption
  <2>2. QED  BY <2>1 DEF Versions
<1>2. QED  BY <1>1 DEF Off, Worker

\* A worker ends, by an error or because there is nothing left for it.
LEMMA WorkerEnds ==
  ASSUME IInv, At("round"), NEW w \in Workers, WEnd(w),
         UNCHANGED <<ver, data, side, target, baks, hist, bound>>,
         UNCHANGED <<run.pc, run.size, run.mtime, run.resume, run.done, run.pin, run.split>>,
         run' \in Run
  PROVE  IInv'
<1>1. wk' = [wk EXCEPT ![w] = Off] /\ Off \in Worker /\ Off.pc \in IdlePc
  BY OffWorker DEF WEnd, IdlePc
<1>2. QED  BY <1>1, WorkerMoves

\* The record of a worker and its fields.
LEMMA WorkerFields ==
  ASSUME TypeOK, NEW w \in Workers
  PROVE  /\ wk[w] \in Worker /\ wk \in [Workers -> Worker]
         /\ wk[w].idx \in Nat /\ wk[w].buf \in Versions /\ wk[w].byte \in SUBSET Nat
BY DEF TypeOK, Worker

LEMMA WOpenStep ==
  ASSUME IInv, NEW w \in Workers, WOpen(w) PROVE IInv'
<1>1. TypeOK /\ At("round")
      /\ UNCHANGED <<ver, data, side, target, baks, run, hist, bound>>
  BY DEF IInv, WOpen, WAt, Disk
<1>2. run' \in Run
  BY <1>1 DEF TypeOK
<1>3. CASE WEnd(w)
  BY <1>1, <1>2, <1>3, WorkerEnds
<1>4. CASE WGo(w, "next")
  <2> DEFINE u == [wk[w] EXCEPT !.pc = "next"]
  <2>1. wk' = [wk EXCEPT ![w] = u]
    BY <1>1, <1>4, WorkerFields DEF WGo
  <2>2. u \in Worker /\ u.pc \in IdlePc
    BY <1>1, WorkerFields DEF Worker, IdlePc
  <2> HIDE DEF u
  <2>3. QED  BY <1>1, <1>2, <2>1, <2>2, WorkerMoves
<1>5. QED  BY <1>3, <1>4 DEF WOpen

LEMMA WNextStep ==
  ASSUME IInv, NEW w \in Workers, WNext(w) PROVE IInv'
<1>1. TypeOK /\ At("round")
      /\ UNCHANGED <<ver, data, side, target, baks, hist, bound>>
  BY DEF IInv, WNext, WAt, Disk
<1>2. CASE WEnd(w) /\ UNCHANGED run
  BY <1>1, <1>2, WorkerEnds DEF TypeOK
<1>3. CASE run' = [run EXCEPT !.cursor = @ + 1]
           /\ IF run.cursor >= run.size THEN WEnd(w)
              ELSE IF run.cursor \in run.done THEN UNCHANGED wk
              ELSE wk' = [wk EXCEPT ![w].pc = "read", ![w].idx = run.cursor]
  <2>1. run.cursor \in Nat /\ run.size \in Nat
    BY <1>1, Types
  <2>2. /\ run' \in Run
        /\ UNCHANGED <<run.pc, run.size, run.mtime, run.resume, run.done, run.pin, run.split>>
    <3>1. run.cursor + 1 \in Nat
      BY <2>1
    <3>2. QED  BY <1>1, <1>3, <3>1 DEF TypeOK, Run
  <2>3. CASE run.cursor >= run.size
    BY <1>1, <1>3, <2>2, <2>3, WorkerEnds
  <2>4. CASE ~(run.cursor >= run.size) /\ run.cursor \in run.done
    <3>1. wk' = wk
      BY <1>3, <2>4
    <3>2. wk' = [wk EXCEPT ![w] = wk[w]] /\ wk[w] \in Worker /\ wk[w].pc \in IdlePc
      BY <1>1, <3>1, WorkerFields DEF WNext, WAt, IdlePc
    <3>3. QED  BY <1>1, <2>2, <3>2, WorkerMoves
  <2>5. CASE ~(run.cursor >= run.size) /\ run.cursor \notin run.done
    <3> DEFINE u == [wk[w] EXCEPT !.pc = "read", !.idx = run.cursor]
    <3>1. wk' = [wk EXCEPT ![w].pc = "read", ![w].idx = run.cursor]
      BY <1>3, <2>5
    <3>2. wk' = [wk EXCEPT ![w] = u]
      BY <1>1, <3>1, WorkerFields
    <3>3. u \in Worker /\ u.pc = "read" /\ u.idx < run.size
      <4>1. run.cursor < run.size
        BY <2>1, <2>5
      <4>2. u \in Worker /\ u.pc = "read" /\ u.idx = run.cursor
        BY <1>1, <2>1, WorkerFields DEF Worker
      <4>3. QED  BY <4>1, <4>2
    <3> HIDE DEF u
    <3>4. QED  BY <1>1, <2>2, <3>2, <3>3, WorkerMoves
  <2>6. QED  BY <2>3, <2>4, <2>5
<1>4. QED  BY <1>2, <1>3 DEF WNext

LEMMA WReadStep ==
  ASSUME IInv, NEW w \in Workers, WRead(w) PROVE IInv'
<1>1. TypeOK /\ At("round")
      /\ UNCHANGED <<ver, data, side, target, baks, run, hist, bound>>
  BY DEF IInv, WRead, WAt, Disk
<1>2. run' \in Run
  BY <1>1 DEF TypeOK
<1>3. CASE WEnd(w)
  BY <1>1, <1>2, <1>3, WorkerEnds
<1>4. CASE wk' = [wk EXCEPT ![w].pc = "write", ![w].buf = ver]
  <2> DEFINE u == [wk[w] EXCEPT !.pc = "write", !.buf = ver]
  <2>1. wk' = [wk EXCEPT ![w] = u]
    BY <1>1, <1>4, WorkerFields
  <2>2. wk[w].idx < run.size
    BY <1>1 DEF IInv, WorkOK, WorkerOK, WRead, WAt
  <2>3. u \in Worker /\ u.pc = "write" /\ u.idx < run.size
    BY <1>1, <2>2, WorkerFields, Types DEF Worker
  <2> HIDE DEF u
  <2>4. QED  BY <1>1, <1>2, <2>1, <2>3, WorkerMoves
<1>5. QED  BY <1>3, <1>4 DEF WRead

LEMMA WByteStep ==
  ASSUME IInv, NEW w \in Workers, WByte(w) PROVE IInv'
<1>1. TypeOK /\ At("round")
      /\ UNCHANGED <<ver, data, side, target, baks, run, hist, bound>>
      /\ wk' = [wk EXCEPT ![w].pc = "side", ![w].byte = run.done \cap Octet(wk[w].idx)]
  BY DEF IInv, WByte, WAt, Disk
<1>2. run' \in Run
  BY <1>1 DEF TypeOK
<1> DEFINE b == run.done \cap Octet(wk[w].idx)
           u == [wk[w] EXCEPT !.pc = "side", !.byte = b]
<1>3. wk' = [wk EXCEPT ![w] = u]
  BY <1>1, WorkerFields
<1>4. b \subseteq run.done /\ b \in SUBSET Nat
  BY <1>1, Types
<1> HIDE DEF b
<1>5. u \in Worker /\ u.pc = "side" /\ u.byte \subseteq run.done
  BY <1>1, <1>4, WorkerFields DEF Worker
<1> HIDE DEF u
<1>6. QED  BY <1>1, <1>2, <1>3, <1>5, WorkerMoves

LEMMA WWriteStep ==
  ASSUME IInv, NEW w \in Workers, WWrite(w) PROVE IInv'
<1>1. TypeOK /\ At("round") /\ run.pc = "round" /\ wk[w].pc = "write"
      /\ UNCHANGED <<ver, side, target, baks, run, bound>>
  BY DEF IInv, WWrite, WAt, At
<1>2. run' \in Run
  BY <1>1 DEF TypeOK
<1>3. CASE WEnd(w) /\ UNCHANGED <<data, hist>>
  BY <1>1, <1>2, <1>3, WorkerEnds
<1>4. CASE /\ data' = [data EXCEPT !.chunks[wk[w].idx + 1] = wk[w].buf]
           /\ hist' = [hist EXCEPT !.torn = @ \/ wk[w].buf # run.pin]
           /\ WGo(w, "mark")
  <2> DEFINE k == wk[w].idx + 1
             b == wk[w].buf
             t == hist.torn \/ b # run.pin
             u == [wk[w] EXCEPT !.pc = "mark"]
             c == [data.chunks EXCEPT ![k] = b]
  <2>1. /\ data' = [data EXCEPT !.chunks[k] = b]
        /\ hist' = [hist EXCEPT !.torn = t]
        /\ wk' = [wk EXCEPT ![w] = u]
    BY <1>1, <1>4, WorkerFields DEF WGo
  <2>2. /\ data.there /\ Len(data.chunks) = run.size /\ run.size \in Nat
        /\ data.chunks \in Seq(Versions \cup {0})
        /\ wk[w].idx < run.size /\ wk[w].idx \in Nat /\ b \in Versions
        /\ data = [there |-> data.there, chunks |-> data.chunks]
    BY <1>1, Types, WorkerFields DEF IInv, RunOK, WorkOK, WorkerOK, Laid, Chunks
  <2>3. k \in 1..run.size /\ DOMAIN data.chunks = 1..run.size
    BY <2>2
  <2>4. c \in Seq(Versions \cup {0}) /\ Len(c) = run.size /\ DOMAIN c = 1..run.size
        /\ c[k] = b /\ \A j \in 1..run.size : j # k => c[j] = data.chunks[j]
    BY <2>2, <2>3
  <2>5. data' = [data EXCEPT !.chunks = c]
    BY <2>1, <2>2
  <2>6. t \in BOOLEAN /\ (~t => ~hist.torn /\ b = run.pin)
    OBVIOUS
  <2>7. u \in Worker /\ u.pc = "mark" /\ u.idx = wk[w].idx
    BY <1>1, WorkerFields DEF Worker
  <2> HIDE DEF c, t, u, b
  <2>8. data' \in File /\ data'.there /\ data'.chunks = c
    BY <2>2, <2>4, <2>5 DEF File, Chunks
  <2>9. hist' \in Hist /\ hist'.torn = t /\ hist'.gap = hist.gap /\ hist'.cur = hist.cur
    BY <1>1, <2>1, <2>6 DEF TypeOK, Hist
  <2>10. Sound' => Sound /\ b = run.pin
    BY <2>6, <2>9 DEF Sound
  <2>11. wk' \in [Workers -> Worker] /\ wk'[w] = u
         /\ \A x \in Workers : x # w => wk'[x] = wk[x]
    BY <1>1, <2>1, <2>7 DEF TypeOK
  <2>12. TypeOK'
    BY <1>1, <2>8, <2>9, <2>11 DEF TypeOK
  <2>13. RunOK'
    BY <1>1, <2>4, <2>8, <2>9 DEF IInv, RunOK, Fresh, Large, Laid, At
  <2>14. Mirror'
    <3>1. SUFFICES ASSUME Sound, b = run.pin, side.mtime # 0, NEW v \in Versions,
                          NEW i \in side.bits, Mtime[v] = side.mtime, i + 1 \in 1..run.size
                   PROVE  c[i + 1] = v
      BY <1>1, <2>4, <2>8, <2>10 DEF Mirror
    <3>2. v = run.pin
      BY <1>1, <3>1, Pinned DEF IInv, SideOK, Large, Laid
    <3>3. data.chunks[i + 1] = v
      BY <2>3, <3>1 DEF IInv, SideOK, Mirror
    <3>4. QED  BY <2>4, <3>1, <3>2, <3>3
  <2>15. SideOK'
    BY <1>1, <2>14 DEF IInv, SideOK, At
  <2>16. DoneOK'
    <3>1. SUFFICES ASSUME Sound, b = run.pin, NEW i \in Indices, i \in run.done
                   PROVE  c[i + 1] = run.pin
      BY <1>1, <2>8, <2>10 DEF DoneOK, Indices
    <3>2. data.chunks[i + 1] = run.pin
      BY <1>1, <3>1 DEF IInv, WorkOK, DoneOK, Laid
    <3>3. i + 1 \in 1..run.size
      BY <2>2, <3>1 DEF Indices
    <3>4. QED  BY <2>4, <3>1, <3>2, <3>3
  <2>17. ASSUME NEW x \in Workers PROVE WorkerOK(x)'
    <3>1. WorkerOK(x) /\ wk[x].idx \in Nat
      BY <1>1, WorkerFields DEF IInv, WorkOK
    <3>2. CASE x # w
      <4>1. ASSUME Sound, b = run.pin, wk[x].pc = "mark"
            PROVE  c[wk[x].idx + 1] = run.pin
        <5>1. data.chunks[wk[x].idx + 1] = run.pin /\ wk[x].idx < run.size
          BY <3>1, <4>1 DEF WorkerOK
        <5>2. wk[x].idx + 1 \in 1..run.size
          BY <2>2, <3>1, <5>1
        <5>3. QED  BY <2>4, <4>1, <5>1, <5>2
      <4>2. QED  BY <1>1, <2>8, <2>10, <2>11, <3>1, <3>2, <4>1 DEF WorkerOK
    <3>3. CASE x = w
      <4>1. c[wk[w].idx + 1] = b
        BY <2>4
      <4>2. QED  BY <1>1, <2>2, <2>7, <2>8, <2>10, <2>11, <3>3, <4>1 DEF WorkerOK
    <3>4. QED  BY <3>2, <3>3
  <2>18. WorkOK'
    BY <1>1, <2>16, <2>17 DEF WorkOK, At
  <2>19. DataOK' /\ KeptOK'
    BY <1>1, <2>9 DEF IInv, DataOK, KeptOK, Installed, OriginalKept, At
  <2>20. QED  BY <2>12, <2>13, <2>15, <2>18, <2>19 DEF IInv
<1>5. QED  BY <1>1, <1>3, <1>4 DEF WWrite

LEMMA WMarkStep ==
  ASSUME IInv, NEW w \in Workers, WMark(w) PROVE IInv'
<1>1. TypeOK /\ OriginalKept /\ At("round") /\ run.pc = "round" /\ wk[w].pc = "mark"
      /\ UNCHANGED <<ver, data, side, target, baks, hist, bound>>
      /\ run' = [run EXCEPT !.done = @ \cup {wk[w].idx}] /\ WGo(w, "byte")
  BY DEF IInv, KeptOK, WMark, WAt, At, Disk
<1>2. wk[w].idx \in Nat /\ wk[w].idx < run.size /\ (Sound => data.chunks[wk[w].idx + 1] = run.pin)
  BY <1>1, WorkerFields DEF IInv, WorkOK, WorkerOK
<1>3. /\ run' \in Run /\ run'.done = run.done \cup {wk[w].idx}
      /\ UNCHANGED <<run.pc, run.size, run.mtime, run.resume, run.pin, run.split>>
  <2>1. run.done \cup {wk[w].idx} \in SUBSET Nat
    BY <1>1, <1>2, Types
  <2>2. QED  BY <1>1, <2>1 DEF TypeOK, Run
<1>4. /\ wk' \in [Workers -> Worker] /\ wk'[w].pc = "byte"
      /\ \A x \in Workers : x # w => wk'[x] = wk[x]
  <2> DEFINE u == [wk[w] EXCEPT !.pc = "byte"]
  <2>1. wk' = [wk EXCEPT ![w] = u] /\ u \in Worker /\ u.pc = "byte"
    BY <1>1, WorkerFields DEF WGo, Worker
  <2> HIDE DEF u
  <2>2. QED  BY <1>1, <2>1 DEF TypeOK
<1>5. TypeOK'
  BY <1>1, <1>3, <1>4 DEF TypeOK
<1>6. RunOK'
  BY <1>1, <1>3 DEF IInv, RunOK, Fresh, Large, Laid, At
<1>7. SideOK'
  BY <1>1, <1>3 DEF IInv, SideOK, Mirror, Sound, At
<1>8. DoneOK'
  BY <1>1, <1>2, <1>3 DEF IInv, WorkOK, DoneOK, Laid, Sound, Indices
<1>9. ASSUME NEW x \in Workers PROVE WorkerOK(x)'
  <2>1. WorkerOK(x)
    BY <1>1 DEF IInv, WorkOK
  <2>2. CASE x # w
    BY <1>1, <1>3, <1>4, <2>1, <2>2 DEF WorkerOK, Sound
  <2>3. CASE x = w
    BY <1>4, <2>3 DEF WorkerOK
  <2>4. QED  BY <2>2, <2>3
<1>10. WorkOK'
  BY <1>1, <1>3, <1>8, <1>9 DEF WorkOK, At
<1>11. DataOK' /\ KeptOK'
  BY <1>1, <1>3 DEF DataOK, KeptOK, Installed, OriginalKept, At
<1>12. QED  BY <1>5, <1>6, <1>7, <1>10, <1>11 DEF IInv

LEMMA WSideStep ==
  ASSUME IInv, NEW w \in Workers, WSide(w) PROVE IInv'
<1>1. TypeOK /\ OriginalKept /\ At("round") /\ run.pc = "round" /\ wk[w].pc = "side"
      /\ UNCHANGED <<ver, data, target, baks, run, hist, bound>>
  BY DEF IInv, KeptOK, WSide, WAt, At
<1>2. run' \in Run
  BY <1>1 DEF TypeOK
<1>3. CASE WEnd(w) /\ UNCHANGED side
  BY <1>1, <1>2, <1>3, WorkerEnds
<1>4. CASE /\ side' = [side EXCEPT !.bits = (@ \ Octet(wk[w].idx)) \cup wk[w].byte]
           /\ wk' = [wk EXCEPT ![w] = [Off EXCEPT !.pc = "next"]]
  <2> DEFINE B == (side.bits \ Octet(wk[w].idx)) \cup wk[w].byte
  <2>1. side' = [side EXCEPT !.bits = B]
    BY <1>4
  <2>2. wk[w].byte \subseteq run.done /\ wk[w].byte \in SUBSET Nat /\ side.bits \in SUBSET Nat
    BY <1>1, WorkerFields, Types DEF IInv, WorkOK, WorkerOK
  <2>3. B \subseteq side.bits \cup run.done /\ B \in SUBSET Nat
    BY <2>2
  <2> HIDE DEF B
  <2>4. side' \in Sidecar /\ side'.bits = B /\ side'.mtime = side.mtime
    BY <1>1, <2>1, <2>3 DEF TypeOK, Sidecar
  <2>5. [Off EXCEPT !.pc = "next"] \in Worker /\ [Off EXCEPT !.pc = "next"].pc = "next"
    BY OffWorker DEF Worker
  <2>6. /\ wk' \in [Workers -> Worker] /\ wk'[w].pc = "next"
        /\ \A x \in Workers : x # w => wk'[x] = wk[x]
    BY <1>1, <1>4, <2>5 DEF TypeOK
  <2>7. TypeOK'
    BY <1>1, <2>4, <2>6 DEF TypeOK
  <2>8. RunOK'
    BY <1>1 DEF IInv, RunOK, Fresh, Large, Laid, At
  <2>9. Mirror'
    <3>1. SUFFICES ASSUME Sound, side.mtime # 0, NEW v \in Versions, NEW i \in B,
                          Mtime[v] = side.mtime, i + 1 \in DOMAIN data.chunks
                   PROVE  data.chunks[i + 1] = v
      BY <1>1, <2>4 DEF Mirror, Sound
    <3>2. side.mtime = run.mtime /\ run.pc \in Laid
      BY <1>1 DEF IInv, SideOK, Laid
    <3>3. QED  BY <2>3, <3>1, <3>2, DoneMirror
  <2>10. SideOK'
    BY <1>1, <2>4, <2>9 DEF IInv, SideOK, At
  <2>11. ASSUME NEW x \in Workers PROVE WorkerOK(x)'
    <3>1. WorkerOK(x)
      BY <1>1 DEF IInv, WorkOK
    <3>2. CASE x # w
      BY <1>1, <2>6, <3>1, <3>2 DEF WorkerOK, Sound
    <3>3. CASE x = w
      BY <2>6, <3>3 DEF WorkerOK
    <3>4. QED  BY <3>2, <3>3
  <2>12. WorkOK'
    BY <1>1, <2>11 DEF IInv, WorkOK, DoneOK, Laid, Sound, Indices, At
  <2>13. DataOK' /\ KeptOK'
    BY <1>1 DEF DataOK, KeptOK, Installed, OriginalKept, At
  <2>14. QED  BY <2>7, <2>8, <2>10, <2>12, <2>13 DEF IInv
<1>5. QED  BY <1>1, <1>3, <1>4 DEF WSide

LEMMA JoinStep ==
  ASSUME IInv, Join PROVE IInv'
<1>1. TypeOK /\ OriginalKept /\ run.pc = "round"
      /\ UNCHANGED <<ver, target, baks, hist, bound>>
  BY DEF IInv, KeptOK, Join, At
<1>2. OriginalKept'
  BY <1>1 DEF OriginalKept
<1>3. CASE AllDone /\ side' \in {NoSide, side} /\ Go("check") /\ UNCHANGED <<data, wk>>
  <2>1. "check" \in Pc /\ run' = [run EXCEPT !.pc = "check"]
    BY <1>3 DEF Pc, Go
  <2>2. run' \in Run /\ run'.pc = "check" /\ SameRun(run', run)
    BY <1>1, <2>1, GoFields
  <2>3. side' \in Sidecar
    BY <1>1, <1>3, NoFiles DEF TypeOK
  <2>4. TypeOK'
    BY <1>1, <1>3, <2>2, <2>3 DEF TypeOK
  <2>5. RunOK'
    BY <1>1, <1>3, <2>2 DEF IInv, RunOK, Fresh, Large, Laid, At, SameRun
  <2>6. Mirror'
    BY <1>1, <1>3, MirrorKept DEF IInv, SideOK, Sound
  <2>7. SideOK'
    BY <2>2, <2>6 DEF SideOK, At
  <2>8. DoneOK'
    BY <1>1, <1>3, <2>2 DEF IInv, WorkOK, DoneOK, Laid, Sound, Indices, SameRun
  <2>9. AllDone'
    BY <1>3, <2>2 DEF AllDone, Indices, SameRun
  <2>10. WorkOK' /\ DataOK' /\ KeptOK'
    BY <1>2, <2>2, <2>8, <2>9 DEF WorkOK, DataOK, KeptOK, Installed, At
  <2>11. QED  BY <2>4, <2>5, <2>7, <2>10 DEF IInv
<1>4. CASE side' \in {NoSide, side} /\ data' \in {NoFile, data} /\ Err
  BY <1>1, <1>2, <1>4, GivesUp DEF TypeOK, Err
<1>5. CASE Again("spawn") /\ UNCHANGED <<side, data>>
  <2>1. CASE run.cancel \/ run.attempt >= Retries
    BY <1>1, <1>2, <1>5, <2>1, GivesUp DEF TypeOK, Err, Again
  <2>2. CASE ~(run.cancel \/ run.attempt >= Retries)
    <3>1. run' = [run EXCEPT !.pc = "spawn", !.attempt = @ + 1] /\ UNCHANGED wk
      BY <1>5, <2>2 DEF Again
    <3>2. /\ run' \in Run /\ run'.pc = "spawn" /\ run'.size = run.size
          /\ run'.mtime = run.mtime /\ run'.resume = run.resume /\ run'.done = run.done
          /\ run'.pin = run.pin /\ run'.split = run.split
      <4>1. "spawn" \in Pc
        BY DEF Pc
      <4>2. QED  BY <1>1, <2>2, <3>1, <4>1, AgainFields
    <3>3. TypeOK'
      BY <1>1, <1>5, <3>1, <3>2 DEF TypeOK
    <3>4. RunOK' /\ SideOK'
      BY <1>1, <1>5, <3>2
      DEF IInv, RunOK, SideOK, Mirror, Sound, Fresh, Large, Laid, At
    <3>5. WorkOK'
      BY <1>1, <1>5, <3>2 DEF IInv, WorkOK, DoneOK, Laid, Sound, Indices, At
    <3>6. DataOK' /\ KeptOK'
      BY <1>2, <3>2 DEF DataOK, KeptOK, Installed, At
    <3>7. QED  BY <3>3, <3>4, <3>5, <3>6 DEF IInv
  <2>3. QED  BY <2>1, <2>2
<1>6. QED  BY <1>3, <1>4, <1>5 DEF Join

-----------------------------------------------------------------------------
(* The swap *)

LEMMA CheckStep ==
  ASSUME IInv, Check PROVE IInv'
<1>1. TypeOK /\ OriginalKept /\ run.pc = "check" /\ AllDone
      /\ UNCHANGED <<ver, data, side, target, baks, hist, bound>>
  BY DEF IInv, KeptOK, WorkOK, Check, At, Disk
<1>2. OriginalKept'
  BY <1>1 DEF OriginalKept
<1>3. CASE Err
  BY <1>1, <1>2, <1>3, GivesUp DEF TypeOK, Err
<1>4. CASE DataWhole(run.size) /\ Go("finish") /\ UNCHANGED wk
  <2>1. "finish" \in Pc /\ run' = [run EXCEPT !.pc = "finish"]
    BY <1>4 DEF Pc, Go
  <2>2. run' \in Run /\ run'.pc = "finish" /\ SameRun(run', run)
    BY <1>1, <2>1, GoFields
  <2>3. TypeOK'
    BY <1>1, <1>4, <2>2 DEF TypeOK
  <2>4. RunOK'
    BY <1>1, <2>2 DEF RunOK, Fresh, Large, Laid, At
  <2>5. SideOK'
    BY <1>1, <2>2 DEF IInv, SideOK, Mirror, Sound, At
  <2>6. WorkOK' /\ KeptOK'
    BY <1>2, <2>2 DEF WorkOK, DoneOK, Laid, KeptOK, At
  <2>7. data.there /\ Len(data.chunks) = run.size
    BY <1>4 DEF DataWhole
  <2>8. ASSUME Trusted PROVE data.chunks = Full(run.pin)
    <3>1. Sound /\ run.size = Size[run.pin]
      BY <1>1, <2>8, Types DEF IInv, RunOK, Trusted, Sound, Large, Laid
    <3>2. data.chunks \in Seq(Versions \cup {0}) /\ run.size \in Nat
      BY <1>1, Types DEF Chunks
    <3>3. ASSUME NEW j \in 1..run.size PROVE data.chunks[j] = run.pin
      <4>1. j - 1 \in Indices /\ (j - 1) + 1 = j
        BY <3>2 DEF Indices
      <4>2. j - 1 \in run.done
        BY <1>1, <4>1 DEF AllDone
      <4>3. QED  BY <1>1, <3>1, <4>1, <4>2 DEF IInv, WorkOK, DoneOK, Laid
    <3>4. QED  BY <2>7, <3>1, <3>2, <3>3 DEF Full
  <2>9. DataOK'
    BY <1>1, <2>2, <2>7, <2>8 DEF DataOK, Trusted, Installed, SameRun, At
  <2>10. QED  BY <2>3, <2>4, <2>5, <2>6, <2>9 DEF IInv
<1>5. QED  BY <1>3, <1>4 DEF Check

\* What moving the data file in does.
LEMMA MovedIn ==
  ASSUME IInv, run.pc \in {"finish", "swap"}, MoveIn, NEW p \in {"done", "clean"}, Go(p),
         UNCHANGED <<ver, side, wk, bound>>, baks' = baks
  PROVE  IInv'
<1>1. TypeOK /\ target' = data /\ data' = NoFile /\ hist' = [hist EXCEPT !.cur = data]
      /\ p \in Pc /\ run' = [run EXCEPT !.pc = p]
  BY DEF IInv, MoveIn, Go, Pc
<1>2. run' \in Run /\ run'.pc = p /\ SameRun(run', run)
  BY <1>1, GoFields
<1>3. hist' \in Hist /\ hist'.cur = data /\ hist'.torn = hist.torn /\ hist'.gap = hist.gap
  BY <1>1 DEF TypeOK, Hist
<1>4. TypeOK'
  BY <1>1, <1>2, <1>3, NoFiles DEF TypeOK
<1>5. RunOK'
  BY <1>2 DEF RunOK, Fresh, Large, Laid, At
<1>6. Mirror'
  BY <1>1, <1>3, MirrorKept DEF IInv, SideOK, Sound
<1>7. SideOK' /\ WorkOK'
  BY <1>2, <1>6 DEF SideOK, WorkOK, DoneOK, Laid, At
<1>8. KeptOK'
  BY <1>1, <1>2, <1>3 DEF KeptOK, OriginalKept, At
<1>9. DataOK'
  <2>1. Trusted' => Trusted
    BY <1>2, <1>3 DEF Trusted, SameRun
  <2>2. data.there = TRUE /\ data = [there |-> data.there, chunks |-> data.chunks]
        /\ (Trusted => data.chunks = Full(run.pin))
    BY <1>1, Types DEF IInv, DataOK
  <2>3. Trusted => data = With(Full(run.pin))
    BY <2>2 DEF With
  <2>4. QED  BY <1>1, <1>2, <2>1, <2>3 DEF DataOK, SameRun, At
<1>10. QED  BY <1>4, <1>5, <1>7, <1>8, <1>9 DEF IInv

LEMMA FinishStep ==
  ASSUME IInv, Finish PROVE IInv'
<1>1. TypeOK /\ OriginalKept /\ run.pc = "finish" /\ UNCHANGED <<ver, side, bound>>
  BY DEF IInv, KeptOK, Finish, At
<1>2. CASE MoveIn /\ Go("done") /\ UNCHANGED <<baks, wk>>
  BY <1>1, <1>2, MovedIn
<1>3. CASE Err /\ UNCHANGED <<data, target, baks, hist>>
  <2>1. OriginalKept'
    BY <1>1, <1>3 DEF OriginalKept
  <2>2. QED  BY <1>1, <1>3, <2>1, GivesUp DEF TypeOK, Err
<1>4. CASE /\ target' = NoFile /\ baks' = baks \cup {target.chunks}
           /\ run' = [run EXCEPT !.pc = "swap", !.bak = target.chunks]
           /\ UNCHANGED <<data, hist, wk>>
  <2>1. target.chunks \in Chunks /\ "swap" \in Pc /\ ~NoFile.there /\ NoFile \in File
    BY <1>1, Types, NoFiles DEF Pc
  <2>2. /\ run' \in Run /\ run'.pc = "swap" /\ run'.pin = run.pin
        /\ run'.split = run.split /\ run'.resume = run.resume
    BY <1>1, <1>4, <2>1 DEF TypeOK, Run
  <2>3. TypeOK'
    BY <1>1, <1>4, <2>1, <2>2 DEF TypeOK
  <2>4. RunOK' /\ WorkOK'
    BY <2>2 DEF RunOK, WorkOK, DoneOK, Fresh, Large, Laid, At
  <2>5. SideOK'
    BY <1>1, <1>4, <2>2 DEF IInv, SideOK, Mirror, Sound, At
  <2>6. KeptOK'
    BY <1>1, <1>4, <2>1, <2>2 DEF KeptOK, OriginalKept, At
  <2>7. DataOK'
    BY <1>1, <1>4, <2>2 DEF IInv, DataOK, Trusted, Installed, At
  <2>8. QED  BY <2>3, <2>4, <2>5, <2>6, <2>7 DEF IInv
<1>5. QED  BY <1>1, <1>2, <1>3, <1>4 DEF Finish

LEMMA SwapStep ==
  ASSUME IInv, Swap PROVE IInv'
<1>1. TypeOK /\ OriginalKept /\ run.pc = "swap" /\ ~target.there
      /\ UNCHANGED <<ver, side, baks, wk, bound>>
  BY DEF IInv, KeptOK, Swap, At
<1>2. CASE MoveIn /\ Go("clean")
  BY <1>1, <1>2, MovedIn
<1>3. CASE Go("restore") /\ UNCHANGED <<data, target, hist>>
  <2>1. "restore" \in Pc /\ run' = [run EXCEPT !.pc = "restore"]
    BY <1>3 DEF Pc, Go
  <2>2. run' \in Run /\ run'.pc = "restore"
    BY <1>1, <2>1, GoFields
  <2>3. TypeOK'
    BY <1>1, <1>3, <2>2 DEF TypeOK
  <2>4. RunOK' /\ WorkOK'
    BY <2>2 DEF RunOK, WorkOK, DoneOK, Fresh, Large, Laid, At
  <2>5. SideOK'
    BY <1>1, <1>3, <2>2 DEF IInv, SideOK, Mirror, Sound, At
  <2>6. KeptOK' /\ DataOK'
    BY <1>1, <1>3, <2>2 DEF KeptOK, OriginalKept, DataOK, Installed, At
  <2>7. QED  BY <2>3, <2>4, <2>5, <2>6 DEF IInv
<1>4. QED  BY <1>2, <1>3 DEF Swap

LEMMA CleanStep ==
  ASSUME IInv, Clean PROVE IInv'
<1>1. TypeOK /\ run.pc = "clean" /\ target = hist.cur /\ baks' \in {baks, baks \ {run.bak}}
      /\ Go("done") /\ UNCHANGED <<ver, data, side, target, wk, hist, bound>>
  BY DEF IInv, KeptOK, Clean, At
<1>2. "done" \in Pc /\ run' = [run EXCEPT !.pc = "done"]
  BY <1>1 DEF Pc, Go
<1>3. run' \in Run /\ run'.pc = "done" /\ SameRun(run', run)
  BY <1>1, <1>2, GoFields
<1>4. TypeOK'
  BY <1>1, <1>3 DEF TypeOK
<1>5. RunOK' /\ WorkOK'
  BY <1>3 DEF RunOK, WorkOK, DoneOK, Fresh, Large, Laid, At
<1>6. SideOK'
  BY <1>1, <1>3 DEF IInv, SideOK, Mirror, Sound, At
<1>7. KeptOK'
  BY <1>1, <1>3 DEF KeptOK, OriginalKept, At
<1>8. DataOK'
  BY <1>1, <1>3 DEF IInv, DataOK, Trusted, Installed, SameRun, At
<1>9. QED  BY <1>4, <1>5, <1>6, <1>7, <1>8 DEF IInv

LEMMA RestoreStep ==
  ASSUME IInv, Restore PROVE IInv'
<1>1. TypeOK /\ OriginalKept /\ ~target.there
      /\ data' \in {NoFile, data} /\ Err /\ UNCHANGED <<ver, side, hist, bound>>
  BY DEF IInv, KeptOK, Restore, At
<1>2. run.bak \in Chunks /\ hist.cur = [there |-> hist.cur.there, chunks |-> hist.cur.chunks]
  BY <1>1, Types DEF File
<1>3. CASE UNCHANGED <<target, baks>>
  <2>1. OriginalKept'
    BY <1>1, <1>3 DEF OriginalKept
  <2>2. QED  BY <1>1, <1>3, <2>1, GivesUp DEF TypeOK, Err
<1>4. CASE target' = With(run.bak) /\ baks' = baks \ {run.bak}
  <2>1. target' \in File /\ baks' \in SUBSET Chunks
    BY <1>1, <1>2, <1>4, NoFiles DEF TypeOK
  <2>2. OriginalKept'
    <3>1. SUFFICES ASSUME hist.cur.there PROVE target' = hist.cur \/ hist.cur.chunks \in baks'
      BY <1>1 DEF OriginalKept
    <3>2. hist.cur.chunks \in baks
      BY <1>1, <3>1 DEF OriginalKept
    <3>3. CASE hist.cur.chunks = run.bak
      <4>1. hist.cur.there = TRUE
        BY <1>1, <3>1, Types DEF File
      <4>2. hist.cur = With(run.bak)
        BY <1>2, <3>3, <4>1 DEF With
      <4>3. QED  BY <1>4, <4>2
    <3>4. CASE hist.cur.chunks # run.bak
      BY <1>4, <3>2, <3>4
    <3>5. QED  BY <3>3, <3>4
  <2>3. QED  BY <1>1, <2>1, <2>2, GivesUp DEF TypeOK, Err
<1>5. QED  BY <1>3, <1>4 DEF Restore

-----------------------------------------------------------------------------
(* The theorems *)

\* IInv holds at first and every step keeps it.
THEOREM Invariance == Spec => []IInv
<1>1. Init => IInv
  <2> SUFFICES ASSUME Init PROVE IInv
    OBVIOUS
  <2>1. 1 \in Versions /\ <<0>> \in Chunks /\ <<>> \in Chunks
    <3>1. Len(Size) \in Nat /\ Len(Size) # 0
      BY DownloadAssumption
    <3>2. QED  BY <3>1 DEF Versions, Chunks
  <2>2. target \in File /\ data \in File /\ side \in Sidecar
        /\ side.bits = {} /\ side.mtime = 0
    BY <2>1, NoFiles DEF Init
  <2>3. run = [NoRun EXCEPT !.pc = "idle"]
    BY DEF Init, NoRun
  <2>4. run \in Run /\ run.pc = "idle"
    <3>1. FALSE \in BOOLEAN /\ {} \in SUBSET Nat /\ 0 \in Nat /\ 0 \in 0..Retries
          /\ "idle" \in Pc
      BY DownloadAssumption DEF Pc
    <3>2. [pc |-> "idle", size |-> 0, mtime |-> 0, resume |-> FALSE,
           done |-> {}, cursor |-> 0, attempt |-> 0, cancel |-> FALSE, bak |-> <<>>,
           pin |-> 1, split |-> FALSE] \in Run
      BY <2>1, <3>1, Zenon DEF Run
    <3>3. QED  BY <3>2 DEF Init, NoRun
  <2>5. wk \in [Workers -> Worker]
    BY OffWorker DEF Init
  <2>6. hist \in Hist /\ hist.cur = target
    BY <2>2 DEF Init, Hist
  <2>7. bound \in [runs : 0..MaxRuns, crash : 0..MaxCrash, edits : 0..MaxEdits, loss : 0..MaxLoss]
    <3>1. 0 \in 0..MaxRuns /\ 0 \in 0..MaxCrash /\ 0 \in 0..MaxEdits /\ 0 \in 0..MaxLoss
      BY DownloadAssumption
    <3>2. QED  BY <3>1 DEF Init
  <2>8. TypeOK
    BY <2>1, <2>2, <2>4, <2>5, <2>6, <2>7 DEF TypeOK, Init
  <2>9. RunOK /\ SideOK /\ WorkOK /\ DataOK /\ KeptOK
    BY <2>2, <2>4, <2>6
    DEF RunOK, SideOK, Mirror, WorkOK, DoneOK, DataOK, KeptOK, OriginalKept,
        Fresh, Large, Laid, Installed, At
  <2>10. QED  BY <2>8, <2>9 DEF IInv
<1>2. IInv /\ [Next]_vars => IInv'
  <2> SUFFICES ASSUME IInv, [Next]_vars PROVE IInv'
    OBVIOUS
  <2>1. CASE UNCHANGED vars
    <3>1. UNCHANGED <<ver, data, side, target, baks, run, wk, hist, bound>>
      BY <2>1 DEF vars
    <3>2. TypeOK' /\ RunOK' /\ SideOK'
      BY <3>1 DEF IInv, TypeOK, RunOK, SideOK, Mirror, Sound, At
    <3>3. WorkOK'
      BY <3>1 DEF IInv, WorkOK, DoneOK, WorkerOK, AllDone, Indices, Sound, At
    <3>4. DataOK' /\ KeptOK'
      BY <3>1 DEF IInv, DataOK, KeptOK, Trusted, Installed, OriginalKept, At
    <3>5. QED  BY <3>2, <3>3, <3>4 DEF IInv
  <2>2. CASE Begin \/ Cancel \/ Drop \/ Crash \/ Edit \/ Damage
    BY <2>2, BeginStep, CancelStep, DropStep, CrashStep, EditStep, DamageStep
  <2>3. CASE Main
    <3>1. CASE Setup
      BY <3>1, PolicyStep, AskMtimeStep, PlanStep, SetLengthStep, MakeSidecarStep,
         WriteHeaderStep, WriteBitsStep DEF Setup
    <3>2. CASE SmallOpen \/ Stream \/ Spawn \/ Join
      BY <3>2, SmallOpenStep, StreamStep, SpawnStep, JoinStep
    <3>3. CASE Check \/ Finish \/ Swap \/ Clean \/ Restore
      BY <3>3, CheckStep, FinishStep, SwapStep, CleanStep, RestoreStep
    <3>4. QED  BY <2>3, <3>1, <3>2, <3>3 DEF Main
  <2>4. ASSUME NEW w \in Workers, Fetch(w) PROVE IInv'
    BY <2>4, WOpenStep, WNextStep, WReadStep, WWriteStep, WMarkStep, WByteStep, WSideStep
    DEF Fetch
  <2>5. QED  BY <2>1, <2>2, <2>3, <2>4 DEF Next
<1>3. QED  BY <1>1, <1>2, PTL DEF Spec

\* Every variable keeps its type.
THEOREM TypeCorrect == Spec => []TypeOK
<1>1. IInv => TypeOK
  BY DEF IInv
<1>2. QED  BY <1>1, Invariance, PTL

\* Whatever a download moves into place is one complete version of the remote
\* file, whatever was interrupted, resumed, dropped, damaged or edited before,
\* for every number of versions, chunks, workers, retries and runs, provided
\* that no two versions share a modification time: the code tells versions
\* apart by size and time, and nothing else is read.
THEOREM WholeInstalled ==
  ASSUME MtimeDistinct
  PROVE  Spec => []InstalledWhole
<1>1. IInv => InstalledWhole
  BY DEF IInv, DataOK, InstalledWhole, Trusted
<1>2. QED  BY <1>1, Invariance, PTL

\* What stood under the local path last is there or in a backup, at every step
\* of every run, through every failure of the swap and every end of the
\* program.
THEOREM OriginalNeverLost == Spec => []OriginalKept
<1>1. IInv => OriginalKept
  BY DEF IInv, KeptOK
<1>2. QED  BY <1>1, Invariance, PTL
=============================================================================
