------------------------------- MODULE Paste -------------------------------
(***************************************************************************)
(* Cut and paste of a file between tabs of different machines              *)
(* (app/transfers_clipboard.rs, transfers_relay.rs, transfers_direct.rs).  *)
(*                                                                         *)
(*  relay   both remote: the source's worker downloads to a temporary      *)
(*          file, then the destination's worker uploads it                 *)
(*  direct  both remote: the source's host pushes to the destination's;    *)
(*          a failure asks whether to relay instead                        *)
(*  local   one of the two is this machine: one upload or one download     *)
(*                                                                         *)
(* A job follows its transfers by looking, every frame, at the rows of the *)
(* two tabs.  A row is settled by an event of the worker of its tab, and   *)
(* both the way to the worker and the way back are replaced when the tab   *)
(* is connected again.  What is lost there, the job never hears of.        *)
(*                                                                         *)
(* XferSession has the rows and the worker in detail; here a worker takes  *)
(* commands in order and may leave one waiting.                            *)
(***************************************************************************)
EXTENDS Naturals, Sequences, FiniteSets

CONSTANTS Remote,      \* tabs connected to remote machines, all different
          Local,       \* the tab of this machine
          Entries,     \* what is in the directory pasted: "file", "link"
          MaxPastes,   \* bound: pastes of the user
          MaxAgain,    \* bound: failed direct pastes that are relayed
          MaxDrops,    \* bound: connections lost
          MaxCloses,   \* bound: tabs closed
          MaxClicks    \* bound: transfers cancelled or retried, rows removed

ASSUME PasteAssumption ==
    /\ Local \notin Remote
    /\ "file" \in Entries /\ Entries \subseteq {"file", "link"}
    /\ {MaxPastes, MaxAgain, MaxDrops, MaxCloses, MaxClicks} \subseteq Nat

VARIABLES
    link,    \* per tab: its worker is up, down (the tab stays) or closed
    online,  \* per tab: Session.connected, what the UI believes of it
    cmds,    \* per tab: commands to its worker
    evts,    \* per tab: events from its worker
    tasks,   \* transfers under way
    rows,    \* the rows of the transfer window
    job,     \* per paste: relays, direct_jobs, local_xfers
    plan,    \* per paste: what it pastes
    ask,     \* plans the user is asked about: direct pastes that failed or
             \* could not be
    gone,    \* tabs whose own directory was deleted
    copies,  \* <<source, destination, entry>>: the entry was copied
    tmp,     \* <<paste, entry>>: the entry is in its temporary directory
    cut,     \* history: per paste, why it was cut off from its transfer
    bound    \* the counters that bound the model

vars == <<link, online, cmds, evts, tasks, rows, job, plan, ask, gone, copies,
          tmp, cut, bound>>
disk == <<gone, copies, tmp>>
jobs == <<job, plan, ask>>

Tab == Remote \union {Local}
Paste == 1 .. MaxPastes + MaxAgain
\* A transfer: which paste, and in whose tab its row is.
Xfer == Paste \X {"src", "dst"}

NoRow == [present |-> FALSE, ok |-> "open", paused |-> FALSE, queued |-> FALSE,
          spec |-> FALSE]
Row == [NoRow EXCEPT !.present = TRUE]
NoPlan == [kind |-> "none", cut |-> FALSE, src |-> Local, dst |-> Local, stop |-> FALSE]

Tick(b) == /\ bound[b] > 0
           /\ bound' = [bound EXCEPT ![b] = @ - 1]

Init ==
    /\ link = [s \in Tab |-> "up"] /\ online = [s \in Tab |-> TRUE]
    /\ cmds = [s \in Tab |-> <<>>] /\ evts = [s \in Tab |-> <<>>]
    /\ tasks = {}
    /\ rows = [x \in Xfer |-> NoRow]
    /\ job = [p \in Paste |-> "none"] /\ plan = [p \in Paste |-> NoPlan]
    /\ ask = <<>>
    /\ gone = {} /\ copies = {} /\ tmp = {}
    /\ cut = [p \in Paste |-> "none"]
    /\ bound = [drops |-> MaxDrops, closes |-> MaxCloses, clicks |-> MaxClicks,
                pastes |-> MaxPastes]

----------------------------------------------------------------------------
(* Who owns a transfer, and what it moves *)

Owner(x) == plan[x[1]][x[2]]
Open(s) == link[s] # "closed"
Src(p) == <<p, "src">>
Dst(p) == <<p, "dst">>

\* The row a job follows now.
Follows(p) ==
    CASE job[p] = "up" -> Dst(p)
      [] job[p] = "local" -> IF plan[p].src = Local THEN Dst(p) ELSE Src(p)
      [] OTHER -> Src(p)

\* The way to a worker that is down ends nowhere: send's result is ignored.
Delivered(c, s, cmd) == IF link[s] = "up" THEN [c EXCEPT ![s] = Append(@, cmd)] ELSE c
Start(x) == [op |-> "start", x |-> x]
Send(s, cmd) == cmds' = Delivered(cmds, s, cmd)
\* The paste whose start command goes nowhere has lost its transfer.
CutBy(p, s, why) == cut' = IF link[s] = "up" THEN cut ELSE [cut EXCEPT ![p] = why]

----------------------------------------------------------------------------
(* The rows: transfer_ok, and the jobs that follow them *)

Outcome(x) == IF Open(Owner(x)) /\ rows[x].present THEN rows[x].ok ELSE "open"
Waiting(p) == job[p] \notin {"none", "ended"}
\* Mutant of Step: a tab that was closed is waited for.
StepForEver(p) == IF Outcome(Follows(p)) # "open" THEN Outcome(Follows(p)) ELSE "wait"
\* Some(true), Some(false), or None with the tab gone.
Step(p) ==
    LET x == Follows(p) IN
    IF Outcome(x) # "open" THEN Outcome(x)
    ELSE IF Open(Owner(x)) THEN "wait" ELSE "gone"
\* A job that waits for a row of tab s which is not resent.
Follower(p, s) ==
    Waiting(p) /\ Owner(Follows(p)) = s /\ ~rows[Follows(p)].spec
Ready(p) == Waiting(p) /\ Step(p) # "wait"
\* The jobs are looked at in every frame, before the user can do anything.
Quiet == \A p \in Paste : ~Ready(p)

----------------------------------------------------------------------------
(* Pasting *)

NewPaste(p) == p \in Paste /\ job[p] = "none" /\ \A q \in 1 .. p - 1 : job[q] # "none"

\* The relay: the download is sent without a row; the row of the upload
\* waits in the other tab from the start.
ExecuteRelay(p, pl) ==
    /\ plan' = [plan EXCEPT ![p] = pl]
    /\ job' = [job EXCEPT ![p] = "down"]
    /\ rows' = [rows EXCEPT ![Dst(p)] = [Row EXCEPT !.queued = TRUE]]
    /\ Send(pl.src, Start(Src(p)))
    /\ CutBy(p, pl.src, "offline")

\* The direct paste has a row in each tab, one the mirror of the other.
ExecuteDirect(p, pl) ==
    /\ plan' = [plan EXCEPT ![p] = pl]
    /\ job' = [job EXCEPT ![p] = "direct"]
    /\ rows' = [rows EXCEPT ![Src(p)] = Row, ![Dst(p)] = Row]
    /\ Send(pl.src, Start(Src(p)))
    /\ CutBy(p, pl.src, "offline")

\* One transfer in the remote tab, which can be resent.  A copied upload is
\* not followed by any job.
ExecuteLocal(p, pl) ==
    LET up == pl.src = Local
        x == IF up THEN Dst(p) ELSE Src(p)
        s == IF up THEN pl.dst ELSE pl.src
    IN /\ plan' = [plan EXCEPT ![p] = pl]
       /\ job' = [job EXCEPT ![p] = IF up /\ ~pl.cut THEN "ended" ELSE "local"]
       /\ rows' = [rows EXCEPT ![x] = [Row EXCEPT !.spec = TRUE]]
       /\ Send(s, Start(x))
       /\ CutBy(p, s, "offline")

\* start_paste and execute_paste: both tabs must be there, connected or not.
PasteFile(p, pl) ==
    /\ Quiet /\ NewPaste(p) /\ Tick("pastes")
    /\ pl.src # pl.dst /\ Open(pl.src) /\ Open(pl.dst)
    /\ pl.src \notin gone
    /\ CASE pl.kind = "local" -> ExecuteLocal(p, pl)
         [] pl.kind = "direct" -> ExecuteDirect(p, pl)
         [] OTHER -> ExecuteRelay(p, pl)
    /\ UNCHANGED <<link, online, evts, tasks, ask, disk>>

\* stop: the user cancelled it (DirectJob.cancelled).
Plans == {pl \in [kind : {"relay", "direct", "local"}, cut : BOOLEAN,
                  src : Tab, dst : Tab, stop : {FALSE}] :
            (pl.kind = "local") <=> (Local \in {pl.src, pl.dst})}

\* execute_direct: a tab that does not log in with a bare key is not pushed to,
\* and the user is asked at once.
RefuseDirect(pl) ==
    /\ Quiet /\ Tick("pastes") /\ pl.kind = "direct"
    /\ pl.src # pl.dst /\ Open(pl.src) /\ Open(pl.dst)
    /\ pl.src \notin gone
    /\ ask' = Append(ask, pl)
    /\ UNCHANGED <<link, online, cmds, evts, tasks, rows, job, plan, disk, cut>>

\* The direct paste failed, or could not be: relay instead, or not at all.
AnswerFallback(p) ==
    /\ Quiet /\ ask # <<>>
    /\ ask' = Tail(ask)
    /\ LET pl == [Head(ask) EXCEPT !.kind = "relay"] IN
         \/ /\ NewPaste(p) /\ Open(pl.src) /\ Open(pl.dst)
            /\ ExecuteRelay(p, pl)
         \/ UNCHANGED <<plan, job, rows, cmds, cut>>
    /\ UNCHANGED <<link, online, evts, tasks, disk, bound>>

----------------------------------------------------------------------------
(* process_relays, process_direct_jobs, process_local_xfers: one job *)

\* Mutant of Settled: the row is left as it was.
LeftAsItIs(x, ok) == rows
\* finish_mirror, fail_placeholder: where the other tab still has the row.
Settled(x, ok) ==
    IF Open(Owner(x)) /\ rows[x].present
    THEN [rows EXCEPT ![x].ok = ok, ![x].queued = FALSE] ELSE rows
DeleteSource(p) ==
    IF plan[p].cut /\ Open(plan[p].src)
    THEN Send(plan[p].src, [op |-> "delete", x |-> Src(p)])
    ELSE UNCHANGED cmds

\* cleanup_relay_tmp
Cleaned(p) == {t \in tmp : t[1] # p}
End(p) == job' = [job EXCEPT ![p] = "ended"]

\* Downloaded: upload, where the destination is still there.
ToUpload(p) ==
    /\ job[p] = "down" /\ Step(p) = "ok"
    /\ IF Open(plan[p].dst)
       THEN /\ job' = [job EXCEPT ![p] = "up"]
            /\ rows' = [rows EXCEPT ![Dst(p)].queued = FALSE]
            /\ Send(plan[p].dst, Start(Dst(p)))
            /\ CutBy(p, plan[p].dst, "offline")
            /\ UNCHANGED tmp
       ELSE /\ End(p) /\ tmp' = Cleaned(p)
            /\ UNCHANGED <<rows, cmds, cut>>
    /\ UNCHANGED <<link, online, evts, tasks, plan, ask, gone, copies, bound>>

\* Mutant of RelayDone: the source is deleted once it is downloaded.
RelayDoneEarly(p) ==
    /\ job[p] \in {"down", "up"} /\ Step(p) = "ok"
    /\ DeleteSource(p)
    /\ tmp' = Cleaned(p) /\ End(p)
    /\ UNCHANGED <<link, online, evts, tasks, rows, plan, ask, gone, copies, cut, bound>>

RelayDone(p) ==
    /\ job[p] = "up" /\ Step(p) = "ok"
    /\ DeleteSource(p)
    /\ tmp' = Cleaned(p) /\ End(p)
    /\ UNCHANGED <<link, online, evts, tasks, rows, plan, ask, gone, copies, cut, bound>>

RelayFailed(p) ==
    /\ job[p] \in {"down", "up"} /\ Step(p) \in {"fail", "gone"}
    /\ rows' = IF job[p] = "down" THEN Settled(Dst(p), "fail") ELSE rows
    /\ tmp' = Cleaned(p) /\ End(p)
    /\ UNCHANGED <<link, online, cmds, evts, tasks, plan, ask, gone, copies, cut, bound>>

DirectDone(p) ==
    /\ job[p] = "direct" /\ Step(p) = "ok"
    /\ rows' = Settled(Dst(p), "ok")
    /\ DeleteSource(p)
    /\ End(p)
    /\ UNCHANGED <<link, online, evts, tasks, plan, ask, disk, cut, bound>>

\* A paste the user cancelled does not ask.
DirectFailed(p) ==
    /\ job[p] = "direct" /\ Step(p) \in {"fail", "gone"}
    /\ rows' = Settled(Dst(p), "fail")
    /\ ask' = IF ~plan[p].stop /\ Open(plan[p].src) /\ Open(plan[p].dst)
              THEN Append(ask, plan[p]) ELSE ask
    /\ End(p)
    /\ UNCHANGED <<link, online, cmds, evts, tasks, plan, disk, cut, bound>>

LocalDone(p) ==
    /\ job[p] = "local" /\ Ready(p)
    /\ IF Step(p) = "ok" THEN DeleteSource(p) ELSE UNCHANGED cmds
    /\ End(p)
    /\ UNCHANGED <<link, online, evts, tasks, rows, plan, ask, disk, cut, bound>>

Advance(p) ==
    \/ ToUpload(p) \/ RelayDone(p) \/ RelayFailed(p)
    \/ DirectDone(p) \/ DirectFailed(p) \/ LocalDone(p)

----------------------------------------------------------------------------
(* The transfer window, and the tabs *)

InProgress(x) == rows[x].present /\ rows[x].ok = "open" /\ ~rows[x].paused
\* cancel_target: either row of a direct paste stands for the transfer.
CancelTarget(x) == IF job[x[1]] = "direct" THEN Src(x[1]) ELSE x

\* A row that waits for its download has no cancel button.
Cancel(x) ==
    /\ Quiet /\ Tick("clicks")
    /\ Open(Owner(x)) /\ InProgress(x) /\ ~rows[x].queued
    /\ LET y == CancelTarget(x) IN
         /\ plan' = [plan EXCEPT ![x[1]].stop = @ \/ job[x[1]] = "direct"]
         /\ IF Open(Owner(y)) THEN Send(Owner(y), [op |-> "cancel", x |-> y])
            ELSE UNCHANGED cmds
    /\ UNCHANGED <<link, online, evts, tasks, rows, job, ask, disk, cut>>

Resume(x) ==
    /\ Quiet /\ Tick("clicks")
    /\ Open(Owner(x)) /\ rows[x].present /\ rows[x].spec
    /\ rows[x].ok = "fail" \/ (rows[x].ok = "open" /\ rows[x].paused)
    /\ rows' = [rows EXCEPT ![x].ok = "open", ![x].paused = FALSE]
    /\ Send(Owner(x), Start(x))
    /\ CutBy(x[1], Owner(x), "offline")
    /\ UNCHANGED <<link, online, evts, tasks, jobs, disk>>

\* Mutant of Removable: rows in progress can be removed.
RemovableAny(x) == rows[x].present
\* Only rows with an outcome: a job would wait for ever on a row removed.
Removable(x) == rows[x].present /\ rows[x].ok # "open"
Remove(x) ==
    /\ Quiet /\ Tick("clicks")
    /\ Open(Owner(x)) /\ Removable(x)
    /\ rows' = [rows EXCEPT ![x] = NoRow]
    /\ UNCHANGED <<link, online, cmds, evts, tasks, jobs, disk, cut>>

\* The channels of a worker that is replaced are dropped, its tasks unseen.
Outstanding(x) ==
    \/ \E k \in DOMAIN cmds[Owner(x)] : cmds[Owner(x)][k] = Start(x)
    \/ \E t \in tasks : t.x = x /\ ~t.old
    \/ \E k \in DOMAIN evts[Owner(x)] : evts[Owner(x)][k] \in
           [ev : {"done"}, x : {x}, ok : BOOLEAN]
Drop(s) ==
    /\ cmds' = [cmds EXCEPT ![s] = <<>>]
    /\ tasks' = {[t EXCEPT !.old = @ \/ Owner(t.x) = s] : t \in tasks}

\* Closing a tab drops it with its rows.
Close(s) ==
    /\ Quiet /\ Tick("closes")
    /\ Open(s)
    /\ link' = [link EXCEPT ![s] = "closed"]
    /\ rows' = [x \in Xfer |-> IF Owner(x) = s THEN NoRow ELSE rows[x]]
    /\ evts' = [evts EXCEPT ![s] = <<>>]
    /\ Drop(s)
    /\ UNCHANGED <<online, jobs, disk, cut>>

\* reconnect_session, by itself or by a click; the new worker connects.
Reconnect(s) ==
    /\ Quiet /\ link[s] = "down" /\ ~online[s]
    /\ link' = [link EXCEPT ![s] = "up"]
    /\ evts' = [evts EXCEPT ![s] = <<[ev |-> "connected"]>>]
    /\ Drop(s)
    /\ cut' = [p \in Paste |->
                 IF Waiting(p) /\ Owner(Follows(p)) = s /\ ~rows[Follows(p)].paused
                 THEN "replaced" ELSE cut[p]]
    /\ UNCHANGED <<online, rows, jobs, disk, bound>>

----------------------------------------------------------------------------
(* drain_events *)

Resent(s) == {x \in Xfer : Owner(x) = s /\ rows[x].paused /\ rows[x].spec}
Orders(S) == {q \in [1 .. Cardinality(S) -> S] : \A i, j \in DOMAIN q : q[i] = q[j] => i = j}
OnConnected(s, e) ==
    /\ e.ev = "connected"
    /\ online' = [online EXCEPT ![s] = TRUE]
    /\ rows' = [x \in Xfer |-> IF x \in Resent(s) THEN [rows[x] EXCEPT !.paused = FALSE]
                              ELSE rows[x]]
    /\ \E q \in Orders({Start(x) : x \in Resent(s)}) :
         cmds' = IF link[s] = "up" THEN [cmds EXCEPT ![s] = @ \o q] ELSE cmds
    /\ cut' = [p \in Paste |-> IF link[s] # "up" /\ \E x \in Resent(s) : x[1] = p
                              THEN "offline" ELSE cut[p]]

\* Rows that can be resent wait for the connection, the others are left.
OnDisconnected(s, e) ==
    /\ e.ev = "disconnected"
    /\ online' = [online EXCEPT ![s] = FALSE]
    /\ rows' = [x \in Xfer |->
                  IF Owner(x) = s /\ rows[x].present /\ rows[x].spec /\ rows[x].ok # "ok"
                  THEN [rows[x] EXCEPT !.ok = "open", !.paused = TRUE] ELSE rows[x]]
    /\ UNCHANGED <<cmds, cut>>

OnStart(e) ==
    /\ e.ev = "start"
    /\ rows' = [rows EXCEPT ![e.x] = IF @.present THEN [@ EXCEPT !.queued = FALSE] ELSE Row]
    /\ UNCHANGED <<online, cmds, cut>>

\* An answer for which there is no row is dropped.
OnDone(e) ==
    /\ e.ev = "done"
    /\ LET r == rows[e.x]
           interrupted == ~e.ok /\ ~online[Owner(e.x)] /\ r.spec
       IN rows' = IF ~r.present THEN rows
                  ELSE [rows EXCEPT ![e.x] =
                          IF interrupted THEN [r EXCEPT !.paused = TRUE, !.queued = FALSE]
                          ELSE [r EXCEPT !.ok = IF e.ok THEN "ok" ELSE "fail",
                                         !.queued = FALSE]]
    /\ cut' = IF ~rows[e.x].present /\ Waiting(e.x[1]) /\ Follows(e.x[1]) = e.x
              THEN [cut EXCEPT ![e.x[1]] = "norow"] ELSE cut
    /\ UNCHANGED <<online, cmds>>

Drain(s) ==
    /\ evts[s] # <<>>
    /\ evts' = [evts EXCEPT ![s] = Tail(@)]
    /\ LET e == Head(evts[s]) IN
         OnConnected(s, e) \/ OnDisconnected(s, e) \/ OnStart(e) \/ OnDone(e)
    /\ UNCHANGED <<link, tasks, jobs, disk, bound>>

----------------------------------------------------------------------------
(* The workers and their tasks *)

Report(s, e) == evts' = [evts EXCEPT ![s] = Append(@, e)]
Done(x, ok) == [ev |-> "done", x |-> x, ok |-> ok]

Take(s) ==
    /\ link[s] = "up" /\ cmds[s] # <<>>
    /\ cmds' = [cmds EXCEPT ![s] = Tail(@)]
    /\ LET c == Head(cmds[s]) IN
         CASE c.op = "start" ->
                /\ tasks' = tasks \union {[x |-> c.x, st |-> "new", stop |-> FALSE, old |-> FALSE]}
                /\ UNCHANGED gone
           [] c.op = "cancel" ->
                /\ tasks' = {IF t.x = c.x /\ ~t.old THEN [t EXCEPT !.stop = TRUE] ELSE t : t \in tasks}
                /\ UNCHANGED gone
           [] OTHER ->
                /\ gone' = gone \union {s}
                /\ UNCHANGED tasks
    /\ UNCHANGED <<link, online, evts, rows, jobs, copies, tmp, cut, bound>>

\* The connection is lost, or the shell ends: the worker returns, which wakes
\* its tasks.
Lose(s) ==
    /\ s \in Remote /\ link[s] = "up" /\ Tick("drops")
    /\ link' = [link EXCEPT ![s] = "down"]
    /\ Report(s, [ev |-> "disconnected"])
    /\ cmds' = [cmds EXCEPT ![s] = <<>>]
    /\ tasks' = {IF Owner(t.x) = s THEN [t EXCEPT !.stop = TRUE] ELSE t : t \in tasks}
    /\ cut' = [p \in Paste |->
                 IF Follower(p, s) /\ \E k \in DOMAIN cmds[s] : cmds[s][k] = Start(Follows(p))
                 THEN "offline" ELSE cut[p]]
    /\ UNCHANGED <<online, rows, jobs, disk>>

\* Whether what the task reads is there, and what its success leaves.
IsRelay(p) == plan[p].kind = "relay"
FromTmp(x) == IsRelay(x[1]) /\ x[2] = "dst"
Readable(x) == IF FromTmp(x) THEN \E e \in Entries : <<x[1], e>> \in tmp
               ELSE plan[x[1]].src \notin gone
\* An upload sends the files of a directory: its links are neither files nor
\* directories and are passed over.  A download packs all, rsync sends all.
Uploads(x) == FromTmp(x) \/ (plan[x[1]].kind = "local" /\ plan[x[1]].src = Local)
Moved(x) == IF Uploads(x) THEN Entries \ {"link"} ELSE Entries
Stores(x) ==
    IF IsRelay(x[1]) /\ x[2] = "src"
    THEN tmp' = tmp \union ({x[1]} \X Moved(x)) /\ UNCHANGED copies
    ELSE /\ copies' = copies \union ({plan[x[1]].src} \X {plan[x[1]].dst} \X Moved(x))
         /\ UNCHANGED tmp

\* TransferStart comes when the size is known.
Announce(t) ==
    /\ t.st = "new" /\ ~t.old
    /\ tasks' = (tasks \ {t}) \union {[t EXCEPT !.st = "run"]}
    /\ Report(Owner(t.x), [ev |-> "start", x |-> t.x])
    /\ UNCHANGED <<link, online, cmds, rows, jobs, disk, cut, bound>>

Succeed(t) ==
    /\ t.st = "run" /\ Readable(t.x)
    /\ tasks' = tasks \ {t}
    /\ Stores(t.x)
    /\ IF t.old THEN UNCHANGED evts ELSE Report(Owner(t.x), Done(t.x, TRUE))
    /\ UNCHANGED <<link, online, cmds, rows, jobs, gone, cut, bound>>

\* Cancelled, woken, or failed: also before the start was announced, when no
\* SFTP channel can be opened.
Fail(t) ==
    /\ tasks' = tasks \ {t}
    /\ IF t.old THEN UNCHANGED evts ELSE Report(Owner(t.x), Done(t.x, FALSE))
    /\ UNCHANGED <<link, online, cmds, rows, jobs, disk, cut, bound>>

Work == \E t \in tasks : Announce(t) \/ Succeed(t) \/ Fail(t)

----------------------------------------------------------------------------

Next ==
    \/ \E p \in Paste :
         \/ \E pl \in Plans : PasteFile(p, pl)
         \/ AnswerFallback(p) \/ Advance(p)
    \/ \E pl \in Plans : RefuseDirect(pl)
    \/ \E x \in Xfer : Cancel(x) \/ Resume(x) \/ Remove(x)
    \/ \E s \in Tab : Close(s) \/ Reconnect(s) \/ Drain(s) \/ Take(s) \/ Lose(s)
    \/ Work

Spec == Init /\ [][Next]_vars

\* Frames are drawn, workers poll their channels, every request of a task has
\* a timeout; a tab that lost its connection gets it back.
FairSpec ==
    /\ Spec
    /\ \A s \in Tab : WF_vars(Drain(s)) /\ WF_vars(Take(s)) /\ WF_vars(Reconnect(s))
    /\ \A p \in Paste : WF_vars(Advance(p))
    /\ WF_vars(Work)

----------------------------------------------------------------------------
(* Properties *)

\* A directory that is cut is deleted only once a complete copy of it is at a
\* destination, whatever is lost, cancelled, retried or closed meanwhile
\* (transfers_relay.rs:205, "delete the source only after the upload").
CutKeepsCopy == \A s \in gone : \E d \in Tab : \A e \in Entries : <<s, d, e>> \in copies

\* A job that is over leaves no row in progress: neither the row that waited
\* for the download nor the mirror of a direct paste stays behind spinning.
NoRowLeft ==
    \A x \in Xfer :
      job[x[1]] = "ended" /\ plan[x[1]].kind # "local" /\ rows[x].present
        => rows[x].ok # "open"

\* The rows of a tab that can be resent are about to be interrupted.
Interrupts(s) == \E k \in DOMAIN evts[s] : evts[s][k].ev = "disconnected"

\* A job that waits for a row nobody will settle any more.
Orphan(p) ==
    /\ Waiting(p) /\ Step(p) = "wait"
    /\ ~rows[Follows(p)].paused /\ ~Outstanding(Follows(p))
    /\ rows[Follows(p)].spec => ~Interrupts(Owner(Follows(p)))

\* A job is orphaned only where its command was sent into a tab that was not
\* connected, the tab was connected again while its transfer was under way,
\* or the answer came before its row.
OrphansExplained == \A p \in Paste : Orphan(p) => cut[p] # "none"

\* Every paste comes to an end, apart from these.
JobEnds == \A p \in Paste : Waiting(p) ~> (job[p] = "ended" \/ cut[p] # "none")

-----------------------------------------------------------------------------
(* What comments of the code say and the code does not do *)

\* What transfer.rs:321 wants of the rows, "in progress rows cannot be removed,
\* it would leave their job polling an id that does not exist for ever".
NoOrphan == \A p \in Paste : ~Orphan(p)
=============================================================================
