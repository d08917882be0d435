---------------------------- MODULE XferSession ----------------------------
(***************************************************************************)
(* The life of file transfers in one session: the rows of the transfer    *)
(* window on the UI thread, the two channels to the session's worker, the  *)
(* worker's scheduler (slots, queue, cancel handles), the spawned transfer *)
(* tasks, and disconnection and reconnection, which replace the worker.    *)
(*                                                                         *)
(*   UI thread          app/file_actions.rs, app/windows/transfer.rs,      *)
(*                      app/session_events.rs, app/session.rs, app/frame.rs*)
(*   worker and tasks   ssh/mod.rs (run), ssh/xfer/mod.rs (start_xfer)     *)
(*                                                                         *)
(* One atomic step is one event drained, one click, one arm of the        *)
(* worker's select!, one iteration of its refill loop, or one observable   *)
(* step of a task.  What a transfer does to files is in Download/Upload.   *)
(***************************************************************************)
EXTENDS Naturals, Sequences, FiniteSets

CONSTANTS
    Specs,        \* what a transfer moves: XferSpec (source and destination)
    Policies,     \* conflict policies the user may have chosen
    Overwrite,    \* ConflictPolicy::Overwrite, the policy of every resend
    NoSpec,       \* Transfer.spec = None
    Slots,        \* names for the tokio tasks alive at one time
    MaxActive,    \* MAX_CONCURRENT_XFER (6 in the code)
    MaxTries,     \* MAX_TRIES of the automatic reconnection (5 in the code)
    EvtCap,       \* WORKER_EVT_CAP, capacity of the event channel (512)
    MaxXfer,      \* bound: transfers created
    MaxDrops,     \* bound: connections lost
    MaxManual,    \* bound: manual reconnections
    CmdCap        \* bound: commands a click may leave waiting

ASSUME ConstAssumption ==
    /\ MaxActive \in Nat \ {0}
    /\ MaxTries \in Nat
    /\ EvtCap \in Nat \ {0}
    /\ MaxXfer \in Nat
    /\ MaxDrops \in Nat
    /\ MaxManual \in Nat
    /\ CmdCap \in Nat
    /\ Overwrite \in Policies
    /\ NoSpec \notin Specs

ASSUME SlotsFinite == IsFiniteSet(Slots)

VARIABLES
    rows,     \* Session.transfers, by transfer id
    nextXfer, \* Session.next_xfer
    ui,       \* the connection state the UI thread keeps
    cmds,     \* UiCommand channel to the current worker (unbounded)
    evts,     \* WorkerEvent channel from the current worker (bounded)
    w,        \* the current worker: its loop, slots, queue, cancel handles
    tasks,    \* the spawned transfer tasks, of this worker and of former ones
    hist,     \* history, not in the code: what the user last asked of each id
    bound     \* the counters that bound the model

vars == <<rows, nextXfer, ui, cmds, evts, w, tasks, hist, bound>>

-----------------------------------------------------------------------------
(* Types *)

Id == 1..MaxXfer

Row == [present : BOOLEAN,          \* in the Vec
        spec    : Specs \cup {NoSpec},
        ok      : {"open", "ok", "fail"},   \* None, Some(true), Some(false)
        paused  : BOOLEAN]

Ui == [connected : BOOLEAN,
       was       : BOOLEAN,         \* was_connected
       exited    : BOOLEAN,         \* shell_exited
       tries     : 0..MaxTries,     \* reconnect_tries
       armed     : BOOLEAN,         \* reconnect_at is Some
       resuming  : BOOLEAN]         \* inside the resend loop of Connected

Cmd == [op : {"start"}, id : Id, pol : Policies] \cup [op : {"cancel"}, id : Id]

Evt == [ev : {"connected", "shellExited", "disconnected"}]
         \cup [ev : {"xferStart"}, id : Id]
         \cup [ev : {"xferDone"}, id : Id, ok : BOOLEAN]

Job == [id : Id, pol : Policies]    \* PendingXfer

Worker == [st      : {"connecting", "up", "closing", "dead"},
           refill  : BOOLEAN,       \* inside the while of the xfer_done arm
           active  : 0..MaxActive,  \* active_xfer
           pending : Seq(Job),      \* pending_xfer
           cancels : SUBSET Id,     \* keys of xfer_cancels
           doneQ   : Seq(Id)]       \* xfer_done channel

\* free: no task.  opening: spawned.  running: announced TransferStart.
\* reported: sent TransferDone, has yet to send its id on xfer_done.
\* stop: the stop signal has fired, or its sender was dropped (both wake
\* the select of start_xfer).  old: its worker was replaced.
Task == [st   : {"free", "opening", "running", "reported"},
         id   : Id \cup {0},
         pol  : Policies,
         stop : BOOLEAN,
         old  : BOOLEAN]

Hist == [spec      : Specs \cup {NoSpec},
         pol       : Policies,      \* the policy the user started it with
         cancelled : BOOLEAN,       \* cancelled and not started again since
         offline   : BOOLEAN,       \* last started by a click while offline
         finished  : BOOLEAN]       \* a successful end was shown once

TypeOK ==
    /\ rows \in [Id -> Row]
    /\ nextXfer \in 1..(MaxXfer + 1)
    /\ ui \in Ui
    /\ cmds \in Seq(Cmd)
    /\ evts \in Seq(Evt) /\ Len(evts) <= EvtCap
    /\ w \in Worker
    /\ tasks \in [Slots -> Task]
    /\ \A s \in Slots : tasks[s].st # "free" => tasks[s].id \in Id
    /\ hist \in [Id -> Hist]
    /\ bound \in [drops : 0..MaxDrops, manual : 0..MaxManual]

-----------------------------------------------------------------------------
(* Initial state: spawn_session has created the session and its worker *)

FreeTask == [st |-> "free", id |-> 0, pol |-> Overwrite,
             stop |-> FALSE, old |-> FALSE]

FreshWorker == [st |-> "connecting", refill |-> FALSE, active |-> 0,
                pending |-> <<>>, cancels |-> {}, doneQ |-> <<>>]

NoRow == [present |-> FALSE, spec |-> NoSpec, ok |-> "open", paused |-> FALSE]

Init ==
    /\ rows = [i \in Id |-> NoRow]
    /\ nextXfer = 1
    /\ ui = [connected |-> FALSE, was |-> FALSE, exited |-> FALSE,
             tries |-> 0, armed |-> FALSE, resuming |-> FALSE]
    /\ cmds = <<>>
    /\ evts = <<>>
    /\ w = FreshWorker
    /\ tasks = [s \in Slots |-> FreeTask]
    /\ hist = [i \in Id |-> [spec |-> NoSpec, pol |-> Overwrite, cancelled |-> FALSE,
                             offline |-> FALSE, finished |-> FALSE]]
    /\ bound = [drops |-> 0, manual |-> 0]

-----------------------------------------------------------------------------
(* Helpers *)

StartCmd(i, p) == [op |-> "start", id |-> i, pol |-> p]
CancelCmd(i)   == [op |-> "cancel", id |-> i]

\* UiSink::send: the bounded channel blocks its sender while it is full.
Send(e) == /\ Len(evts) < EvtCap
           /\ evts' = Append(evts, e)

Live(s)    == tasks[s].st # "free"
Current(s) == Live(s) /\ ~tasks[s].old
\* Holds a slot of the current worker: not yet counted out by xfer_done.
Busy == {s \in Slots : Current(s)}
Working(s) == tasks[s].st \in {"opening", "running"}

InProgress(i) == rows[i].present /\ rows[i].ok = "open" /\ ~rows[i].paused

\* Mutant of NoRowFor: a click is not deduplicated.
AnyRowFor(sp) == sp \in Specs

\* The dedup of FileAction: no row of this spec that did not succeed.
NoRowFor(sp) ==
    \A i \in Id : rows[i].present /\ rows[i].spec = sp => rows[i].ok = "ok"

\* A click that sends a start command: file_actions.rs and transfer.rs all
\* set ok = None, paused = false and send, connected or not.
ClickStart(i, p, userPol) ==
    /\ rows' = [rows EXCEPT ![i].ok = "open", ![i].paused = FALSE]
    /\ cmds' = Append(cmds, StartCmd(i, p))
    /\ hist' = [hist EXCEPT ![i].pol = userPol,
                            ![i].cancelled = FALSE,
                            ![i].offline = ~ui.connected]

-----------------------------------------------------------------------------
(* UI thread: clicks.  The UI is busy while it drains the resend loop. *)

ClickReady == ~ui.resuming /\ Len(cmds) < CmdCap

\* FileAction::Download / Upload, no row for this spec to reuse.
StartNew(sp, p) ==
    /\ ClickReady
    /\ nextXfer <= MaxXfer
    /\ NoRowFor(sp)
    /\ nextXfer' = nextXfer + 1
    /\ rows' = [rows EXCEPT ![nextXfer] =
                  [present |-> TRUE, spec |-> sp, ok |-> "open", paused |-> FALSE]]
    /\ cmds' = Append(cmds, StartCmd(nextXfer, p))
    /\ hist' = [hist EXCEPT ![nextXfer] =
                  [spec |-> sp, pol |-> p, cancelled |-> FALSE,
                   offline |-> ~ui.connected, finished |-> FALSE]]
    /\ UNCHANGED <<ui, evts, w, tasks, bound>>

\* Mutant of MayRestart: a transfer in progress is started again.
MayRestartAny(i) == rows[i].present

\* A row in progress is left alone ("already downloading").
MayRestart(i) == ~InProgress(i)

\* FileAction::Download / Upload, the first row of this spec that did not
\* succeed is reused unless it is in progress (then nothing happens).
StartAgain(sp, p) ==
    /\ ClickReady
    /\ \E i \in Id :
         /\ rows[i].present /\ rows[i].spec = sp /\ rows[i].ok # "ok"
         /\ \A j \in 1..(i - 1) :
              rows[j].present /\ rows[j].spec = sp => rows[j].ok = "ok"
         /\ MayRestart(i)
         /\ ClickStart(i, p, p)
    /\ UNCHANGED <<nextXfer, ui, evts, w, tasks, bound>>

\* The retry / resume button of a failed or paused row.
Resume(i) ==
    /\ ClickReady
    /\ rows[i].present /\ rows[i].spec # NoSpec
    /\ \/ rows[i].ok = "fail"
       \/ rows[i].ok = "open" /\ rows[i].paused
    /\ ClickStart(i, Overwrite, hist[i].pol)
    /\ UNCHANGED <<nextXfer, ui, evts, w, tasks, bound>>

\* Cancel, and each row of "cancel all": sent for every unfinished row.
Cancel(i) ==
    /\ ClickReady
    /\ rows[i].present /\ rows[i].ok = "open"
    /\ cmds' = Append(cmds, CancelCmd(i))
    /\ hist' = [hist EXCEPT ![i].cancelled = TRUE]
    /\ UNCHANGED <<rows, nextXfer, ui, evts, w, tasks, bound>>

\* Mutant of Removable: a row in progress can be removed.
RemovableAny(i) == rows[i].present

Removable(i) == rows[i].present /\ rows[i].ok # "open"

\* "Remove from list", "clear done": only rows with an outcome.
Remove(i) ==
    /\ ~ui.resuming
    /\ Removable(i)
    /\ rows' = [rows EXCEPT ![i] = NoRow]
    /\ UNCHANGED <<nextXfer, ui, cmds, evts, w, tasks, hist, bound>>

-----------------------------------------------------------------------------
(* UI thread: drain_events *)

NextEvt(kind) == ~ui.resuming /\ evts # <<>> /\ Head(evts).ev = kind

OnConnected ==
    /\ NextEvt("connected")
    /\ evts' = Tail(evts)
    /\ ui' = [ui EXCEPT !.connected = TRUE, !.was = TRUE, !.tries = 0,
                        !.armed = FALSE, !.exited = FALSE, !.resuming = TRUE]
    /\ UNCHANGED <<rows, nextXfer, cmds, w, tasks, hist, bound>>

\* The loop of the Connected arm over self.transfers: every paused row that
\* can be resent is, with the Overwrite policy; its outcome is not looked at.
Resendable(i) == rows[i].present /\ rows[i].paused /\ rows[i].spec # NoSpec

ResendPaused ==
    /\ ui.resuming
    /\ \E i \in Id :
         /\ Resendable(i)
         /\ \A j \in 1..(i - 1) : ~Resendable(j)
         /\ rows' = [rows EXCEPT ![i].paused = FALSE]
         /\ cmds' = Append(cmds, StartCmd(i, Overwrite))
         /\ hist' = [hist EXCEPT ![i].offline = FALSE]
    /\ UNCHANGED <<nextXfer, ui, evts, w, tasks, bound>>

ResendEnd ==
    /\ ui.resuming
    /\ \A i \in Id : ~Resendable(i)
    /\ ui' = [ui EXCEPT !.resuming = FALSE]
    /\ UNCHANGED <<rows, nextXfer, cmds, evts, w, tasks, hist, bound>>

OnShellExited ==
    /\ NextEvt("shellExited")
    /\ evts' = Tail(evts)
    /\ ui' = [ui EXCEPT !.exited = TRUE]
    /\ UNCHANGED <<rows, nextXfer, cmds, w, tasks, hist, bound>>

\* TransferStart: the row is known, or a row without a spec is pushed.
OnXferStart ==
    /\ NextEvt("xferStart")
    /\ evts' = Tail(evts)
    /\ LET i == Head(evts).id IN
         rows' = IF rows[i].present THEN rows
                 ELSE [rows EXCEPT ![i] = [NoRow EXCEPT !.present = TRUE]]
    /\ UNCHANGED <<nextXfer, ui, cmds, w, tasks, hist, bound>>

\* TransferDone: a failure seen while disconnected is an interruption.
OnXferDone ==
    /\ NextEvt("xferDone")
    /\ evts' = Tail(evts)
    /\ LET i == Head(evts).id
           ok == Head(evts).ok
       IN /\ rows' = IF ~rows[i].present THEN rows
                     ELSE IF ~ok /\ ~ui.connected /\ rows[i].spec # NoSpec
                     THEN [rows EXCEPT ![i].paused = TRUE]
                     ELSE [rows EXCEPT ![i].ok = IF ok THEN "ok" ELSE "fail"]
          /\ hist' = [hist EXCEPT ![i].finished = @ \/ ok]
    /\ UNCHANGED <<nextXfer, ui, cmds, w, tasks, bound>>

\* Mutants of AutoReconnect: the tries are not counted; one try only.
AutoReconnectEver == ui.was /\ ~ui.exited
AutoReconnectOnce == ui.was /\ ~ui.exited /\ ui.tries = 0

\* should_auto_reconnect, for a remote session.
AutoReconnect == ui.was /\ ~ui.exited /\ ui.tries < MaxTries

\* Mutant of Interrupted: only rows whose failure was reported are paused.
InterruptedFailed(r) == r.present /\ r.spec # NoSpec /\ r.ok = "fail"

\* apply_disconnected: the rows it pauses, those without a success.
Interrupted(r) == r.present /\ r.spec # NoSpec /\ r.ok # "ok"

OnDisconnected ==
    /\ NextEvt("disconnected")
    /\ evts' = Tail(evts)
    /\ ui' = [ui EXCEPT !.connected = FALSE, !.armed = @ \/ AutoReconnect]
    /\ rows' = [i \in Id |->
                  IF Interrupted(rows[i])
                  THEN [rows[i] EXCEPT !.ok = "open", !.paused = TRUE]
                  ELSE rows[i]]
    /\ UNCHANGED <<nextXfer, cmds, w, tasks, hist, bound>>

-----------------------------------------------------------------------------
(* UI thread: reconnect_session drops both channels of the old worker and *)
(* spawns a new one; tasks of the old worker run on, unseen.              *)

ReplaceWorker ==
    /\ cmds' = <<>>
    /\ evts' = <<>>
    /\ w' = FreshWorker
    /\ tasks' = [s \in Slots |->
                   IF Live(s) THEN [tasks[s] EXCEPT !.old = TRUE] ELSE tasks[s]]

\* frame.rs: a reconnection that is due.
ReconnectDue ==
    /\ ~ui.resuming /\ ui.armed
    /\ ui' = [ui EXCEPT !.tries = @ + 1, !.connected = FALSE,
                        !.armed = FALSE, !.exited = FALSE]
    /\ ReplaceWorker
    /\ UNCHANGED <<rows, nextXfer, hist, bound>>

\* layout_body.rs: the Reconnect button of the "disconnected" bar.
ReconnectClick ==
    /\ ~ui.resuming /\ ~ui.connected
    /\ bound.manual < MaxManual
    /\ bound' = [bound EXCEPT !.manual = @ + 1]
    /\ ui' = [ui EXCEPT !.tries = 0, !.connected = FALSE,
                        !.armed = FALSE, !.exited = FALSE]
    /\ ReplaceWorker
    /\ UNCHANGED <<rows, nextXfer, hist>>

-----------------------------------------------------------------------------
(* Worker *)

WConnect ==
    /\ w.st = "connecting"
    /\ Send([ev |-> "connected"])
    /\ w' = [w EXCEPT !.st = "up"]
    /\ UNCHANGED <<rows, nextXfer, ui, cmds, tasks, hist, bound>>

\* connect() or open_shell() failed: report and return.
WConnectFail ==
    /\ w.st = "connecting"
    /\ Send([ev |-> "disconnected"])
    /\ w' = [w EXCEPT !.st = "dead"]
    /\ UNCHANGED <<rows, nextXfer, ui, cmds, tasks, hist, bound>>

Selecting == w.st = "up" /\ ~w.refill

\* start_xfer: register the cancel handle under the id, spawn the task.  The
\* handle of an earlier task of the id is dropped, which wakes that task.
StartXfer(job) ==
    \E s \in Slots :
      /\ ~Live(s)
      /\ tasks' = [t \in Slots |->
           IF t = s
           THEN [st |-> "opening", id |-> job.id, pol |-> job.pol,
                 stop |-> FALSE, old |-> FALSE]
           ELSE IF Current(t) /\ tasks[t].id = job.id
           THEN [tasks[t] EXCEPT !.stop = TRUE]
           ELSE tasks[t]]

HasSlot == w.active < MaxActive

\* UiCommand::Download / Upload: start at once, or queue when all slots are taken.
WStart ==
    /\ Selecting
    /\ cmds # <<>> /\ Head(cmds).op = "start"
    /\ cmds' = Tail(cmds)
    /\ LET job == [id |-> Head(cmds).id, pol |-> Head(cmds).pol] IN
         \/ /\ HasSlot
            /\ StartXfer(job)
            /\ w' = [w EXCEPT !.active = @ + 1, !.cancels = @ \cup {job.id}]
         \/ /\ ~HasSlot
            /\ w' = [w EXCEPT !.pending = Append(@, job)]
            /\ UNCHANGED tasks
    /\ UNCHANGED <<rows, nextXfer, ui, evts, hist, bound>>

\* The first queued job of an id, as position() finds it.
QueuedAt(i, k) ==
    /\ k \in 1..Len(w.pending) /\ w.pending[k].id = i
    /\ \A j \in 1..(k - 1) : w.pending[j].id # i

Without(q, k) == SubSeq(q, 1, k - 1) \o SubSeq(q, k + 1, Len(q))

\* UiCommand::CancelTransfer: signal the task whose handle is registered;
\* else remove the queued job and report it; else nothing.
WCancel ==
    /\ Selecting
    /\ cmds # <<>> /\ Head(cmds).op = "cancel"
    /\ cmds' = Tail(cmds)
    /\ LET i == Head(cmds).id IN
         \/ /\ i \in w.cancels
            /\ tasks' = [s \in Slots |->
                           IF Current(s) /\ tasks[s].id = i
                           THEN [tasks[s] EXCEPT !.stop = TRUE] ELSE tasks[s]]
            /\ UNCHANGED <<w, evts>>
         \/ /\ i \notin w.cancels
            /\ \E k \in 1..Len(w.pending) :
                 /\ QueuedAt(i, k)
                 /\ w' = [w EXCEPT !.pending = Without(@, k)]
            /\ Send([ev |-> "xferDone", id |-> i, ok |-> FALSE])
            /\ UNCHANGED tasks
         \/ /\ i \notin w.cancels
            /\ \A k \in 1..Len(w.pending) : w.pending[k].id # i
            /\ UNCHANGED <<w, evts, tasks>>
    /\ UNCHANGED <<rows, nextXfer, ui, hist, bound>>

\* Mutant of Released: the slot is not given back.
Kept(n) == n

\* saturating_sub(1)
Released(n) == IF n = 0 THEN 0 ELSE n - 1

\* The xfer_done arm: forget the handle registered under the id (whoever
\* registered it: dropping it wakes that task), give the slot back, refill.
WDone ==
    /\ Selecting
    /\ w.doneQ # <<>>
    /\ LET i == Head(w.doneQ) IN
         /\ w' = [w EXCEPT !.doneQ = Tail(@),
                           !.cancels = @ \ {i},
                           !.active = Released(@),
                           !.refill = TRUE]
         /\ tasks' = [s \in Slots |->
                        IF Current(s) /\ tasks[s].id = i
                        THEN [tasks[s] EXCEPT !.stop = TRUE] ELSE tasks[s]]
    /\ UNCHANGED <<rows, nextXfer, ui, cmds, evts, hist, bound>>

\* Mutant of CanRefill: a freed slot stays empty.
CannotRefill == w.active > MaxActive /\ w.pending # <<>>

CanRefill == w.active < MaxActive /\ w.pending # <<>>

WRefill ==
    /\ w.st = "up" /\ w.refill
    /\ CanRefill
    /\ LET job == Head(w.pending) IN
         /\ StartXfer(job)
         /\ w' = [w EXCEPT !.active = @ + 1, !.pending = Tail(@),
                           !.cancels = @ \cup {job.id}]
    /\ UNCHANGED <<rows, nextXfer, ui, cmds, evts, hist, bound>>

WRefillEnd ==
    /\ w.st = "up" /\ w.refill
    /\ ~CanRefill
    /\ w' = [w EXCEPT !.refill = FALSE]
    /\ UNCHANGED <<rows, nextXfer, ui, cmds, evts, tasks, hist, bound>>

\* ExitStatus: the shell exited, the channel closes next.
WShellExit ==
    /\ Selecting
    /\ bound.drops < MaxDrops
    /\ Send([ev |-> "shellExited"])
    /\ bound' = [bound EXCEPT !.drops = @ + 1]
    /\ UNCHANGED <<rows, nextXfer, ui, cmds, w, tasks, hist>>

\* Eof, Close or a failed write: report, leave the loop, clean up.
WLost ==
    /\ Selecting
    /\ bound.drops < MaxDrops
    /\ Send([ev |-> "disconnected"])
    /\ bound' = [bound EXCEPT !.drops = @ + 1]
    /\ w' = [w EXCEPT !.st = "closing"]
    /\ UNCHANGED <<rows, nextXfer, ui, cmds, tasks, hist>>

\* run() returns: queue, handles and channels are dropped, tasks are woken.
WReturn ==
    /\ w.st = "closing"
    /\ w' = [FreshWorker EXCEPT !.st = "dead"]
    /\ tasks' = [s \in Slots |->
                   IF Current(s) THEN [tasks[s] EXCEPT !.stop = TRUE] ELSE tasks[s]]
    /\ UNCHANGED <<rows, nextXfer, ui, cmds, evts, hist, bound>>

-----------------------------------------------------------------------------
(* Tasks *)

TaskAnnounce(s) ==
    /\ Current(s) /\ tasks[s].st = "opening"
    /\ Send([ev |-> "xferStart", id |-> tasks[s].id])
    /\ tasks' = [tasks EXCEPT ![s].st = "running"]
    /\ UNCHANGED <<rows, nextXfer, ui, cmds, w, hist, bound>>

\* The transfer itself ends: succeeds once announced, or fails.
TaskFinish(s) ==
    /\ Current(s) /\ Working(s)
    /\ \E ok \in BOOLEAN :
         /\ ok => tasks[s].st = "running"
         /\ Send([ev |-> "xferDone", id |-> tasks[s].id, ok |-> ok])
    /\ tasks' = [tasks EXCEPT ![s].st = "reported"]
    /\ UNCHANGED <<rows, nextXfer, ui, cmds, w, hist, bound>>

\* The select's other arm: stopped, reported as canceled.
TaskStop(s) ==
    /\ Current(s) /\ Working(s) /\ tasks[s].stop
    /\ Send([ev |-> "xferDone", id |-> tasks[s].id, ok |-> FALSE])
    /\ tasks' = [tasks EXCEPT ![s].st = "reported"]
    /\ UNCHANGED <<rows, nextXfer, ui, cmds, w, hist, bound>>

\* dtx.send(id): heard only while run() has not returned.
TaskExit(s) ==
    /\ Current(s) /\ tasks[s].st = "reported"
    /\ tasks' = [tasks EXCEPT ![s] = FreeTask]
    /\ w' = IF w.st = "dead" THEN w
            ELSE [w EXCEPT !.doneQ = Append(@, tasks[s].id)]
    /\ UNCHANGED <<rows, nextXfer, ui, cmds, evts, hist, bound>>

\* A task of a replaced worker ends; nobody listens to it.
OldTaskExit(s) ==
    /\ Live(s) /\ tasks[s].old
    /\ tasks' = [tasks EXCEPT ![s] = FreeTask]
    /\ UNCHANGED <<rows, nextXfer, ui, cmds, evts, w, hist, bound>>

-----------------------------------------------------------------------------

Click ==
    \/ \E sp \in Specs, p \in Policies : StartNew(sp, p) \/ StartAgain(sp, p)
    \/ \E i \in Id : Resume(i) \/ Cancel(i) \/ Remove(i)
    \/ ReconnectClick

Drain ==
    \/ OnConnected \/ OnShellExited \/ OnXferStart \/ OnXferDone
    \/ OnDisconnected

UiStep == Drain \/ ResendPaused \/ ResendEnd \/ ReconnectDue

WLoop == WStart \/ WCancel \/ WDone \/ WRefill \/ WRefillEnd

TaskStep(s) ==
    \/ TaskAnnounce(s) \/ TaskFinish(s) \/ TaskStop(s) \/ TaskExit(s)
    \/ OldTaskExit(s)

Next ==
    \/ Click \/ UiStep
    \/ WConnect \/ WConnectFail \/ WLoop \/ WShellExit \/ WLost \/ WReturn
    \/ \E s \in Slots : TaskStep(s)

Spec == Init /\ [][Next]_vars

\* The UI draws frames; tokio polls ready tasks; select! polls its arms in
\* random order, so a ready arm is not passed over for ever; every SFTP
\* request has a timeout, so a transfer ends; a connection attempt times out.
Fairness ==
    /\ WF_vars(Drain) /\ WF_vars(ResendPaused \/ ResendEnd)
    /\ WF_vars(ReconnectDue)
    /\ WF_vars(WConnect \/ WConnectFail)
    /\ WF_vars(WStart \/ WCancel) /\ WF_vars(WDone)
    /\ WF_vars(WRefill \/ WRefillEnd) /\ WF_vars(WReturn)
    /\ \A s \in Slots : WF_vars(TaskStep(s))

FairSpec == Spec /\ Fairness

-----------------------------------------------------------------------------
(* Safety *)

\* The slot counter of the worker's loop counts the tasks that have not yet
\* sent their id on xfer_done plus the ids waiting there, so saturating_sub
\* never saturates and no slot leaks or is given back twice.
SlotAccounting ==
    w.st # "dead" => w.active = Cardinality(Busy) + Len(w.doneQ)

\* No more than MAX_CONCURRENT_XFER transfers of a session's worker run at once.
ConcurrencyBound == Cardinality({s \in Busy : Working(s)}) <= MaxActive

\* The worker never waits in its select! with a transfer queued and a slot
\* free: every path that frees a slot refills from the queue.
QueueOnlyWhenFull ==
    w.st = "up" /\ ~w.refill /\ w.pending # <<>> => w.active = MaxActive

\* Where the current attempt of transfer i is: a start command in the channel,
\* a queued job, a task that has not reported, or a report not yet drained.
Outstanding(i) ==
    Cardinality({k \in 1..Len(cmds) : cmds[k].op = "start" /\ cmds[k].id = i})
      + Cardinality({k \in 1..Len(w.pending) : w.pending[k].id = i})
      + Cardinality({s \in Busy : Working(s) /\ tasks[s].id = i})
      + Cardinality({k \in 1..Len(evts) : evts[k].ev = "xferDone" /\ evts[k].id = i})

\* A transfer never has two attempts under way in one worker: retry, resume,
\* re-download and the resend on Connected never start a second one (they
\* would both write the same partial file and both settle the same row).
AtMostOneAttempt ==
    w.st \in {"connecting", "up"} => \A i \in Id : Outstanding(i) <= 1

\* A row shown in progress, with the worker up.
Waiting(i) == ui.connected /\ ~ui.resuming /\ w.st = "up"
                 /\ InProgress(i) /\ rows[i].spec # NoSpec

\* A row shown in progress has an attempt under way that will settle it,
\* unless the user started it while the session showed "disconnected".
StrandedOnlyOffline ==
    \A i \in Id : Waiting(i) /\ ~hist[i].offline => Outstanding(i) = 1

\* Two tasks of the worker never move the same source to the same destination
\* (the dedup of FileAction::Download/Upload), unless one of them belongs to a
\* transfer that had already completed and was resent.
OneWriterPerTarget ==
    \A s, t \in Busy :
      /\ s # t /\ Working(s) /\ Working(t)
      /\ hist[tasks[s].id].spec = hist[tasks[t].id].spec
      => hist[tasks[s].id].finished \/ hist[tasks[t].id].finished

\* TransferStart pushes a row nobody can retry only for a transfer that had
\* completed and was resent: a removed row never comes back otherwise.
NoGhostRow ==
    \A i \in Id : rows[i].present /\ rows[i].spec = NoSpec => hist[i].finished

\* Automatic reconnection: it is due only with a try left, and reconnect_tries
\* never passes MAX_TRIES although the due reconnection does not check it.
TriesBounded == ui.armed => ui.tries < MaxTries

-----------------------------------------------------------------------------
(* Liveness *)

\* Every row in progress ends or is interrupted (unless started while offline).
Settles ==
    \A i \in Id :
      (InProgress(i) /\ rows[i].spec # NoSpec)
        ~> (~InProgress(i) \/ hist[i].offline)

\* A session that was connected and dropped, not by exit, is connected again
\* or has used up its tries: reconnection never silently stops in between.
ReconnectsOrGivesUp ==
    (ui.was /\ ~ui.connected /\ ~ui.exited)
      ~> (ui.connected \/ ui.exited \/ ui.tries = MaxTries)

-----------------------------------------------------------------------------
(* What comments of the code say and the code does not do *)

\* session_events.rs:99, "transfers interrupted before the disconnection are
\* resent": a transfer that completed is not.
FinishedNotResent ==
    [][\A i \in Id : ResendPaused /\ rows'[i] # rows[i] => rows[i].ok # "ok"]_vars

\* README, "auto-resume after reconnect": a row in progress is not stranded.
NoneStranded == \A i \in Id : Waiting(i) => Outstanding(i) = 1

\* ssh/xfer/mod.rs:171, a task is stopped "when it is canceled": while the
\* worker runs, a task is only stopped after the user canceled its transfer.
StopOnlyOnCancel ==
    w.st = "up" =>
      \A s \in Busy : Working(s) /\ tasks[s].stop => hist[tasks[s].id].cancelled

\* proto.rs:80, Skip "does not transfer if the target exists": every attempt
\* of a transfer runs with the policy the user started it with.
PolicyKept ==
    \A s \in Busy : Working(s) => tasks[s].pol = hist[tasks[s].id].pol
=============================================================================
