------------------------- MODULE XferSessionProofs -------------------------
(***************************************************************************)
(* Proofs about XferSession, for every value of its constants.             *)
(***************************************************************************)
EXTENDS XferSession, FiniteSetTheorems, TLAPS

LEMMA ClickHistType ==
  ASSUME hist \in [Id -> Hist], ui \in Ui,
         NEW i \in Id, NEW p \in Policies, NEW u \in Policies,
         ClickStart(i, p, u)
  PROVE  hist' \in [Id -> Hist]
<1>1. ui.connected \in BOOLEAN
  BY DEF Ui
<1>2. hist' = [hist EXCEPT ![i].pol = u, ![i].cancelled = FALSE,
                           ![i].offline = ~ui.connected]
  BY DEF ClickStart
<1> DEFINE h == [hist[i] EXCEPT !.pol = u, !.cancelled = FALSE,
                                !.offline = ~ui.connected]
<1>3. hist[i] \in Hist
  OBVIOUS
<1>4. h \in Hist
  <2>1. (~ui.connected) \in BOOLEAN
    BY <1>1
  <2> QED BY <1>3, <2>1 DEF Hist
<1>5. hist' = [hist EXCEPT ![i] = h]
  BY <1>2
<1> HIDE DEF h
<1> QED BY <1>4, <1>5

USE ConstAssumption

-----------------------------------------------------------------------------
(* Type correctness.  TriesBounded is what makes it inductive: a due       *)
(* reconnection increments reconnect_tries without looking at MAX_TRIES.   *)

TypeInv == TypeOK /\ TriesBounded

TasksOK == /\ tasks \in [Slots -> Task]
           /\ \A s \in Slots : tasks[s].st # "free" => tasks[s].id \in Id
EvtsOK  == evts \in Seq(Evt) /\ Len(evts) <= EvtCap

LEMMA TypeInvParts ==
  ASSUME TypeInv
  PROVE  /\ rows \in [Id -> Row]
         /\ nextXfer \in 1..(MaxXfer + 1)
         /\ ui \in Ui
         /\ ui.armed => ui.tries < MaxTries
         /\ cmds \in Seq(Cmd)
         /\ EvtsOK
         /\ w \in Worker
         /\ TasksOK
         /\ hist \in [Id -> Hist]
         /\ bound \in [drops : 0..MaxDrops, manual : 0..MaxManual]
  BY DEF TypeInv, TypeOK, TriesBounded, TasksOK, EvtsOK

LEMMA TypeInvNext ==
  ASSUME rows' \in [Id -> Row],
         nextXfer' \in 1..(MaxXfer + 1),
         ui' \in Ui,
         ui'.armed => ui'.tries < MaxTries,
         cmds' \in Seq(Cmd),
         EvtsOK',
         w' \in Worker,
         TasksOK',
         hist' \in [Id -> Hist],
         bound' \in [drops : 0..MaxDrops, manual : 0..MaxManual]
  PROVE  TypeInv'
  BY DEF TypeInv, TypeOK, TriesBounded, TasksOK, EvtsOK

LEMMA TypeInit == Init => TypeInv
  BY DEF Init, TypeInv, TypeOK, TriesBounded, Id, Row, Ui, Cmd, Evt, Worker,
         Job, Task, Hist, FreeTask, FreshWorker, NoRow

LEMMA HeadTail ==
  ASSUME NEW S, NEW q \in Seq(S), q # <<>>
  PROVE  /\ Head(q) \in S
         /\ Tail(q) \in Seq(S)
         /\ Len(Tail(q)) = Len(q) - 1
  OBVIOUS

LEMMA SendType ==
  ASSUME EvtsOK, NEW e \in Evt, Send(e)
  PROVE  EvtsOK'
  BY DEF EvtsOK, Send

LEMMA DrainType ==
  ASSUME EvtsOK, evts # <<>>, evts' = Tail(evts)
  PROVE  Head(evts) \in Evt /\ EvtsOK'
<1>1. /\ Head(evts) \in Evt
      /\ Tail(evts) \in Seq(Evt)
      /\ Len(Tail(evts)) = Len(evts) - 1
  BY HeadTail DEF EvtsOK
<1> QED BY <1>1 DEF EvtsOK

\* Waking tasks, whichever they are, keeps the table well typed.
LEMMA WakeType ==
  ASSUME TasksOK, NEW woken \in SUBSET Slots,
         tasks' = [s \in Slots |-> IF s \in woken
                                   THEN [tasks[s] EXCEPT !.stop = TRUE]
                                   ELSE tasks[s]]
  PROVE  TasksOK'
<1>1. \A s \in Slots : /\ tasks[s] \in Task
                        /\ [tasks[s] EXCEPT !.stop = TRUE] \in Task
                        /\ [tasks[s] EXCEPT !.stop = TRUE].st = tasks[s].st
                        /\ [tasks[s] EXCEPT !.stop = TRUE].id = tasks[s].id
  BY DEF TasksOK, Task
<1>2. tasks' \in [Slots -> Task]
  BY <1>1
<1>3. \A s \in Slots : tasks'[s].st # "free" => tasks'[s].id \in Id
  BY <1>1 DEF TasksOK
<1> QED BY <1>2, <1>3 DEF TasksOK

LEMMA StartXferType ==
  ASSUME TasksOK, NEW job \in Job, StartXfer(job)
  PROVE  TasksOK'
<1> DEFINE new == [st |-> "opening", id |-> job.id, pol |-> job.pol,
                   stop |-> FALSE, old |-> FALSE]
<1>1. new \in Task /\ new.id \in Id
  BY DEF Task, Job
<1>2. \A t \in Slots : [tasks[t] EXCEPT !.stop = TRUE] \in Task
                         /\ [tasks[t] EXCEPT !.stop = TRUE].st = tasks[t].st
                         /\ [tasks[t] EXCEPT !.stop = TRUE].id = tasks[t].id
  BY DEF TasksOK, Task
<1>3. PICK s \in Slots : tasks' = [t \in Slots |->
             IF t = s THEN new
             ELSE IF Current(t) /\ tasks[t].id = job.id
             THEN [tasks[t] EXCEPT !.stop = TRUE]
             ELSE tasks[t]]
  BY DEF StartXfer
<1> HIDE DEF new
<1>4. \A t \in Slots : tasks[t] \in Task
  BY DEF TasksOK
<1>5. tasks' \in [Slots -> Task]
  BY <1>1, <1>2, <1>3, <1>4
<1>6. \A t \in Slots : tasks'[t].st # "free" => tasks'[t].id \in Id
  BY <1>1, <1>2, <1>3 DEF TasksOK
<1> QED BY <1>5, <1>6 DEF TasksOK

LEMMA ReplaceWorkerType ==
  ASSUME TasksOK, ReplaceWorker
  PROVE  cmds' \in Seq(Cmd) /\ EvtsOK' /\ w' \in Worker /\ TasksOK'
<1>1. w' \in Worker
  <2>1. 0 \in 0..MaxActive
    OBVIOUS
  <2> QED BY <2>1 DEF ReplaceWorker, FreshWorker, Worker
<1>2. \A s \in Slots : tasks'[s] \in Task /\ tasks'[s].st = tasks[s].st
                         /\ tasks'[s].id = tasks[s].id
  BY DEF ReplaceWorker, TasksOK, Task
<1>3. TasksOK'
  BY <1>2 DEF ReplaceWorker, TasksOK
<1>4. EvtsOK'
  BY DEF ReplaceWorker, EvtsOK
<1> QED BY <1>1, <1>3, <1>4 DEF ReplaceWorker

\* One click.
LEMMA ClickType ==
  ASSUME TypeInv, Click
  PROVE  TypeInv'
<1>0. /\ rows \in [Id -> Row]
      /\ ui \in Ui /\ ui.connected \in BOOLEAN
      /\ cmds \in Seq(Cmd)
      /\ TasksOK
      /\ hist \in [Id -> Hist]
  BY TypeInvParts DEF Ui
<1>1. ASSUME NEW sp \in Specs, NEW p \in Policies, StartNew(sp, p)
      PROVE  TypeInv'
  <2>1. nextXfer \in Id /\ nextXfer' \in 1..(MaxXfer + 1)
    BY <1>1, TypeInvParts DEF StartNew, Id
  <2>2. rows' \in [Id -> Row]
    <3>1. [present |-> TRUE, spec |-> sp, ok |-> "open", paused |-> FALSE] \in Row
      BY DEF Row
    <3> QED BY <1>0, <1>1, <2>1, <3>1 DEF StartNew
  <2>3. hist' \in [Id -> Hist]
    <3>1. [spec |-> sp, pol |-> p, cancelled |-> FALSE,
           offline |-> ~ui.connected, finished |-> FALSE] \in Hist
      BY <1>0 DEF Hist
    <3> QED BY <1>0, <1>1, <2>1, <3>1 DEF StartNew
  <2>4. StartCmd(nextXfer, p) \in Cmd
    BY <2>1 DEF StartCmd, Cmd
  <2>5. cmds' \in Seq(Cmd)
    BY <1>0, <1>1, <2>4 DEF StartNew
  <2>6. UNCHANGED <<ui, evts, w, tasks, bound>>
    BY <1>1 DEF StartNew
  <2> QED BY <2>1, <2>2, <2>3, <2>5, <2>6, TypeInvParts, TypeInvNext
          DEF EvtsOK, TasksOK
<1>2. ASSUME NEW i \in Id, NEW p \in Policies, NEW u \in Policies,
             ClickStart(i, p, u),
             UNCHANGED <<nextXfer, ui, evts, w, tasks, bound>>
      PROVE  TypeInv'
  <2>1. rows' \in [Id -> Row]
    <3> DEFINE r == [rows[i] EXCEPT !.ok = "open", !.paused = FALSE]
    <3>1. rows[i] \in Row
      BY <1>0
    <3>2. r \in Row
      BY <3>1 DEF Row
    <3>3. rows' = [rows EXCEPT ![i] = r]
      BY <1>2 DEF ClickStart
    <3> HIDE DEF r
    <3> QED BY <1>0, <3>2, <3>3
  <2>2. StartCmd(i, p) \in Cmd
    BY DEF StartCmd, Cmd
  <2>3. cmds' \in Seq(Cmd)
    BY <1>0, <1>2, <2>2 DEF ClickStart
  <2>4. hist' \in [Id -> Hist]
    BY <1>0, <1>2, ClickHistType
  <2> QED BY <1>2, <2>1, <2>3, <2>4, TypeInvParts, TypeInvNext
          DEF EvtsOK, TasksOK
<1>3. ASSUME NEW sp \in Specs, NEW p \in Policies, StartAgain(sp, p)
      PROVE  TypeInv'
  BY <1>2, <1>3 DEF StartAgain
<1>4. ASSUME NEW i \in Id, Resume(i)
      PROVE  TypeInv'
  <2>1. hist[i].pol \in Policies
    BY <1>0 DEF Hist
  <2> QED BY <1>2, <1>4, <2>1 DEF Resume
<1>5. ASSUME NEW i \in Id, Cancel(i)
      PROVE  TypeInv'
  <2>1. CancelCmd(i) \in Cmd
    BY DEF CancelCmd, Cmd
  <2>2. cmds' \in Seq(Cmd)
    BY <1>0, <1>5, <2>1 DEF Cancel
  <2>3. hist' \in [Id -> Hist]
    BY <1>0, <1>5 DEF Cancel, Hist
  <2>4. UNCHANGED <<rows, nextXfer, ui, evts, w, tasks, bound>>
    BY <1>5 DEF Cancel
  <2> QED BY <2>2, <2>3, <2>4, TypeInvParts, TypeInvNext DEF EvtsOK, TasksOK
<1>6. ASSUME NEW i \in Id, Remove(i)
      PROVE  TypeInv'
  <2>1. rows' \in [Id -> Row]
    <3>1. NoRow \in Row
      BY DEF NoRow, Row
    <3> QED BY <1>0, <1>6, <3>1 DEF Remove
  <2>2. UNCHANGED <<nextXfer, ui, cmds, evts, w, tasks, hist, bound>>
    BY <1>6 DEF Remove
  <2> QED BY <2>1, <2>2, TypeInvParts, TypeInvNext DEF EvtsOK, TasksOK
<1>7. CASE ReconnectClick
  <2>1. ui' \in Ui /\ ~ui'.armed
    <3>1. 0 \in 0..MaxTries
      OBVIOUS
    <3> QED BY <1>0, <1>7, <3>1 DEF ReconnectClick, Ui
  <2>2. bound' \in [drops : 0..MaxDrops, manual : 0..MaxManual]
    <3>1. bound.manual + 1 \in 0..MaxManual
      BY <1>7, TypeInvParts DEF ReconnectClick
    <3> QED BY <1>7, <3>1, TypeInvParts DEF ReconnectClick
  <2>3. cmds' \in Seq(Cmd) /\ EvtsOK' /\ w' \in Worker /\ TasksOK'
    BY <1>0, <1>7, ReplaceWorkerType DEF ReconnectClick
  <2>4. UNCHANGED <<rows, nextXfer, hist>>
    BY <1>7 DEF ReconnectClick
  <2> QED BY <2>1, <2>2, <2>3, <2>4, TypeInvParts, TypeInvNext
<1> QED BY <1>1, <1>3, <1>4, <1>5, <1>6, <1>7 DEF Click

\* One event drained, one row resent, or a reconnection that is due.
LEMMA UiType ==
  ASSUME TypeInv, UiStep
  PROVE  TypeInv'
<1>0. /\ rows \in [Id -> Row]
      /\ ui \in Ui
      /\ cmds \in Seq(Cmd)
      /\ EvtsOK /\ TasksOK
      /\ hist \in [Id -> Hist]
      /\ 0 \in 0..MaxTries
  BY TypeInvParts
<1>1. CASE OnConnected
  <2>1. ui' \in Ui /\ ~ui'.armed
    BY <1>0, <1>1 DEF OnConnected, Ui
  <2>2. EvtsOK'
    BY <1>0, <1>1, DrainType DEF OnConnected, NextEvt
  <2>3. UNCHANGED <<rows, nextXfer, cmds, w, tasks, hist, bound>>
    BY <1>1 DEF OnConnected
  <2> QED BY <2>1, <2>2, <2>3, TypeInvParts, TypeInvNext DEF TasksOK
<1>2. CASE OnShellExited
  <2>1. ui' \in Ui /\ ui'.armed = ui.armed /\ ui'.tries = ui.tries
    BY <1>0, <1>2 DEF OnShellExited, Ui
  <2>2. EvtsOK'
    BY <1>0, <1>2, DrainType DEF OnShellExited, NextEvt
  <2>3. UNCHANGED <<rows, nextXfer, cmds, w, tasks, hist, bound>>
    BY <1>2 DEF OnShellExited
  <2> QED BY <2>1, <2>2, <2>3, TypeInvParts, TypeInvNext DEF TasksOK
<1>3. CASE OnXferStart
  <2>1. Head(evts) \in Evt /\ EvtsOK'
    BY <1>0, <1>3, DrainType DEF OnXferStart, NextEvt
  <2>2. Head(evts).id \in Id
    BY <1>3, <2>1 DEF OnXferStart, NextEvt, Evt
  <2>3. [NoRow EXCEPT !.present = TRUE] \in Row
    BY DEF NoRow, Row
  <2>4. rows' \in [Id -> Row]
    BY <1>0, <1>3, <2>2, <2>3 DEF OnXferStart
  <2>5. UNCHANGED <<nextXfer, ui, cmds, w, tasks, hist, bound>>
    BY <1>3 DEF OnXferStart
  <2> QED BY <2>1, <2>4, <2>5, TypeInvParts, TypeInvNext DEF TasksOK
<1>4. CASE OnXferDone
  <2> DEFINE i  == Head(evts).id
             ok == Head(evts).ok
  <2>1. Head(evts) \in Evt /\ EvtsOK'
    BY <1>0, <1>4, DrainType DEF OnXferDone, NextEvt
  <2>2. i \in Id /\ ok \in BOOLEAN
    BY <1>4, <2>1 DEF OnXferDone, NextEvt, Evt
  <2>3. /\ rows' = IF ~rows[i].present THEN rows
                   ELSE IF ~ok /\ ~ui.connected /\ rows[i].spec # NoSpec
                   THEN [rows EXCEPT ![i].paused = TRUE]
                   ELSE [rows EXCEPT ![i].ok = IF ok THEN "ok" ELSE "fail"]
        /\ hist' = [hist EXCEPT ![i].finished = @ \/ ok]
        /\ UNCHANGED <<nextXfer, ui, cmds, w, tasks, bound>>
    BY <1>4 DEF OnXferDone
  <2> HIDE DEF i, ok
  <2>4. rows' \in [Id -> Row]
    <3> DEFINE o == IF ok THEN "ok" ELSE "fail"
               r == [rows[i] EXCEPT !.ok = o]
               q == [rows[i] EXCEPT !.paused = TRUE]
    <3>1. o \in {"open", "ok", "fail"} /\ rows[i] \in Row
      BY <1>0, <2>2
    <3> HIDE DEF o
    <3>2. r \in Row /\ q \in Row
      BY <3>1 DEF Row
    <3>3. \/ rows' = rows
          \/ rows' = [rows EXCEPT ![i] = q]
          \/ rows' = [rows EXCEPT ![i] = r]
      BY <2>3 DEF o
    <3> HIDE DEF r, q
    <3> QED BY <1>0, <2>2, <3>2, <3>3
  <2>5. hist' \in [Id -> Hist]
    <3>1. (hist[i].finished \/ ok) \in BOOLEAN
      BY Zenon
    <3> QED BY <1>0, <2>2, <2>3, <3>1 DEF Hist
  <2> QED BY <2>1, <2>3, <2>4, <2>5, TypeInvParts, TypeInvNext DEF TasksOK
<1>5. CASE OnDisconnected
  <2>1. ui' \in Ui /\ (ui'.armed => ui'.tries < MaxTries)
    <3>1. (ui.armed \/ AutoReconnect) \in BOOLEAN
      BY Zenon
    <3>2. ui' = [ui EXCEPT !.connected = FALSE, !.armed = ui.armed \/ AutoReconnect]
      BY <1>5 DEF OnDisconnected
    <3>3. ui' \in Ui /\ ui'.tries = ui.tries
          /\ ui'.armed = (ui.armed \/ AutoReconnect)
      BY <1>0, <3>1, <3>2 DEF Ui
    <3> QED BY <3>3, TypeInvParts DEF AutoReconnect
  <2>2. EvtsOK'
    BY <1>0, <1>5, DrainType DEF OnDisconnected, NextEvt
  <2>3. rows' \in [Id -> Row]
    BY <1>0, <1>5 DEF OnDisconnected, Row
  <2>4. UNCHANGED <<nextXfer, cmds, w, tasks, hist, bound>>
    BY <1>5 DEF OnDisconnected
  <2> QED BY <2>1, <2>2, <2>3, <2>4, TypeInvParts, TypeInvNext DEF TasksOK
<1>6. CASE ResendPaused
  <2>1. PICK i \in Id :
          /\ rows' = [rows EXCEPT ![i].paused = FALSE]
          /\ cmds' = Append(cmds, StartCmd(i, Overwrite))
          /\ hist' = [hist EXCEPT ![i].offline = FALSE]
    BY <1>6 DEF ResendPaused
  <2>2. rows' \in [Id -> Row]
    BY <1>0, <2>1 DEF Row
  <2>3. StartCmd(i, Overwrite) \in Cmd
    BY DEF StartCmd, Cmd
  <2>4. cmds' \in Seq(Cmd)
    BY <1>0, <2>1, <2>3
  <2>5. hist' \in [Id -> Hist]
    BY <1>0, <2>1 DEF Hist
  <2>6. UNCHANGED <<nextXfer, ui, evts, w, tasks, bound>>
    BY <1>6 DEF ResendPaused
  <2> QED BY <2>2, <2>4, <2>5, <2>6, TypeInvParts, TypeInvNext
          DEF EvtsOK, TasksOK
<1>7. CASE ResendEnd
  <2>1. ui' \in Ui /\ ui'.armed = ui.armed /\ ui'.tries = ui.tries
    BY <1>0, <1>7 DEF ResendEnd, Ui
  <2>2. UNCHANGED <<rows, nextXfer, cmds, evts, w, tasks, hist, bound>>
    BY <1>7 DEF ResendEnd
  <2> QED BY <2>1, <2>2, TypeInvParts, TypeInvNext DEF EvtsOK, TasksOK
<1>8. CASE ReconnectDue
  <2>1. ui.tries + 1 \in 0..MaxTries
    BY <1>8, TypeInvParts DEF ReconnectDue, Ui
  <2>2. ui' \in Ui /\ ~ui'.armed
    BY <1>0, <1>8, <2>1 DEF ReconnectDue, Ui
  <2>3. cmds' \in Seq(Cmd) /\ EvtsOK' /\ w' \in Worker /\ TasksOK'
    BY <1>0, <1>8, ReplaceWorkerType DEF ReconnectDue
  <2>4. UNCHANGED <<rows, nextXfer, hist, bound>>
    BY <1>8 DEF ReconnectDue
  <2> QED BY <2>2, <2>3, <2>4, TypeInvParts, TypeInvNext
<1> QED BY <1>1, <1>2, <1>3, <1>4, <1>5, <1>6, <1>7, <1>8 DEF UiStep, Drain

\* One step of the worker: it connects or fails to, takes a command or a
\* finished id, refills, loses its channel, or returns.
LEMMA WorkerType ==
  ASSUME TypeInv,
         \/ WConnect \/ WConnectFail \/ WLoop \/ WShellExit \/ WLost \/ WReturn
  PROVE  TypeInv'
<1>0. /\ cmds \in Seq(Cmd)
      /\ EvtsOK /\ TasksOK
      /\ w \in Worker
      /\ 0 \in 0..MaxActive
  BY TypeInvParts
<1>a. \A k \in {"connected", "shellExited", "disconnected"} : [ev |-> k] \in Evt
  BY DEF Evt
<1>b. bound.drops < MaxDrops
        => [bound EXCEPT !.drops = @ + 1]
             \in [drops : 0..MaxDrops, manual : 0..MaxManual]
  <2>1. bound.drops < MaxDrops => bound.drops + 1 \in 0..MaxDrops
    BY TypeInvParts
  <2> QED BY <2>1, TypeInvParts
<1>1. CASE WConnect
  <2>1. EvtsOK' /\ w' \in Worker
    BY <1>0, <1>1, <1>a, SendType DEF WConnect, Worker
  <2>2. UNCHANGED <<rows, nextXfer, ui, cmds, tasks, hist, bound>>
    BY <1>1 DEF WConnect
  <2> QED BY <2>1, <2>2, TypeInvParts, TypeInvNext DEF TasksOK
<1>2. CASE WConnectFail
  <2>1. EvtsOK' /\ w' \in Worker
    BY <1>0, <1>2, <1>a, SendType DEF WConnectFail, Worker
  <2>2. UNCHANGED <<rows, nextXfer, ui, cmds, tasks, hist, bound>>
    BY <1>2 DEF WConnectFail
  <2> QED BY <2>1, <2>2, TypeInvParts, TypeInvNext DEF TasksOK
<1>3. CASE WStart
  <2> DEFINE job == [id |-> Head(cmds).id, pol |-> Head(cmds).pol]
  <2>1. Head(cmds) \in Cmd /\ cmds' \in Seq(Cmd)
    BY <1>0, <1>3, HeadTail DEF WStart
  <2>2. job \in Job /\ job.id \in Id
    BY <1>3, <2>1 DEF WStart, Cmd, Job
  <2>3. /\ \/ /\ HasSlot
              /\ StartXfer(job)
              /\ w' = [w EXCEPT !.active = @ + 1, !.cancels = @ \cup {job.id}]
           \/ /\ ~HasSlot
              /\ w' = [w EXCEPT !.pending = Append(@, job)]
              /\ UNCHANGED tasks
        /\ UNCHANGED <<rows, nextXfer, ui, evts, hist, bound>>
    BY <1>3 DEF WStart
  <2> HIDE DEF job
  <2>4. ASSUME HasSlot, StartXfer(job),
               w' = [w EXCEPT !.active = @ + 1, !.cancels = @ \cup {job.id}]
        PROVE  TasksOK' /\ w' \in Worker
    <3>1. w.active + 1 \in 0..MaxActive /\ w.cancels \cup {job.id} \in SUBSET Id
      BY <1>0, <2>2, <2>4 DEF HasSlot, Worker
    <3>2. w' \in Worker
      BY <1>0, <2>4, <3>1 DEF Worker
    <3> QED BY <1>0, <2>2, <2>4, <3>2, StartXferType
  <2>5. ASSUME w' = [w EXCEPT !.pending = Append(@, job)]
        PROVE  w' \in Worker
    <3>1. Append(w.pending, job) \in Seq(Job)
      BY <1>0, <2>2 DEF Worker
    <3> QED BY <1>0, <2>5, <3>1 DEF Worker
  <2>6. TasksOK' /\ w' \in Worker
    BY <1>0, <2>3, <2>4, <2>5 DEF TasksOK
  <2> QED BY <2>1, <2>3, <2>6, TypeInvParts, TypeInvNext DEF EvtsOK
<1>4. CASE WCancel
  <2> DEFINE i == Head(cmds).id
  <2>1. Head(cmds) \in Cmd /\ cmds' \in Seq(Cmd)
    BY <1>0, <1>4, HeadTail DEF WCancel
  <2>2. i \in Id /\ [ev |-> "xferDone", id |-> i, ok |-> FALSE] \in Evt
    BY <1>4, <2>1 DEF WCancel, Cmd, Evt
  <2>3. /\ \/ /\ tasks' = [s \in Slots |->
                   IF Current(s) /\ tasks[s].id = i
                   THEN [tasks[s] EXCEPT !.stop = TRUE] ELSE tasks[s]]
              /\ UNCHANGED <<w, evts>>
           \/ /\ \E k \in 1..Len(w.pending) :
                   w' = [w EXCEPT !.pending = Without(@, k)]
              /\ Send([ev |-> "xferDone", id |-> i, ok |-> FALSE])
              /\ UNCHANGED tasks
           \/ UNCHANGED <<w, evts, tasks>>
        /\ UNCHANGED <<rows, nextXfer, ui, hist, bound>>
    BY <1>4 DEF WCancel
  <2> HIDE DEF i
  <2>4. ASSUME tasks' = [s \in Slots |->
                 IF Current(s) /\ tasks[s].id = i
                 THEN [tasks[s] EXCEPT !.stop = TRUE] ELSE tasks[s]]
        PROVE  TasksOK'
    <3> DEFINE woken == {s \in Slots : Current(s) /\ tasks[s].id = i}
    <3>1. tasks' = [s \in Slots |-> IF s \in woken
                                    THEN [tasks[s] EXCEPT !.stop = TRUE]
                                    ELSE tasks[s]]
      BY <2>4
    <3> HIDE DEF woken
    <3>2. woken \in SUBSET Slots
      BY DEF woken
    <3> QED BY <1>0, <3>1, <3>2, WakeType
  <2>5. ASSUME NEW k \in 1..Len(w.pending),
               w' = [w EXCEPT !.pending = Without(@, k)]
        PROVE  w' \in Worker
    <3>1. Without(w.pending, k) \in Seq(Job)
      BY <1>0 DEF Worker, Without
    <3> QED BY <1>0, <2>5, <3>1 DEF Worker
  <2>6. TasksOK' /\ EvtsOK' /\ w' \in Worker
    BY <1>0, <2>2, <2>3, <2>4, <2>5, SendType DEF TasksOK, EvtsOK
  <2> QED BY <2>1, <2>3, <2>6, TypeInvParts, TypeInvNext
<1>5. CASE WDone
  <2> DEFINE i == Head(w.doneQ)
  <2>1. i \in Id /\ Tail(w.doneQ) \in Seq(Id)
    BY <1>0, <1>5, HeadTail DEF WDone, Worker
  <2>2. w' = [w EXCEPT !.doneQ = Tail(@), !.cancels = @ \ {i},
                       !.active = Released(@), !.refill = TRUE]
    BY <1>5 DEF WDone
  <2>3. tasks' = [s \in Slots |->
                    IF Current(s) /\ tasks[s].id = i
                    THEN [tasks[s] EXCEPT !.stop = TRUE] ELSE tasks[s]]
    BY <1>5 DEF WDone
  <2>4. UNCHANGED <<rows, nextXfer, ui, cmds, evts, hist, bound>>
    BY <1>5 DEF WDone
  <2> HIDE DEF i
  <2>5. w' \in Worker
    <3>1. Released(w.active) \in 0..MaxActive /\ w.cancels \ {i} \in SUBSET Id
      BY <1>0 DEF Released, Worker
    <3> HIDE DEF Released
    <3> QED BY <1>0, <2>1, <2>2, <3>1 DEF Worker
  <2>6. TasksOK'
    <3> DEFINE woken == {s \in Slots : Current(s) /\ tasks[s].id = i}
    <3>1. tasks' = [s \in Slots |-> IF s \in woken
                                    THEN [tasks[s] EXCEPT !.stop = TRUE]
                                    ELSE tasks[s]]
      BY <2>3
    <3> HIDE DEF woken
    <3>2. woken \in SUBSET Slots
      BY DEF woken
    <3> QED BY <1>0, <3>1, <3>2, WakeType
  <2> QED BY <2>4, <2>5, <2>6, TypeInvParts, TypeInvNext DEF EvtsOK
<1>6. CASE WRefill
  <2> DEFINE job == Head(w.pending)
  <2>1. job \in Job /\ job.id \in Id /\ Tail(w.pending) \in Seq(Job)
    <3>1. w.pending \in Seq(Job) /\ w.pending # <<>>
      BY <1>0, <1>6 DEF WRefill, CanRefill, Worker
    <3>2. job \in Job /\ Tail(w.pending) \in Seq(Job)
      BY <3>1, HeadTail
    <3> QED BY <3>2 DEF Job
  <2>2. /\ StartXfer(job)
        /\ w' = [w EXCEPT !.active = @ + 1, !.pending = Tail(@),
                          !.cancels = @ \cup {job.id}]
        /\ UNCHANGED <<rows, nextXfer, ui, cmds, evts, hist, bound>>
    BY <1>6 DEF WRefill
  <2> HIDE DEF job
  <2>3. w' \in Worker
    <3>1. w.active + 1 \in 0..MaxActive /\ w.cancels \cup {job.id} \in SUBSET Id
      BY <1>0, <1>6, <2>1 DEF WRefill, CanRefill, Worker
    <3> QED BY <1>0, <2>1, <2>2, <3>1 DEF Worker
  <2>4. TasksOK'
    BY <1>0, <2>1, <2>2, StartXferType
  <2> QED BY <2>2, <2>3, <2>4, TypeInvParts, TypeInvNext DEF EvtsOK
<1>7. CASE WRefillEnd
  <2>1. w' \in Worker
    BY <1>0, <1>7 DEF WRefillEnd, Worker
  <2>2. UNCHANGED <<rows, nextXfer, ui, cmds, evts, tasks, hist, bound>>
    BY <1>7 DEF WRefillEnd
  <2> QED BY <2>1, <2>2, TypeInvParts, TypeInvNext DEF EvtsOK, TasksOK
<1>8. CASE WShellExit
  <2>1. EvtsOK'
    BY <1>0, <1>8, <1>a, SendType DEF WShellExit
  <2>2. /\ bound' \in [drops : 0..MaxDrops, manual : 0..MaxManual]
        /\ UNCHANGED <<rows, nextXfer, ui, cmds, w, tasks, hist>>
    BY <1>8, <1>b DEF WShellExit
  <2> QED BY <2>1, <2>2, TypeInvParts, TypeInvNext DEF TasksOK
<1>9. CASE WLost
  <2>1. EvtsOK' /\ w' \in Worker
    BY <1>0, <1>9, <1>a, SendType DEF WLost, Worker
  <2>2. /\ bound' \in [drops : 0..MaxDrops, manual : 0..MaxManual]
        /\ UNCHANGED <<rows, nextXfer, ui, cmds, tasks, hist>>
    BY <1>9, <1>b DEF WLost
  <2> QED BY <2>1, <2>2, TypeInvParts, TypeInvNext DEF TasksOK
<1>10. CASE WReturn
  <2>1. w' \in Worker
    <3>1. FreshWorker \in Worker
      BY <1>0 DEF FreshWorker, Worker
    <3> QED BY <1>10, <3>1 DEF WReturn, Worker
  <2>2. TasksOK'
    <3>1. tasks' = [s \in Slots |-> IF s \in Busy
                                    THEN [tasks[s] EXCEPT !.stop = TRUE]
                                    ELSE tasks[s]]
      BY <1>10 DEF WReturn, Busy
    <3>2. Busy \in SUBSET Slots
      BY DEF Busy
    <3> QED BY <1>0, <3>1, <3>2, WakeType
  <2>3. UNCHANGED <<rows, nextXfer, ui, cmds, evts, hist, bound>>
    BY <1>10 DEF WReturn
  <2> QED BY <2>1, <2>2, <2>3, TypeInvParts, TypeInvNext DEF EvtsOK
<1> QED BY <1>1, <1>2, <1>3, <1>4, <1>5, <1>6, <1>7, <1>8, <1>9, <1>10 DEF WLoop

\* One step of a task.
LEMMA TaskType ==
  ASSUME TypeInv, NEW s \in Slots, TaskStep(s)
  PROVE  TypeInv'
<1>0. /\ EvtsOK /\ TasksOK
      /\ w \in Worker
      /\ tasks[s] \in Task
      /\ Live(s) => tasks[s].id \in Id
  BY TypeInvParts DEF TasksOK, Live
<1>1. ASSUME NEW st \in {"running", "reported"}, Live(s),
             tasks' = [tasks EXCEPT ![s].st = st]
      PROVE  TasksOK'
  BY <1>0, <1>1 DEF TasksOK, Task
<1>2. ASSUME tasks' = [tasks EXCEPT ![s] = FreeTask]
      PROVE  TasksOK'
  <2>1. FreeTask \in Task /\ FreeTask.st = "free"
    BY DEF FreeTask, Task
  <2> QED BY <1>0, <1>2, <2>1 DEF TasksOK
<1>3. ASSUME Live(s)
      PROVE  /\ [ev |-> "xferStart", id |-> tasks[s].id] \in Evt
             /\ \A ok \in BOOLEAN :
                  [ev |-> "xferDone", id |-> tasks[s].id, ok |-> ok] \in Evt
  BY <1>0, <1>3 DEF Evt
<1>4. CASE TaskAnnounce(s)
  <2>1. Live(s) /\ EvtsOK'
    BY <1>0, <1>3, <1>4, SendType DEF TaskAnnounce, Current
  <2>2. TasksOK'
    BY <1>1, <1>4, <2>1 DEF TaskAnnounce
  <2>3. UNCHANGED <<rows, nextXfer, ui, cmds, w, hist, bound>>
    BY <1>4 DEF TaskAnnounce
  <2> QED BY <2>1, <2>2, <2>3, TypeInvParts, TypeInvNext
<1>5. CASE TaskFinish(s) \/ TaskStop(s)
  <2>1. Live(s)
    BY <1>5 DEF TaskFinish, TaskStop, Current
  <2>2. EvtsOK'
    BY <1>0, <1>3, <1>5, <2>1, SendType DEF TaskFinish, TaskStop
  <2>3. TasksOK'
    BY <1>1, <1>5, <2>1 DEF TaskFinish, TaskStop
  <2>4. UNCHANGED <<rows, nextXfer, ui, cmds, w, hist, bound>>
    BY <1>5 DEF TaskFinish, TaskStop
  <2> QED BY <2>2, <2>3, <2>4, TypeInvParts, TypeInvNext
<1>6. CASE TaskExit(s)
  <2>1. tasks[s].id \in Id
    BY <1>0, <1>6 DEF TaskExit, Current
  <2>2. w' \in Worker
    <3>1. Append(w.doneQ, tasks[s].id) \in Seq(Id)
      BY <1>0, <2>1 DEF Worker
    <3>2. w' = w \/ w' = [w EXCEPT !.doneQ = Append(@, tasks[s].id)]
      BY <1>6 DEF TaskExit
    <3> QED BY <1>0, <3>1, <3>2 DEF Worker
  <2>3. TasksOK'
    BY <1>2, <1>6 DEF TaskExit
  <2>4. UNCHANGED <<rows, nextXfer, ui, cmds, evts, hist, bound>>
    BY <1>6 DEF TaskExit
  <2> QED BY <2>2, <2>3, <2>4, TypeInvParts, TypeInvNext DEF EvtsOK
<1>7. CASE OldTaskExit(s)
  <2>1. TasksOK'
    BY <1>2, <1>7 DEF OldTaskExit
  <2>2. UNCHANGED <<rows, nextXfer, ui, cmds, evts, w, hist, bound>>
    BY <1>7 DEF OldTaskExit
  <2> QED BY <2>1, <2>2, TypeInvParts, TypeInvNext DEF EvtsOK
<1> QED BY <1>4, <1>5, <1>6, <1>7 DEF TaskStep

LEMMA TypeStep == TypeInv /\ [Next]_vars => TypeInv'
<1> SUFFICES ASSUME TypeInv, [Next]_vars PROVE TypeInv'
  OBVIOUS
<1>1. CASE UNCHANGED vars
  BY <1>1 DEF vars, TypeInv, TypeOK, TriesBounded
<1>2. CASE Next
  BY <1>2, ClickType, UiType, WorkerType, TaskType DEF Next
<1> QED BY <1>1, <1>2

\* Every reachable state is well typed; in particular active_xfer stays within
\* MAX_CONCURRENT_XFER, reconnect_tries within MAX_TRIES, and the event
\* channel within its capacity, whatever the clicks, drops and task timings.
THEOREM TypeCorrect == Spec => [](TypeOK /\ TriesBounded)
<1>1. Init => TypeInv
  BY TypeInit
<1>2. TypeInv /\ [Next]_vars => TypeInv'
  BY TypeStep
<1> QED BY <1>1, <1>2, PTL DEF Spec, TypeInv

-----------------------------------------------------------------------------
(* The slots.  The counter of the loop and the tasks alive are changed in   *)
(* different places (a task leaves on its own, the loop hears of it later); *)
(* SlotAccounting ties them.  BusyBound is what is left of it once the      *)
(* worker has returned and its counter is gone while its tasks still wind   *)
(* down.                                                                    *)

BusyBound == Cardinality(Busy) <= MaxActive

SlotInv == SlotAccounting /\ BusyBound

LEMMA BusyFinite ==
  /\ IsFiniteSet(Busy)
  /\ Cardinality(Busy) \in Nat
<1>1. IsFiniteSet(Busy)
  BY SlotsFinite, FS_Subset DEF Busy
<1> QED BY <1>1, FS_CardinalityType

LEMMA WorkerParts ==
  ASSUME TypeInv
  PROVE  /\ w.active \in 0..MaxActive
         /\ w.doneQ \in Seq(Id) /\ Len(w.doneQ) \in Nat
         /\ w.pending \in Seq(Job)
         /\ w.st \in {"connecting", "up", "closing", "dead"}
         /\ tasks \in [Slots -> Task]
  BY TypeInvParts DEF Worker, TasksOK

\* A step that neither starts nor ends a task of the current worker.
LEMMA SameSlots ==
  ASSUME SlotInv, Busy' = Busy, w'.active = w.active, w'.doneQ = w.doneQ,
         w'.st # "dead" => w.st # "dead"
  PROVE  SlotInv'
  BY DEF SlotInv, SlotAccounting, BusyBound

\* A wake-up leaves the set of busy tasks alone.
LEMMA WakeBusy ==
  ASSUME tasks \in [Slots -> Task], NEW woken \in SUBSET Slots,
         tasks' = [s \in Slots |-> IF s \in woken
                                   THEN [tasks[s] EXCEPT !.stop = TRUE]
                                   ELSE tasks[s]]
  PROVE  Busy' = Busy
<1>1. \A s \in Slots : /\ [tasks[s] EXCEPT !.stop = TRUE].st = tasks[s].st
                       /\ [tasks[s] EXCEPT !.stop = TRUE].old = tasks[s].old
  BY DEF Task
<1>2. \A s \in Slots : tasks'[s].st = tasks[s].st /\ tasks'[s].old = tasks[s].old
  BY <1>1
<1> QED BY <1>2 DEF Busy, Current, Live

\* start_xfer adds exactly one busy task.
LEMMA StartXferBusy ==
  ASSUME tasks \in [Slots -> Task], NEW job, StartXfer(job)
  PROVE  Cardinality(Busy') = Cardinality(Busy) + 1
<1>1. PICK s \in Slots : ~Live(s) /\ tasks' = [t \in Slots |->
             IF t = s
             THEN [st |-> "opening", id |-> job.id, pol |-> job.pol,
                   stop |-> FALSE, old |-> FALSE]
             ELSE IF Current(t) /\ tasks[t].id = job.id
             THEN [tasks[t] EXCEPT !.stop = TRUE]
             ELSE tasks[t]]
  BY DEF StartXfer
<1>2. \A t \in Slots : /\ [tasks[t] EXCEPT !.stop = TRUE].st = tasks[t].st
                       /\ [tasks[t] EXCEPT !.stop = TRUE].old = tasks[t].old
  BY DEF Task
<1>3. \A t \in Slots : t # s => /\ tasks'[t].st = tasks[t].st
                                /\ tasks'[t].old = tasks[t].old
  BY <1>1, <1>2
<1>4. tasks'[s].st = "opening" /\ tasks'[s].old = FALSE
  BY <1>1
<1>5. Busy' = Busy \cup {s} /\ s \notin Busy
  BY <1>1, <1>3, <1>4 DEF Busy, Current, Live
<1> QED BY <1>5, BusyFinite, FS_AddElement

\* A job taken with a slot free and counted keeps the books.
LEMMA StartSlot ==
  ASSUME TypeInv, SlotInv, NEW job, StartXfer(job), w.active < MaxActive,
         w.st = "up", w'.st = "up", w'.active = w.active + 1, w'.doneQ = w.doneQ
  PROVE  SlotInv'
<1>1. Cardinality(Busy') = Cardinality(Busy) + 1
  BY StartXferBusy, WorkerParts
<1>2. w.active = Cardinality(Busy) + Len(w.doneQ)
  BY DEF SlotInv, SlotAccounting
<1>3. Cardinality(Busy) \in Nat /\ Len(w.doneQ) \in Nat /\ w.active \in Nat
  BY BusyFinite, FS_CardinalityType, WorkerParts
<1>4. w'.active = Cardinality(Busy') + Len(w'.doneQ)
  BY <1>1, <1>2, <1>3
<1>5. Cardinality(Busy') <= MaxActive
  BY <1>1, <1>2, <1>3
<1> QED BY <1>4, <1>5 DEF SlotInv, SlotAccounting, BusyBound

LEMMA ReplaceSlot ==
  ASSUME ReplaceWorker, tasks \in [Slots -> Task]
  PROVE  SlotInv'
<1>1. \A s \in Slots : Live(s) => [tasks[s] EXCEPT !.old = TRUE].old
  BY DEF Task, Live
<1>2. Busy' = {}
  BY <1>1 DEF ReplaceWorker, Busy, Current, Live
<1>3. w'.active = 0 /\ w'.doneQ = <<>>
  BY DEF ReplaceWorker, FreshWorker
<1>4. Cardinality(Busy') = 0
  BY <1>2, FS_EmptySet
<1> QED BY <1>3, <1>4 DEF SlotInv, SlotAccounting, BusyBound

LEMMA SlotInit == Init => SlotInv
<1> SUFFICES ASSUME Init PROVE SlotInv
  OBVIOUS
<1>1. Busy = {}
  BY DEF Init, FreeTask, Busy, Current, Live
<1>2. Cardinality(Busy) = 0
  BY <1>1, FS_EmptySet
<1> QED BY <1>2 DEF Init, FreshWorker, SlotInv, SlotAccounting, BusyBound

LEMMA SlotWorkerStep ==
  ASSUME TypeInv, SlotInv,
         \/ WConnect \/ WConnectFail \/ WLoop \/ WShellExit \/ WLost \/ WReturn
  PROVE  SlotInv'
<1>0. w \in Worker
  BY TypeInvParts
<1>1. CASE WConnect \/ WConnectFail \/ WRefillEnd \/ WShellExit \/ WLost
  <2>1. UNCHANGED tasks /\ w.st # "dead"
    BY <1>1 DEF WConnect, WConnectFail, WRefillEnd, WShellExit, WLost, Selecting
  <2>2. w'.active = w.active /\ w'.doneQ = w.doneQ
    BY <1>0, <1>1 DEF WConnect, WConnectFail, WRefillEnd, WShellExit, WLost, Worker
  <2>3. Busy' = Busy
    BY <2>1 DEF Busy, Current, Live
  <2> QED BY <2>1, <2>2, <2>3, SameSlots
<1>2. CASE WStart
  <2> DEFINE job == [id |-> Head(cmds).id, pol |-> Head(cmds).pol]
  <2>1. w.st = "up"
    BY <1>2 DEF WStart, Selecting
  <2>2. CASE /\ HasSlot
             /\ StartXfer(job)
             /\ w' = [w EXCEPT !.active = @ + 1, !.cancels = @ \cup {job.id}]
    <3>1. w'.active = w.active + 1 /\ w'.doneQ = w.doneQ /\ w'.st = w.st
      BY <1>0, <2>2 DEF Worker
    <3> QED BY <2>1, <2>2, <3>1, StartSlot DEF HasSlot
  <2>3. CASE w' = [w EXCEPT !.pending = Append(@, job)] /\ UNCHANGED tasks
    <3>1. w'.active = w.active /\ w'.doneQ = w.doneQ /\ w'.st = w.st
      BY <1>0, <2>3 DEF Worker
    <3>2. Busy' = Busy
      BY <2>3 DEF Busy, Current, Live
    <3> QED BY <2>1, <3>1, <3>2, SameSlots
  <2> QED BY <1>2, <2>2, <2>3 DEF WStart
<1>3. CASE WCancel
  <2> DEFINE i == Head(cmds).id
             woken == {s \in Slots : Current(s) /\ tasks[s].id = i}
  <2>1. w'.active = w.active /\ w'.doneQ = w.doneQ /\ w'.st = w.st
    BY <1>0, <1>3 DEF WCancel, Worker
  <2>2. \/ tasks' = [s \in Slots |-> IF s \in woken
                                     THEN [tasks[s] EXCEPT !.stop = TRUE]
                                     ELSE tasks[s]]
        \/ UNCHANGED tasks
    BY <1>3 DEF WCancel
  <2>3. woken \in SUBSET Slots
    OBVIOUS
  <2> HIDE DEF woken
  <2>4. Busy' = Busy
    BY <2>2, <2>3, WakeBusy, WorkerParts DEF Busy, Current, Live
  <2> QED BY <1>3, <2>1, <2>4, SameSlots
<1>4. CASE WDone
  <2> DEFINE i == Head(w.doneQ)
             woken == {s \in Slots : Current(s) /\ tasks[s].id = i}
  <2>1. tasks' = [s \in Slots |-> IF s \in woken
                                  THEN [tasks[s] EXCEPT !.stop = TRUE]
                                  ELSE tasks[s]]
    BY <1>4 DEF WDone
  <2>2. woken \in SUBSET Slots
    OBVIOUS
  <2> HIDE DEF woken
  <2>3. Busy' = Busy
    BY <2>1, <2>2, WakeBusy, WorkerParts
  <2>4. /\ w.doneQ # <<>> /\ w.st = "up"
        /\ w'.active = Released(w.active)
        /\ w'.doneQ = Tail(w.doneQ) /\ w'.st = w.st
    BY <1>0, <1>4 DEF WDone, Selecting, Worker
  <2>5. Len(w.doneQ) > 0 /\ Len(Tail(w.doneQ)) = Len(w.doneQ) - 1
    BY <2>4, WorkerParts
  <2>6. w.active = Cardinality(Busy) + Len(w.doneQ)
    BY <2>4 DEF SlotInv, SlotAccounting
  <2>7. w'.active = w.active - 1
    BY <2>4, <2>5, <2>6, BusyFinite, WorkerParts DEF Released
  <2> QED BY <2>3, <2>4, <2>5, <2>6, <2>7, BusyFinite, WorkerParts
          DEF SlotInv, SlotAccounting, BusyBound
<1>5. CASE WRefill
  <2> DEFINE job == Head(w.pending)
  <2>1. /\ StartXfer(job) /\ w.active < MaxActive /\ w.st = "up"
        /\ w' = [w EXCEPT !.active = @ + 1, !.pending = Tail(@),
                          !.cancels = @ \cup {job.id}]
    BY <1>5 DEF WRefill, CanRefill
  <2>2. w'.active = w.active + 1 /\ w'.doneQ = w.doneQ /\ w'.st = w.st
    BY <1>0, <2>1 DEF Worker
  <2> QED BY <2>1, <2>2, StartSlot
<1>6. CASE WReturn
  <2>1. tasks' = [s \in Slots |-> IF s \in Busy
                                  THEN [tasks[s] EXCEPT !.stop = TRUE]
                                  ELSE tasks[s]]
    BY <1>6 DEF WReturn, Busy
  <2>2. Busy' = Busy
    BY <2>1, WakeBusy, WorkerParts DEF Busy
  <2>3. w'.st = "dead"
    BY <1>6 DEF WReturn, FreshWorker
  <2> QED BY <2>2, <2>3 DEF SlotInv, SlotAccounting, BusyBound
<1> QED BY <1>1, <1>2, <1>3, <1>4, <1>5, <1>6 DEF WLoop

LEMMA SlotTaskStep ==
  ASSUME TypeInv, SlotInv, NEW s \in Slots, TaskStep(s)
  PROVE  SlotInv'
<1>0. w \in Worker /\ tasks \in [Slots -> Task]
  BY TypeInvParts DEF TasksOK
<1>1. CASE TaskAnnounce(s) \/ TaskFinish(s) \/ TaskStop(s)
  <2>1. PICK st \in {"running", "reported"} : tasks' = [tasks EXCEPT ![s].st = st]
    BY <1>1 DEF TaskAnnounce, TaskFinish, TaskStop
  <2>2. Current(s) /\ UNCHANGED w
    BY <1>1 DEF TaskAnnounce, TaskFinish, TaskStop
  <2>3. /\ \A t \in Slots : t # s => tasks'[t] = tasks[t]
        /\ tasks'[s].st = st /\ tasks'[s].old = tasks[s].old
    BY <1>0, <2>1 DEF Task
  <2>4. Busy' = Busy
    BY <2>2, <2>3 DEF Busy, Current, Live
  <2> QED BY <2>2, <2>4, SameSlots
<1>2. CASE TaskExit(s)
  <2>1. Current(s) /\ tasks' = [tasks EXCEPT ![s] = FreeTask]
    BY <1>2 DEF TaskExit
  <2>2. Busy' = Busy \ {s} /\ s \in Busy
    BY <1>0, <2>1 DEF FreeTask, Busy, Current, Live
  <2>3. Cardinality(Busy') = Cardinality(Busy) - 1
    BY <2>2, BusyFinite, FS_RemoveElement
  <2>4. CASE w.st = "dead"
    <3>1. UNCHANGED w
      BY <1>2, <2>4 DEF TaskExit
    <3> QED BY <2>3, <2>4, <3>1, BusyFinite DEF SlotInv, SlotAccounting, BusyBound
  <2>5. CASE w.st # "dead"
    <3>1. w' = [w EXCEPT !.doneQ = Append(@, tasks[s].id)]
      BY <1>2, <2>5 DEF TaskExit
    <3>2. w'.active = w.active /\ w'.doneQ = Append(w.doneQ, tasks[s].id)
      BY <1>0, <3>1 DEF Worker
    <3>3. Len(w'.doneQ) = Len(w.doneQ) + 1
      BY <3>2, WorkerParts
    <3> QED BY <2>3, <2>5, <3>2, <3>3, BusyFinite, WorkerParts
            DEF SlotInv, SlotAccounting, BusyBound
  <2> QED BY <2>4, <2>5
<1>3. CASE OldTaskExit(s)
  <2>1. tasks[s].old /\ tasks' = [tasks EXCEPT ![s] = FreeTask] /\ UNCHANGED w
    BY <1>3 DEF OldTaskExit
  <2>2. Busy' = Busy
    BY <1>0, <2>1 DEF FreeTask, Busy, Current, Live
  <2> QED BY <2>1, <2>2, SameSlots
<1> QED BY <1>1, <1>2, <1>3 DEF TaskStep

LEMMA SlotStep == TypeInv /\ SlotInv /\ [Next]_vars => SlotInv'
<1> SUFFICES ASSUME TypeInv, SlotInv, [Next]_vars PROVE SlotInv'
  OBVIOUS
<1>1. CASE UNCHANGED <<w, tasks>>
  BY <1>1, SameSlots DEF Busy, Current, Live
<1>2. CASE ReconnectClick \/ ReconnectDue
  BY <1>2, ReplaceSlot, WorkerParts DEF ReconnectClick, ReconnectDue
<1>3. CASE \E sp \in Specs, p \in Policies : StartNew(sp, p) \/ StartAgain(sp, p)
  BY <1>1, <1>3 DEF StartNew, StartAgain
<1>4. CASE \E i \in Id : Resume(i) \/ Cancel(i) \/ Remove(i)
  BY <1>1, <1>4 DEF Resume, Cancel, Remove
<1>5. CASE Drain \/ ResendPaused \/ ResendEnd
  BY <1>1, <1>5 DEF Drain, OnConnected, OnShellExited, OnXferStart, OnXferDone,
                    OnDisconnected, ResendPaused, ResendEnd
<1>6. CASE WConnect \/ WConnectFail \/ WLoop \/ WShellExit \/ WLost \/ WReturn
  BY <1>6, SlotWorkerStep
<1>7. CASE \E s \in Slots : TaskStep(s)
  BY <1>7, SlotTaskStep
<1>8. CASE UNCHANGED vars
  BY <1>1, <1>8 DEF vars
<1> QED BY <1>2, <1>3, <1>4, <1>5, <1>6, <1>7, <1>8 DEF Next, Click, UiStep

\* The worker's counter is exactly the tasks it has not counted out yet: no
\* slot leaks, none is given back twice, saturating_sub never saturates.
THEOREM SlotsAccounted == Spec => []SlotAccounting
<1>1. Init => TypeInv /\ SlotInv
  BY TypeInit, SlotInit
<1>2. (TypeInv /\ SlotInv) /\ [Next]_vars => (TypeInv /\ SlotInv)'
  BY TypeStep, SlotStep
<1>3. TypeInv /\ SlotInv => SlotAccounting
  BY DEF SlotInv
<1> QED BY <1>1, <1>2, <1>3, PTL DEF Spec

\* At most MAX_CONCURRENT_XFER transfers of the current worker run, whatever
\* commands, cancellations, completions and disconnections interleave.
THEOREM ConcurrencyBounded == Spec => []ConcurrencyBound
<1>1. Init => TypeInv /\ SlotInv
  BY TypeInit, SlotInit
<1>2. (TypeInv /\ SlotInv) /\ [Next]_vars => (TypeInv /\ SlotInv)'
  BY TypeStep, SlotStep
<1>3. TypeInv /\ SlotInv => ConcurrencyBound
  <2> SUFFICES ASSUME SlotInv PROVE ConcurrencyBound
    OBVIOUS
  <2> DEFINE run == {s \in Busy : Working(s)}
  <2>1. Cardinality(run) <= Cardinality(Busy) /\ Cardinality(run) \in Nat
    BY BusyFinite, FS_Subset, FS_CardinalityType
  <2> QED BY <2>1, BusyFinite DEF SlotInv, BusyBound, ConcurrencyBound
<1> QED BY <1>1, <1>2, <1>3, PTL DEF Spec

-----------------------------------------------------------------------------
(* The queue.  QueueOnlyWhenFull is inductive once the queue is known to be *)
(* empty while the worker connects.                                        *)

QueueInv ==
    /\ QueueOnlyWhenFull
    /\ w.st = "connecting" => w.pending = <<>>

\* A step after which the queue is empty.
LEMMA EmptyQueue == ASSUME w'.pending = <<>> PROVE QueueInv'
  BY DEF QueueInv, QueueOnlyWhenFull

\* A step that leaves slots and queue alone and enters neither the select
\* loop nor the connecting state.
LEMMA SameQueue ==
  ASSUME QueueInv, w'.active = w.active, w'.pending = w.pending,
         w'.refill = w.refill,
         \/ w'.st = w.st
         \/ w'.st = "up" /\ w.st = "connecting"
         \/ w'.st \in {"closing", "dead"}
  PROVE  QueueInv'
  BY DEF QueueInv, QueueOnlyWhenFull

LEMMA QueueWorkerStep ==
  ASSUME TypeInv, QueueInv,
         \/ WConnect \/ WConnectFail \/ WLoop \/ WShellExit \/ WLost \/ WReturn
  PROVE  QueueInv'
<1>0. w \in Worker
  BY TypeInvParts
<1>1. CASE WConnect \/ WConnectFail \/ WShellExit \/ WLost
  <2>1. /\ w'.active = w.active /\ w'.pending = w.pending /\ w'.refill = w.refill
        /\ \/ w'.st = w.st
           \/ w'.st = "up" /\ w.st = "connecting"
           \/ w'.st \in {"closing", "dead"}
    BY <1>0, <1>1 DEF WConnect, WConnectFail, WShellExit, WLost, Worker
  <2> QED BY <2>1, SameQueue
<1>2. CASE WStart
  <2> DEFINE job == [id |-> Head(cmds).id, pol |-> Head(cmds).pol]
  <2>1. w.st = "up" /\ ~w.refill
    BY <1>2 DEF WStart, Selecting
  <2>2. CASE /\ HasSlot
             /\ w' = [w EXCEPT !.active = @ + 1, !.cancels = @ \cup {job.id}]
    <3>1. w.pending = <<>>
      BY <2>1, <2>2, WorkerParts DEF HasSlot, QueueInv, QueueOnlyWhenFull
    <3>2. w'.pending = w.pending
      BY <1>0, <2>2 DEF Worker
    <3> QED BY <3>1, <3>2, EmptyQueue
  <2>3. CASE ~HasSlot /\ w' = [w EXCEPT !.pending = Append(@, job)]
    <3>1. w'.active = w.active /\ w'.st = w.st
      BY <1>0, <2>3 DEF Worker
    <3>2. w.active = MaxActive
      BY <2>3, WorkerParts DEF HasSlot
    <3> QED BY <2>1, <3>1, <3>2 DEF QueueInv, QueueOnlyWhenFull
  <2> QED BY <1>2, <2>2, <2>3 DEF WStart
<1>3. CASE WCancel
  <2>1. w.st = "up" /\ ~w.refill
    BY <1>3 DEF WCancel, Selecting
  <2>2. CASE UNCHANGED w
    BY <2>2, SameQueue
  <2>3. CASE \E k \in 1..Len(w.pending) : w' = [w EXCEPT !.pending = Without(@, k)]
    <3>1. w'.active = w.active /\ w'.st = w.st
      BY <1>0, <2>3 DEF Worker
    <3>2. w.pending # <<>>
      BY <2>3, WorkerParts
    <3>3. w.active = MaxActive
      BY <2>1, <3>2 DEF QueueInv, QueueOnlyWhenFull
    <3> QED BY <2>1, <3>1, <3>3 DEF QueueInv, QueueOnlyWhenFull
  <2> QED BY <1>3, <2>2, <2>3 DEF WCancel
<1>4. CASE WDone \/ WRefill
  <2>1. w'.refill /\ w'.st = "up"
    BY <1>0, <1>4 DEF WDone, WRefill, Selecting, Worker
  <2> QED BY <2>1 DEF QueueInv, QueueOnlyWhenFull
<1>5. CASE WRefillEnd
  <2>1. /\ w.st = "up" /\ ~CanRefill
        /\ w'.active = w.active /\ w'.pending = w.pending /\ w'.st = w.st
    BY <1>0, <1>5 DEF WRefillEnd, Worker
  <2> QED BY <2>1, WorkerParts DEF QueueInv, QueueOnlyWhenFull, CanRefill
<1>6. CASE WReturn
  <2>1. w'.pending = <<>>
    BY <1>6 DEF WReturn, FreshWorker
  <2> QED BY <2>1, EmptyQueue
<1> QED BY <1>1, <1>2, <1>3, <1>4, <1>5, <1>6 DEF WLoop

LEMMA QueueStep == TypeInv /\ QueueInv /\ [Next]_vars => QueueInv'
<1> SUFFICES ASSUME TypeInv, QueueInv, [Next]_vars PROVE QueueInv'
  OBVIOUS
<1>0. w \in Worker
  BY TypeInvParts
<1>1. CASE UNCHANGED w
  BY <1>1, SameQueue
<1>2. CASE ReconnectClick \/ ReconnectDue
  <2>1. w'.pending = <<>>
    BY <1>2 DEF ReconnectClick, ReconnectDue, ReplaceWorker, FreshWorker
  <2> QED BY <2>1, EmptyQueue
<1>3. CASE \E sp \in Specs, p \in Policies : StartNew(sp, p) \/ StartAgain(sp, p)
  BY <1>1, <1>3 DEF StartNew, StartAgain
<1>4. CASE \E i \in Id : Resume(i) \/ Cancel(i) \/ Remove(i)
  BY <1>1, <1>4 DEF Resume, Cancel, Remove
<1>5. CASE Drain \/ ResendPaused \/ ResendEnd
  BY <1>1, <1>5 DEF Drain, OnConnected, OnShellExited, OnXferStart, OnXferDone,
                    OnDisconnected, ResendPaused, ResendEnd
<1>6. CASE WConnect \/ WConnectFail \/ WLoop \/ WShellExit \/ WLost \/ WReturn
  BY <1>6, QueueWorkerStep
<1>7. CASE \E s \in Slots : TaskStep(s)
  <2>1. PICK s \in Slots : TaskStep(s)
    BY <1>7
  <2>2. CASE UNCHANGED w
    BY <2>2, SameQueue
  <2>3. CASE w' = [w EXCEPT !.doneQ = Append(@, tasks[s].id)]
    <3>1. /\ w'.active = w.active /\ w'.pending = w.pending
          /\ w'.refill = w.refill /\ w'.st = w.st
      BY <1>0, <2>3 DEF Worker
    <3> QED BY <3>1, SameQueue
  <2> QED BY <2>1, <2>2, <2>3
          DEF TaskStep, TaskAnnounce, TaskFinish, TaskStop, TaskExit, OldTaskExit
<1>8. CASE UNCHANGED vars
  BY <1>1, <1>8 DEF vars
<1> QED BY <1>2, <1>3, <1>4, <1>5, <1>6, <1>7, <1>8 DEF Next, Click, UiStep

\* A transfer only waits in the worker's queue while every slot is taken: each
\* path that frees a slot goes through the refill loop before the next select.
THEOREM QueuedOnlyWhenFull == Spec => []QueueOnlyWhenFull
<1>1. Init => TypeInv /\ QueueInv
  <2>1. Init => w.pending = <<>>
    BY DEF Init, FreshWorker
  <2> QED BY <2>1, TypeInit DEF QueueInv, QueueOnlyWhenFull
<1>2. (TypeInv /\ QueueInv) /\ [Next]_vars => (TypeInv /\ QueueInv)'
  BY TypeStep, QueueStep
<1>3. TypeInv /\ QueueInv => QueueOnlyWhenFull
  BY DEF QueueInv
<1> QED BY <1>1, <1>2, <1>3, PTL DEF Spec


-----------------------------------------------------------------------------
(* Counting in a channel or a queue: how many of its elements are in S.      *)

Positions(q, S) == {k \in 1..Len(q) : q[k] \in S}
Count(q, S) == Cardinality(Positions(q, S))

LEMMA CountType ==
  ASSUME NEW T, NEW q \in Seq(T), NEW S
  PROVE  /\ IsFiniteSet(Positions(q, S)) /\ Count(q, S) \in Nat
         /\ Count(q, S) = 0 <=> \A k \in 1..Len(q) : q[k] \notin S
<1>1. IsFiniteSet(1..Len(q))
  BY FS_Interval
<1>2. Positions(q, S) \in SUBSET (1..Len(q))
  BY DEF Positions
<1>3. IsFiniteSet(Positions(q, S)) /\ Cardinality(Positions(q, S)) \in Nat
  BY <1>1, <1>2, FS_Subset, FS_CardinalityType
<1>4. Cardinality(Positions(q, S)) = 0 <=> Positions(q, S) = {}
  BY <1>3, FS_EmptySet
<1> QED BY <1>3, <1>4 DEF Count, Positions

LEMMA CountEmpty == \A S : Count(<<>>, S) = 0
<1> SUFFICES ASSUME NEW S PROVE Count(<<>>, S) = 0
  OBVIOUS
<1>1. Positions(<<>>, S) = {}
  <2>1. 1..Len(<<>>) = {}
    OBVIOUS
  <2> QED BY <2>1 DEF Positions
<1> QED BY <1>1, FS_EmptySet DEF Count

LEMMA CountAppend ==
  ASSUME NEW T, NEW q \in Seq(T), NEW S, NEW e
  PROVE  Count(Append(q, e), S) = Count(q, S) + (IF e \in S THEN 1 ELSE 0)
<1> DEFINE r == Append(q, e)
           n == Len(q) + 1
<1>1. /\ Len(r) = n /\ r[n] = e /\ n \notin 1..Len(q)
      /\ 1..n = (1..Len(q)) \cup {n}
      /\ \A k \in 1..Len(q) : r[k] = q[k]
  OBVIOUS
<1> HIDE DEF r, n
<1>2. Positions(r, S) = Positions(q, S) \cup (IF e \in S THEN {n} ELSE {})
  BY <1>1 DEF Positions
<1>3. n \notin Positions(q, S)
  BY <1>1 DEF Positions
<1>4. IsFiniteSet(Positions(q, S)) /\ Cardinality(Positions(q, S)) \in Nat
  BY CountType DEF Count
<1>5. CASE e \in S
  <2>1. Positions(r, S) = Positions(q, S) \cup {n}
    BY <1>2, <1>5
  <2>2. Cardinality(Positions(r, S)) = Cardinality(Positions(q, S)) + 1
    BY <1>3, <1>4, <2>1, FS_AddElement
  <2> QED BY <1>5, <2>2 DEF Count, r
<1>6. CASE e \notin S
  <2>1. Positions(r, S) = Positions(q, S)
    BY <1>2, <1>6
  <2> QED BY <1>4, <1>6, <2>1 DEF Count, r
<1> QED BY <1>5, <1>6

\* Sequence r is q without its element k.
Dropped(r, q, k) ==
    /\ Len(r) = Len(q) - 1
    /\ \A j \in 1..(k - 1) : r[j] = q[j]
    /\ \A j \in k..(Len(q) - 1) : r[j] = q[j + 1]

LEMMA CountDropped ==
  ASSUME NEW T, NEW q \in Seq(T), NEW r \in Seq(T), NEW S, NEW k \in 1..Len(q),
         Dropped(r, q, k)
  PROVE  Count(r, S) = Count(q, S) - (IF q[k] \in S THEN 1 ELSE 0)
<1> DEFINE P == Positions(r, S)
           Q == Positions(q, S) \ {k}
           f == [j \in P |-> IF j < k THEN j ELSE j + 1]
           g == [j \in Q |-> IF j < k THEN j ELSE j - 1]
<1>1. Len(q) \in Nat /\ Len(r) \in Nat /\ k \in Nat /\ Len(r) = Len(q) - 1
  BY DEF Dropped
<1>2. \A j \in P : f[j] \in Q
  <2> SUFFICES ASSUME NEW j \in P PROVE f[j] \in Q
    OBVIOUS
  <2>1. j \in 1..Len(r) /\ r[j] \in S
    BY DEF Positions
  <2>2. CASE j < k
    <3>1. j \in 1..(k - 1) /\ j \in 1..Len(q) /\ j # k
      BY <1>1, <2>1, <2>2
    <3>2. q[j] \in S
      BY <2>1, <3>1 DEF Dropped
    <3> QED BY <2>2, <3>1, <3>2 DEF Positions
  <2>3. CASE ~(j < k)
    <3>1. j \in k..(Len(q) - 1) /\ j + 1 \in 1..Len(q) /\ j + 1 # k
      BY <1>1, <2>1, <2>3
    <3>2. q[j + 1] \in S
      BY <2>1, <3>1 DEF Dropped
    <3> QED BY <2>3, <3>1, <3>2 DEF Positions
  <2> QED BY <2>2, <2>3
<1>3. \A j \in Q : g[j] \in P /\ f[g[j]] = j
  <2> SUFFICES ASSUME NEW j \in Q PROVE g[j] \in P /\ f[g[j]] = j
    OBVIOUS
  <2>1. j \in 1..Len(q) /\ q[j] \in S /\ j # k
    BY DEF Positions
  <2>2. CASE j < k
    <3>1. j \in 1..(k - 1) /\ j \in 1..Len(r)
      BY <1>1, <2>1, <2>2
    <3>2. r[j] \in S
      BY <2>1, <3>1 DEF Dropped
    <3>3. j \in P /\ g[j] = j
      BY <2>2, <3>1, <3>2 DEF Positions
    <3> QED BY <2>2, <3>3
  <2>3. CASE ~(j < k)
    <3>1. j - 1 \in k..(Len(q) - 1) /\ j - 1 \in 1..Len(r) /\ (j - 1) + 1 = j /\ ~(j - 1 < k)
      BY <1>1, <2>1, <2>3
    <3>2. r[j - 1] \in S
      BY <2>1, <3>1 DEF Dropped
    <3>3. j - 1 \in P /\ g[j] = j - 1
      BY <2>3, <3>1, <3>2 DEF Positions
    <3> QED BY <3>1, <3>3
  <2> QED BY <2>2, <2>3
<1>4. \A i, j \in P : f[i] = f[j] => i = j
  <2>1. P \subseteq Nat
    BY <1>1 DEF Positions
  <2> HIDE DEF P
  <2> QED BY <1>1, <2>1
<1>5. f \in Bijection(P, Q)
  <2>1. f \in [P -> Q]
    BY <1>2
  <2>2. f \in Surjection(P, Q)
    BY <1>3, <2>1 DEF Surjection
  <2> HIDE DEF f, P, Q
  <2>3. f \in Injection(P, Q)
    BY <1>4, <2>1 DEF Injection, IsInjective
  <2> QED BY <2>2, <2>3 DEF Bijection
<1> HIDE DEF f, g
<1>6. IsFiniteSet(P) /\ IsFiniteSet(Positions(q, S)) /\ Count(q, S) \in Nat
  BY CountType
<1>7. Cardinality(Q) = Cardinality(P)
  BY <1>5, <1>6, FS_Bijection DEF ExistsBijection
<1>8. Cardinality(Q) = IF k \in Positions(q, S) THEN Count(q, S) - 1 ELSE Count(q, S)
  BY <1>6, FS_RemoveElement DEF Count
<1>9. k \in Positions(q, S) <=> q[k] \in S
  BY DEF Positions
<1> QED BY <1>6, <1>7, <1>8, <1>9 DEF Count

LEMMA CountTail ==
  ASSUME NEW T, NEW q \in Seq(T), NEW S, q # <<>>
  PROVE  Count(Tail(q), S) = Count(q, S) - (IF Head(q) \in S THEN 1 ELSE 0)
<1>1. /\ Tail(q) \in Seq(T) /\ Head(q) = q[1] /\ 1 \in 1..Len(q)
      /\ Len(Tail(q)) = Len(q) - 1
      /\ \A j \in 1..(Len(q) - 1) : Tail(q)[j] = q[j + 1]
  OBVIOUS
<1>2. Dropped(Tail(q), q, 1)
  BY <1>1 DEF Dropped
<1> DEFINE r == Tail(q)
<1>3. r \in Seq(T) /\ Dropped(r, q, 1)
  BY <1>1, <1>2
<1> HIDE DEF r
<1>4. Count(r, S) = Count(q, S) - (IF q[1] \in S THEN 1 ELSE 0)
  BY <1>1, <1>3, CountDropped
<1> QED BY <1>1, <1>4 DEF r

LEMMA CountWithout ==
  ASSUME NEW T, NEW q \in Seq(T), NEW S, NEW k \in 1..Len(q)
  PROVE  Count(Without(q, k), S) = Count(q, S) - (IF q[k] \in S THEN 1 ELSE 0)
<1> DEFINE a == SubSeq(q, 1, k - 1)
           b == SubSeq(q, k + 1, Len(q))
<1>1. Len(q) \in Nat /\ k \in Nat /\ k >= 1 /\ k <= Len(q)
  OBVIOUS
<1>2. /\ a \in Seq(T) /\ Len(a) = k - 1 /\ \A j \in 1..(k - 1) : a[j] = q[j]
  BY <1>1
<1>3. /\ b \in Seq(T) /\ Len(b) = Len(q) - k
      /\ \A j \in 1..(Len(q) - k) : b[j] = q[j + k]
  BY <1>1
<1>4. Without(q, k) = a \o b
  BY DEF Without
<1> HIDE DEF a, b
<1>c. Len(a) + Len(b) = Len(q) - 1
  BY <1>1, <1>2, <1>3
<1>d. /\ a \o b \in Seq(T) /\ Len(a \o b) = Len(a) + Len(b)
      /\ \A j \in 1..Len(a) : (a \o b)[j] = a[j]
  <2>1. a \in Seq(T) /\ b \in Seq(T)
    BY <1>2, <1>3
  <2> QED BY <2>1
<1>5. /\ a \o b \in Seq(T) /\ Len(a \o b) = Len(q) - 1
      /\ \A j \in 1..(k - 1) : (a \o b)[j] = a[j]
  BY <1>2, <1>c, <1>d
<1>6. \A j \in k..(Len(q) - 1) : (a \o b)[j] = b[j - (k - 1)]
  BY <1>1, <1>2, <1>3
<1>7. \A j \in k..(Len(q) - 1) : j - (k - 1) \in 1..(Len(q) - k) /\ (j - (k - 1)) + k = j + 1
  BY <1>1
<1>8. \A j \in k..(Len(q) - 1) : (a \o b)[j] = q[j + 1]
  BY <1>3, <1>6, <1>7
<1>9. Dropped(a \o b, q, k)
  BY <1>2, <1>5, <1>8 DEF Dropped
<1> DEFINE r == a \o b
<1>10. r \in Seq(T) /\ Dropped(r, q, k)
  BY <1>5, <1>9
<1> HIDE DEF r
<1>11. Count(r, S) = Count(q, S) - (IF q[k] \in S THEN 1 ELSE 0)
  BY <1>10, CountDropped
<1> QED BY <1>4, <1>11 DEF r


-----------------------------------------------------------------------------
(* One attempt at a time.  The attempts of a transfer are counted where they  *)
(* are: a start command in the channel of a worker that still reads it, a     *)
(* queued job, a task that has not reported, a report not yet drained.  A     *)
(* click asks for an attempt only where the row says that none is under way,  *)
(* so the row's state and the four places must be related: RowInv.            *)

Up == w.st \in {"connecting", "up"}
StartsOf(i) == {c \in Cmd : c.op = "start" /\ c.id = i}
JobsOf(i)   == {j \in Job : j.id = i}
DonesOf(i)  == {e \in Evt : e.ev = "xferDone" /\ e.id = i}
Running(i)  == {s \in Busy : Working(s) /\ tasks[s].id = i}

Begun(i)  == IF Up THEN Count(cmds, StartsOf(i)) ELSE 0
Queued(i) == Count(w.pending, JobsOf(i))
Ran(i)    == Cardinality(Running(i))
Told(i)   == Count(evts, DonesOf(i))
Attempts(i) == Begun(i) + Queued(i) + Ran(i) + Told(i)

LEMMA RunningFinite ==
  ASSUME NEW i
  PROVE  IsFiniteSet(Running(i)) /\ Ran(i) \in Nat
<1>1. Running(i) \in SUBSET Busy
  BY DEF Running
<1>2. IsFiniteSet(Running(i))
  BY <1>1, BusyFinite, FS_Subset
<1> QED BY <1>2, FS_CardinalityType DEF Ran

LEMMA PartsNat ==
  ASSUME TypeInv, NEW i \in Id
  PROVE  /\ Begun(i) \in Nat /\ Queued(i) \in Nat /\ Ran(i) \in Nat /\ Told(i) \in Nat
         /\ Attempts(i) \in Nat
<1>1. cmds \in Seq(Cmd) /\ w.pending \in Seq(Job) /\ evts \in Seq(Evt)
  BY TypeInvParts, WorkerParts DEF EvtsOK
<1>2. Count(cmds, StartsOf(i)) \in Nat /\ Queued(i) \in Nat /\ Told(i) \in Nat
  BY <1>1, CountType DEF Queued, Told
<1>3. Begun(i) \in Nat /\ Ran(i) \in Nat
  BY <1>2, RunningFinite DEF Begun
<1> QED BY <1>2, <1>3 DEF Attempts

\* The four places when nothing happens to them.
LEMMA SamePlaces ==
  ASSUME NEW i
  PROVE  /\ UNCHANGED cmds /\ Up' = Up => Begun(i)' = Begun(i)
         /\ w'.pending = w.pending => Queued(i)' = Queued(i)
         /\ UNCHANGED tasks => Ran(i)' = Ran(i)
         /\ UNCHANGED evts => Told(i)' = Told(i)
<1>1. UNCHANGED cmds /\ Up' = Up => Begun(i)' = Begun(i)
  BY DEF Begun
<1>2. w'.pending = w.pending => Queued(i)' = Queued(i)
  BY DEF Queued
<1>3. UNCHANGED tasks => Running(i)' = Running(i)
  BY DEF Running, Busy, Current, Live, Working
<1> QED BY <1>1, <1>2, <1>3 DEF Ran, Told

\* A step that only wakes tasks, or moves them between two states of work.
LEMMA SameRan ==
  ASSUME NEW i, \A s \in Slots : tasks'[s] = tasks[s] \/
           /\ tasks'[s].old = tasks[s].old /\ tasks'[s].id = tasks[s].id
           /\ Live(s) /\ Live(s)' /\ (Working(s)' = Working(s))
  PROVE  Running(i)' = Running(i) /\ Ran(i)' = Ran(i)
<1>1. Running(i)' = Running(i)
  BY DEF Running, Busy, Current, Live, Working
<1> QED BY <1>1 DEF Ran

LEMMA WakeRan ==
  ASSUME tasks \in [Slots -> Task], NEW woken \in SUBSET Busy, NEW i,
         tasks' = [s \in Slots |-> IF s \in woken
                                   THEN [tasks[s] EXCEPT !.stop = TRUE]
                                   ELSE tasks[s]]
  PROVE  Running(i)' = Running(i) /\ Ran(i)' = Ran(i)
<1>1. \A s \in Slots : s \notin woken => tasks'[s] = tasks[s]
  OBVIOUS
<1>2. \A s \in woken : /\ tasks'[s].st = tasks[s].st /\ tasks'[s].old = tasks[s].old
                       /\ tasks'[s].id = tasks[s].id /\ Live(s)
  <2>1. \A s \in woken : s \in Slots /\ tasks'[s] = [tasks[s] EXCEPT !.stop = TRUE] /\ Live(s)
    BY DEF Busy, Current
  <2>2. \A s \in Slots : /\ [tasks[s] EXCEPT !.stop = TRUE].st = tasks[s].st
                         /\ [tasks[s] EXCEPT !.stop = TRUE].old = tasks[s].old
                         /\ [tasks[s] EXCEPT !.stop = TRUE].id = tasks[s].id
    BY DEF Task
  <2> QED BY <2>1, <2>2
<1>3. \A s \in woken : Live(s)' /\ (Working(s)' = Working(s))
  BY <1>2 DEF Live, Working
<1> QED BY <1>1, <1>2, <1>3, SameRan

\* start_xfer puts one more task to work, on the job's transfer.
LEMMA StartRan ==
  ASSUME tasks \in [Slots -> Task], NEW job, StartXfer(job), NEW i
  PROVE  /\ Running(i) \subseteq Running(i)'
         /\ Ran(i)' = Ran(i) + (IF i = job.id THEN 1 ELSE 0)
<1>1. PICK s \in Slots : ~Live(s) /\ tasks' = [t \in Slots |->
             IF t = s
             THEN [st |-> "opening", id |-> job.id, pol |-> job.pol,
                   stop |-> FALSE, old |-> FALSE]
             ELSE IF Current(t) /\ tasks[t].id = job.id
             THEN [tasks[t] EXCEPT !.stop = TRUE]
             ELSE tasks[t]]
  BY DEF StartXfer
<1>2. \A t \in Slots : /\ [tasks[t] EXCEPT !.stop = TRUE].st = tasks[t].st
                       /\ [tasks[t] EXCEPT !.stop = TRUE].old = tasks[t].old
                       /\ [tasks[t] EXCEPT !.stop = TRUE].id = tasks[t].id
  BY DEF Task
<1>3. \A t \in Slots : t # s => /\ tasks'[t].st = tasks[t].st
                                /\ tasks'[t].old = tasks[t].old
                                /\ tasks'[t].id = tasks[t].id
  BY <1>1, <1>2
<1>4. tasks'[s].st = "opening" /\ tasks'[s].old = FALSE /\ tasks'[s].id = job.id
  BY <1>1
<1>5. s \notin Running(i)
  BY <1>1 DEF Running, Busy, Current
<1>6. CASE i = job.id
  <2>1. Running(i)' = Running(i) \cup {s}
    BY <1>1, <1>3, <1>4, <1>6 DEF Running, Busy, Current, Live, Working
  <2>2. Cardinality(Running(i)') = Cardinality(Running(i)) + 1
    BY <1>5, <2>1, RunningFinite, FS_AddElement
  <2> QED BY <1>6, <2>1, <2>2 DEF Ran
<1>7. CASE i # job.id
  <2>1. Running(i)' = Running(i)
    BY <1>1, <1>3, <1>4, <1>7 DEF Running, Busy, Current, Live, Working
  <2> QED BY <1>7, <2>1, RunningFinite DEF Ran
<1> QED BY <1>6, <1>7

\* A task that reports is no longer at work.
LEMMA ReportRan ==
  ASSUME tasks \in [Slots -> Task], NEW s \in Slots, Current(s), Working(s), NEW i,
         tasks' = [tasks EXCEPT ![s].st = "reported"]
  PROVE  /\ i # tasks[s].id => Running(i)' = Running(i)
         /\ Ran(i)' = Ran(i) - (IF i = tasks[s].id THEN 1 ELSE 0)
<1>1. /\ \A t \in Slots : t # s => tasks'[t] = tasks[t]
      /\ tasks'[s].st = "reported" /\ tasks'[s].old = tasks[s].old
      /\ tasks'[s].id = tasks[s].id
  BY DEF Task
<1>2. Running(i)' = Running(i) \ {s}
  BY <1>1 DEF Running, Busy, Current, Live, Working
<1>3. s \in Running(i) <=> i = tasks[s].id
  BY DEF Running, Busy
<1>4. Cardinality(Running(i)') = IF i = tasks[s].id THEN Ran(i) - 1 ELSE Ran(i)
  <2>1. Cardinality(Running(i) \ {s}) = IF s \in Running(i) THEN Cardinality(Running(i)) - 1
                                         ELSE Cardinality(Running(i))
    BY RunningFinite, FS_RemoveElement, Zenon
  <2> QED BY <1>2, <1>3, <2>1 DEF Ran
<1> QED BY <1>2, <1>3, <1>4, RunningFinite DEF Ran

LEMMA SendTold ==
  ASSUME EvtsOK, NEW e \in Evt, Send(e), NEW i
  PROVE  Told(i)' = Told(i) + (IF e.ev = "xferDone" /\ e.id = i THEN 1 ELSE 0)
<1>1. evts \in Seq(Evt) /\ evts' = Append(evts, e)
  BY DEF EvtsOK, Send
<1>2. e \in DonesOf(i) <=> e.ev = "xferDone" /\ e.id = i
  BY DEF DonesOf
<1> QED BY <1>1, <1>2, CountAppend DEF Told

LEMMA DrainTold ==
  ASSUME EvtsOK, evts # <<>>, evts' = Tail(evts), NEW i
  PROVE  Told(i)' = Told(i) - (IF Head(evts).ev = "xferDone" /\ Head(evts).id = i THEN 1 ELSE 0)
<1>1. evts \in Seq(Evt) /\ Head(evts) \in Evt
  BY HeadTail DEF EvtsOK
<1>2. Head(evts) \in DonesOf(i) <=> Head(evts).ev = "xferDone" /\ Head(evts).id = i
  BY <1>1 DEF DonesOf
<1> QED BY <1>1, <1>2, CountTail DEF Told

\* A command sent, and a command taken by the worker.
LEMMA AskBegun ==
  ASSUME cmds \in Seq(Cmd), NEW c \in Cmd, cmds' = Append(cmds, c), Up' = Up, NEW i
  PROVE  Begun(i)' = Begun(i) + (IF Up /\ c.op = "start" /\ c.id = i THEN 1 ELSE 0)
<1>1. c \in StartsOf(i) <=> c.op = "start" /\ c.id = i
  BY DEF StartsOf
<1>2. Count(cmds', StartsOf(i))
        = Count(cmds, StartsOf(i)) + (IF c \in StartsOf(i) THEN 1 ELSE 0)
  BY CountAppend
<1>3. Count(cmds, StartsOf(i)) \in Nat
  BY CountType
<1> QED BY <1>1, <1>2, <1>3 DEF Begun

LEMMA TakeBegun ==
  ASSUME cmds \in Seq(Cmd), cmds # <<>>, cmds' = Tail(cmds), Up, Up', NEW i
  PROVE  Begun(i)' = Begun(i) - (IF Head(cmds).op = "start" /\ Head(cmds).id = i THEN 1 ELSE 0)
<1>1. Head(cmds) \in Cmd
  BY HeadTail
<1>2. Head(cmds) \in StartsOf(i) <=> Head(cmds).op = "start" /\ Head(cmds).id = i
  BY <1>1 DEF StartsOf
<1>3. Count(cmds', StartsOf(i))
        = Count(cmds, StartsOf(i)) - (IF Head(cmds) \in StartsOf(i) THEN 1 ELSE 0)
  BY CountTail
<1> QED BY <1>2, <1>3 DEF Begun


\* What the worker and its tasks do to the attempts: they move them along, and
\* lose some only when the worker stops.
Moved(i) == Attempts(i)' <= Attempts(i) /\ (Up' => Up /\ Attempts(i)' = Attempts(i))

LEMMA WorkerMoves ==
  ASSUME TypeInv, NEW i \in Id,
         \/ WConnect \/ WConnectFail \/ WLoop \/ WShellExit \/ WLost \/ WReturn
  PROVE  Moved(i)
<1>0. /\ cmds \in Seq(Cmd) /\ EvtsOK /\ w \in Worker /\ tasks \in [Slots -> Task]
      /\ w.pending \in Seq(Job)
  BY TypeInvParts, WorkerParts
<1>a. /\ Begun(i) \in Nat /\ Queued(i) \in Nat /\ Ran(i) \in Nat /\ Told(i) \in Nat
  BY PartsNat
<1>b. \A k \in {"connected", "shellExited", "disconnected"} :
        Send([ev |-> k]) => Told(i)' = Told(i)
  <2> SUFFICES ASSUME NEW k \in {"connected", "shellExited", "disconnected"}, Send([ev |-> k])
               PROVE  Told(i)' = Told(i)
    OBVIOUS
  <2>1. [ev |-> k] \in Evt /\ [ev |-> k].ev # "xferDone"
    BY DEF Evt
  <2> QED BY <1>0, <1>a, <2>1, SendTold
<1>1. CASE WConnect \/ WShellExit
  <2>1. /\ Up /\ Up' /\ w'.pending = w.pending /\ UNCHANGED <<cmds, tasks>>
    BY <1>0, <1>1 DEF WConnect, WShellExit, Selecting, Up, Worker
  <2>2. Told(i)' = Told(i)
    BY <1>1, <1>b DEF WConnect, WShellExit
  <2> QED BY <1>a, <2>1, <2>2, SamePlaces DEF Moved, Attempts
<1>2. CASE WConnectFail \/ WLost
  <2>1. /\ ~Up' /\ w'.pending = w.pending /\ UNCHANGED <<cmds, tasks>>
    BY <1>0, <1>2 DEF WConnectFail, WLost, Up, Worker
  <2>2. Told(i)' = Told(i)
    BY <1>2, <1>b DEF WConnectFail, WLost
  <2>3. Begun(i)' = 0
    BY <2>1 DEF Begun
  <2> QED BY <1>a, <2>1, <2>2, <2>3, SamePlaces DEF Moved, Attempts
<1>3. CASE WStart
  <2> DEFINE job == [id |-> Head(cmds).id, pol |-> Head(cmds).pol]
  <2>1. /\ Up /\ cmds # <<>> /\ Head(cmds).op = "start" /\ cmds' = Tail(cmds)
        /\ UNCHANGED evts
    BY <1>3 DEF WStart, Selecting, Up
  <2>2. Head(cmds) \in Cmd
    BY <1>0, <2>1, HeadTail
  <2>3. job \in Job
    BY <2>1, <2>2 DEF Cmd, Job
  <2>4. job.id = Head(cmds).id
    OBVIOUS
  <2>5. Told(i)' = Told(i)
    BY <2>1, SamePlaces
  <2>6. CASE /\ StartXfer(job)
             /\ w' = [w EXCEPT !.active = @ + 1, !.cancels = @ \cup {job.id}]
    <3>1. w'.pending = w.pending /\ w'.st = w.st
      BY <1>0, <2>6 DEF Worker
    <3>2. Ran(i)' = Ran(i) + (IF i = job.id THEN 1 ELSE 0)
      BY <1>0, <2>6, StartRan
    <3>3. Up' /\ Queued(i)' = Queued(i)
      BY <2>1, <3>1, SamePlaces DEF Up
    <3>4. Begun(i)' = Begun(i) - (IF i = job.id THEN 1 ELSE 0)
      BY <1>0, <2>1, <3>3, TakeBegun
    <3> HIDE DEF job
    <3> QED BY <1>a, <2>1, <2>5, <3>2, <3>3, <3>4 DEF Moved, Attempts
  <2>7. CASE w' = [w EXCEPT !.pending = Append(@, job)] /\ UNCHANGED tasks
    <3>1. w'.pending = Append(w.pending, job) /\ w'.st = w.st
      BY <1>0, <2>7 DEF Worker
    <3>2. Ran(i)' = Ran(i) /\ Up'
      BY <2>1, <2>7, <3>1, SamePlaces DEF Up
    <3>3. Begun(i)' = Begun(i) - (IF i = job.id THEN 1 ELSE 0)
      BY <1>0, <2>1, <3>2, TakeBegun
    <3>4. job \in JobsOf(i) <=> i = job.id
      BY <2>3 DEF JobsOf
    <3> HIDE DEF job
    <3>5. Queued(i)' = Queued(i) + (IF i = job.id THEN 1 ELSE 0)
      BY <1>0, <3>1, <3>4, CountAppend DEF Queued
    <3> QED BY <1>a, <2>1, <2>5, <3>2, <3>3, <3>5 DEF Moved, Attempts
  <2> QED BY <1>3, <2>6, <2>7 DEF WStart
<1>4. CASE WCancel
  <2> DEFINE c == Head(cmds).id
             woken == {s \in Slots : Current(s) /\ tasks[s].id = c}
  <2>1. /\ Up /\ cmds # <<>> /\ Head(cmds).op = "cancel" /\ cmds' = Tail(cmds)
    BY <1>4 DEF WCancel, Selecting, Up
  <2>2. Head(cmds) \in Cmd
    BY <1>0, <2>1, HeadTail
  <2>3. c \in Id
    BY <2>1, <2>2 DEF Cmd
  <2>4. w'.st = w.st
    BY <1>0, <1>4 DEF WCancel, Worker
  <2>5. Up' /\ Begun(i)' = Begun(i)
    <3>1. Up'
      BY <2>1, <2>4 DEF Up
    <3> QED BY <1>0, <1>a, <2>1, <3>1, TakeBegun
  <2>6. \/ tasks' = [s \in Slots |-> IF s \in woken
                                     THEN [tasks[s] EXCEPT !.stop = TRUE]
                                     ELSE tasks[s]]
        \/ UNCHANGED tasks
    BY <1>4 DEF WCancel
  <2>7. woken \in SUBSET Busy
    BY DEF Busy
  <2> HIDE DEF woken, c
  <2>8. Ran(i)' = Ran(i)
    BY <1>0, <2>6, <2>7, WakeRan, SamePlaces
  <2>9. CASE UNCHANGED <<w, evts>>
    BY <1>a, <2>1, <2>5, <2>8, <2>9, SamePlaces DEF Moved, Attempts
  <2>10. CASE /\ \E k \in 1..Len(w.pending) :
                   QueuedAt(c, k) /\ w' = [w EXCEPT !.pending = Without(@, k)]
              /\ Send([ev |-> "xferDone", id |-> c, ok |-> FALSE])
    <3>1. PICK k \in 1..Len(w.pending) :
                 QueuedAt(c, k) /\ w' = [w EXCEPT !.pending = Without(@, k)]
      BY <2>10
    <3>2. w'.pending = Without(w.pending, k) /\ w.pending[k].id = c
      BY <1>0, <3>1 DEF Worker, QueuedAt
    <3>3. w.pending[k] \in JobsOf(i) <=> i = c
      BY <1>0, <3>2 DEF JobsOf
    <3>4. Queued(i)' = Queued(i) - (IF i = c THEN 1 ELSE 0)
      BY <1>0, <3>2, <3>3, CountWithout DEF Queued
    <3> DEFINE f == FALSE
               e == [ev |-> "xferDone", id |-> c, ok |-> f]
    <3>5. f \in BOOLEAN /\ Send([ev |-> "xferDone", id |-> c, ok |-> f])
      BY <2>10
    <3> HIDE DEF f
    <3>6. e \in Evt /\ e.ev = "xferDone" /\ e.id = c /\ Send(e)
      BY <2>3, <3>5 DEF Evt
    <3> HIDE DEF e
    <3>7. Told(i)' = Told(i) + (IF i = c THEN 1 ELSE 0)
      BY <1>0, <3>6, SendTold
    <3>8. CASE i = c
      <4>1. Queued(i)' = Queued(i) - 1 /\ Told(i)' = Told(i) + 1
        BY <1>a, <3>4, <3>7, <3>8
      <4>2. Attempts(i)' = Begun(i) + (Queued(i) - 1) + Ran(i) + (Told(i) + 1)
        BY <2>5, <2>8, <4>1, Zenon DEF Attempts
      <4>3. Begun(i) + (Queued(i) - 1) + Ran(i) + (Told(i) + 1) = Attempts(i)
        BY <1>a DEF Attempts
      <4> QED BY <2>1, <2>5, <4>2, <4>3, PartsNat DEF Moved
    <3>9. CASE i # c
      <4>1. Queued(i)' = Queued(i) /\ Told(i)' = Told(i)
        BY <1>a, <3>4, <3>7, <3>9
      <4> QED BY <1>a, <2>1, <2>5, <2>8, <4>1 DEF Moved, Attempts
    <3> QED BY <3>8, <3>9
  <2> QED BY <1>4, <2>9, <2>10 DEF WCancel, c
<1>5. CASE WDone
  <2> DEFINE c == Head(w.doneQ)
             woken == {s \in Slots : Current(s) /\ tasks[s].id = c}
  <2>1. /\ Up /\ w'.st = w.st /\ w'.pending = w.pending /\ UNCHANGED <<cmds, evts>>
    BY <1>0, <1>5 DEF WDone, Selecting, Up, Worker
  <2>2. tasks' = [s \in Slots |-> IF s \in woken
                                  THEN [tasks[s] EXCEPT !.stop = TRUE]
                                  ELSE tasks[s]]
    BY <1>5 DEF WDone
  <2>3. woken \in SUBSET Busy
    BY DEF Busy
  <2> HIDE DEF woken
  <2>4. Ran(i)' = Ran(i) /\ Up'
    BY <1>0, <2>1, <2>2, <2>3, WakeRan DEF Up
  <2> QED BY <1>a, <2>1, <2>4, SamePlaces DEF Moved, Attempts
<1>6. CASE WRefill
  <2> DEFINE job == Head(w.pending)
  <2>1. /\ StartXfer(job) /\ w.pending # <<>> /\ w.st = "up"
        /\ w' = [w EXCEPT !.active = @ + 1, !.pending = Tail(@),
                          !.cancels = @ \cup {job.id}]
        /\ UNCHANGED <<cmds, evts>>
    BY <1>6 DEF WRefill, CanRefill
  <2>2. w'.pending = Tail(w.pending) /\ w'.st = w.st
    BY <1>0, <2>1 DEF Worker
  <2>3. job \in Job
    BY <1>0, <2>1, HeadTail
  <2>4. Ran(i)' = Ran(i) + (IF i = job.id THEN 1 ELSE 0)
    BY <1>0, <2>1, StartRan
  <2>5. job \in JobsOf(i) <=> i = job.id
    BY <2>3 DEF JobsOf
  <2>6. Queued(i)' = Queued(i) - (IF i = job.id THEN 1 ELSE 0)
    BY <1>0, <2>1, <2>2, <2>5, CountTail DEF Queued
  <2>7. Up /\ Up'
    BY <2>1, <2>2 DEF Up
  <2>8. Begun(i)' = Begun(i) /\ Told(i)' = Told(i)
    BY <2>1, <2>7, SamePlaces
  <2> HIDE DEF job
  <2> QED BY <1>a, <2>4, <2>6, <2>7, <2>8 DEF Moved, Attempts
<1>7. CASE WRefillEnd
  <2>1. /\ Up /\ Up' /\ w'.pending = w.pending /\ UNCHANGED <<cmds, evts, tasks>>
    BY <1>0, <1>7 DEF WRefillEnd, Up, Worker
  <2> QED BY <1>a, <2>1, SamePlaces DEF Moved, Attempts
<1>8. CASE WReturn
  <2>1. tasks' = [s \in Slots |-> IF s \in Busy
                                  THEN [tasks[s] EXCEPT !.stop = TRUE]
                                  ELSE tasks[s]]
    BY <1>8 DEF WReturn, Busy
  <2>2. w'.pending = <<>> /\ ~Up' /\ UNCHANGED evts
    BY <1>8 DEF WReturn, FreshWorker, Up
  <2>3. Ran(i)' = Ran(i)
    BY <1>0, <2>1, WakeRan
  <2>4. Queued(i)' = 0
    BY <2>2, CountEmpty DEF Queued
  <2>5. Begun(i)' = 0
    BY <2>2 DEF Begun
  <2> QED BY <1>a, <2>2, <2>3, <2>4, <2>5, SamePlaces DEF Moved, Attempts
<1> QED BY <1>1, <1>2, <1>3, <1>4, <1>5, <1>6, <1>7, <1>8 DEF WLoop

LEMMA TaskMoves ==
  ASSUME TypeInv, NEW i \in Id, NEW s \in Slots, TaskStep(s)
  PROVE  Moved(i)
<1>0. EvtsOK /\ w \in Worker /\ tasks \in [Slots -> Task] /\ (Live(s) => tasks[s].id \in Id)
  BY TypeInvParts, WorkerParts DEF TasksOK, Live
<1>a. /\ Begun(i) \in Nat /\ Queued(i) \in Nat /\ Ran(i) \in Nat /\ Told(i) \in Nat
  BY PartsNat
<1>b. w'.st = w.st /\ w'.pending = w.pending /\ UNCHANGED cmds
  BY <1>0 DEF TaskStep, TaskAnnounce, TaskFinish, TaskStop, TaskExit, OldTaskExit, Worker
<1>c. Up' = Up
  BY <1>b DEF Up
<1>d. Begun(i)' = Begun(i) /\ Queued(i)' = Queued(i)
  BY <1>b, <1>c, SamePlaces
<1>1. CASE TaskAnnounce(s)
  <2> DEFINE e == [ev |-> "xferStart", id |-> tasks[s].id]
  <2>1. Send(e) /\ e \in Evt /\ e.ev # "xferDone"
    BY <1>0, <1>1 DEF TaskAnnounce, Current, Evt
  <2> HIDE DEF e
  <2>2. Told(i)' = Told(i)
    BY <1>0, <1>a, <2>1, SendTold
  <2>3. /\ \A t \in Slots : t # s => tasks'[t] = tasks[t]
        /\ tasks[s].st = "opening" /\ tasks'[s].st = "running"
        /\ tasks'[s].old = tasks[s].old /\ tasks'[s].id = tasks[s].id
    BY <1>0, <1>1 DEF TaskAnnounce, Task
  <2>4. Ran(i)' = Ran(i)
    BY <2>3, SameRan DEF Live, Working
  <2> QED BY <1>a, <1>c, <1>d, <2>2, <2>4 DEF Moved, Attempts
<1>2. CASE TaskFinish(s) \/ TaskStop(s)
  <2>1. /\ Current(s) /\ Working(s) /\ tasks' = [tasks EXCEPT ![s].st = "reported"]
        /\ \E ok \in BOOLEAN : Send([ev |-> "xferDone", id |-> tasks[s].id, ok |-> ok])
    BY <1>2 DEF TaskFinish, TaskStop
  <2>2. PICK ok \in BOOLEAN : Send([ev |-> "xferDone", id |-> tasks[s].id, ok |-> ok])
    BY <2>1
  <2> DEFINE e == [ev |-> "xferDone", id |-> tasks[s].id, ok |-> ok]
  <2>3. Send(e) /\ e \in Evt /\ e.ev = "xferDone" /\ e.id = tasks[s].id
    BY <1>0, <2>1, <2>2 DEF Current, Evt
  <2> HIDE DEF e
  <2>4. Told(i)' = Told(i) + (IF i = tasks[s].id THEN 1 ELSE 0)
    BY <1>0, <2>3, SendTold
  <2>5. Ran(i)' = Ran(i) - (IF i = tasks[s].id THEN 1 ELSE 0)
    BY <1>0, <2>1, ReportRan
  <2> QED BY <1>a, <1>c, <1>d, <2>4, <2>5 DEF Moved, Attempts
<1>3. CASE TaskExit(s) \/ OldTaskExit(s)
  <2>1. /\ tasks' = [tasks EXCEPT ![s] = FreeTask] /\ UNCHANGED evts
        /\ tasks[s].old \/ tasks[s].st = "reported"
    BY <1>3 DEF TaskExit, OldTaskExit
  <2>2. tasks'[s].st = "free" /\ \A t \in Slots : t # s => tasks'[t] = tasks[t]
    BY <1>0, <2>1 DEF FreeTask
  <2>3. Running(i)' = Running(i)
    BY <2>1, <2>2 DEF Running, Busy, Current, Live, Working
  <2> QED BY <1>a, <1>c, <1>d, <2>1, <2>3, SamePlaces DEF Moved, Attempts, Ran
<1> QED BY <1>1, <1>2, <1>3 DEF TaskStep

\* A new worker knows of no attempt.
LEMMA ReplaceForgets ==
  ASSUME TypeInv, ReplaceWorker, NEW i \in Id
  PROVE  Attempts(i)' = 0 /\ evts' = <<>> /\ Up'
<1>1. cmds' = <<>> /\ evts' = <<>> /\ w'.pending = <<>> /\ Up'
  BY DEF ReplaceWorker, FreshWorker, Up
<1>3. Begun(i)' = 0 /\ Queued(i)' = 0 /\ Told(i)' = 0
  BY <1>1, CountEmpty DEF Begun, Queued, Told
<1>4. Busy' = {}
  <2>1. \A s \in Slots : Live(s) => [tasks[s] EXCEPT !.old = TRUE].old
    BY WorkerParts DEF Task, Live
  <2> QED BY <2>1 DEF ReplaceWorker, Busy, Current, Live
<1>5. Running(i)' = {}
  BY <1>4 DEF Running
<1>6. Ran(i)' = 0
  BY <1>5, FS_EmptySet DEF Ran
<1> QED BY <1>1, <1>3, <1>6 DEF Attempts


-----------------------------------------------------------------------------
(* What waits in the event channel: a disconnection is the last word of its   *)
(* worker, and a start that was announced is followed by its end.             *)

Pursued(k) == \/ \E m \in (k + 1)..Len(evts) : /\ evts[m].ev = "xferDone"
                                               /\ evts[m].id = evts[k].id
              \/ Running(evts[k].id) # {}

EvtInv == \A k \in 1..Len(evts) :
            /\ evts[k].ev = "disconnected" => ~Up
            /\ evts[k].ev = "xferStart" => Pursued(k)

LEMMA EvtSame ==
  ASSUME EvtsOK, EvtInv, Up' => Up, evts' = evts,
         \A i \in Id : Running(i) # {} => Running(i)' # {}
  PROVE  EvtInv'
<1> SUFFICES ASSUME NEW k \in 1..Len(evts)
             PROVE  /\ evts[k].ev = "disconnected" => ~Up'
                    /\ evts[k].ev = "xferStart" => Pursued(k)'
  BY DEF EvtInv
<1>1. evts[k].ev = "disconnected" => ~Up'
  BY DEF EvtInv
<1>2. ASSUME evts[k].ev = "xferStart" PROVE Pursued(k)'
  <2>1. evts[k].id \in Id
    BY <1>2 DEF EvtsOK, Evt
  <2>2. Pursued(k)
    BY <1>2 DEF EvtInv
  <2>3. CASE Running(evts[k].id) # {}
    <3>1. Running(evts[k].id)' # {}
      BY <2>1, <2>3
    <3> QED BY <3>1 DEF Pursued
  <2>4. CASE \E m \in (k + 1)..Len(evts) : evts[m].ev = "xferDone" /\ evts[m].id = evts[k].id
    BY <2>4 DEF Pursued
  <2> QED BY <2>2, <2>3, <2>4 DEF Pursued
<1> QED BY <1>1, <1>2

LEMMA EvtGrow ==
  ASSUME EvtsOK, EvtInv, Up' => Up, NEW e \in Evt, Send(e),
         e.ev = "disconnected" => ~Up',
         e.ev = "xferStart" => Running(e.id)' # {},
         \A i \in Id : Running(i) # {} => Running(i)' # {} \/ (e.ev = "xferDone" /\ e.id = i)
  PROVE  EvtInv'
<1> DEFINE n == Len(evts) + 1
<1>1. /\ evts' = Append(evts, e) /\ Len(evts') = n /\ evts'[n] = e /\ Len(evts) \in Nat
      /\ \A k \in 1..Len(evts) : evts'[k] = evts[k] /\ k \in 1..n /\ n \in (k + 1)..n
      /\ \A k \in 1..n : k = n \/ k \in 1..Len(evts)
      /\ \A k \in 1..Len(evts) : \A m \in (k + 1)..Len(evts) :
           m \in (k + 1)..n /\ m \in 1..Len(evts)
  BY DEF EvtsOK, Send
<1> HIDE DEF n
<1> SUFFICES ASSUME NEW k \in 1..n
             PROVE  /\ evts'[k].ev = "disconnected" => ~Up'
                    /\ evts'[k].ev = "xferStart" => Pursued(k)'
  BY <1>1 DEF EvtInv
<1>2. CASE k = n
  BY <1>1, <1>2 DEF Pursued
<1>3. CASE k \in 1..Len(evts)
  <2>1. evts'[k] = evts[k]
    BY <1>1, <1>3
  <2>2. evts[k].ev = "disconnected" => ~Up'
    BY <1>3 DEF EvtInv
  <2>3. ASSUME evts[k].ev = "xferStart" PROVE Pursued(k)'
    <3>1. evts[k].id \in Id
      BY <1>3, <2>3 DEF EvtsOK, Evt
    <3>2. Pursued(k)
      BY <1>3, <2>3 DEF EvtInv
    <3>3. CASE Running(evts[k].id) # {}
      <4>0. PICK i \in Id : i = evts[k].id
        BY <3>1
      <4>1. CASE Running(i)' # {}
        BY <2>1, <4>0, <4>1 DEF Pursued
      <4>2. CASE e.ev = "xferDone" /\ e.id = i
        BY <1>1, <1>3, <2>1, <4>0, <4>2 DEF Pursued
      <4> QED BY <3>3, <4>0, <4>1, <4>2
    <3>4. CASE \E m \in (k + 1)..Len(evts) : evts[m].ev = "xferDone" /\ evts[m].id = evts[k].id
      <4>1. PICK m \in (k + 1)..Len(evts) : evts[m].ev = "xferDone" /\ evts[m].id = evts[k].id
        BY <3>4
      <4>2. m \in (k + 1)..n /\ evts'[m] = evts[m]
        BY <1>1, <1>3
      <4> QED BY <1>1, <2>1, <4>1, <4>2 DEF Pursued
    <3> QED BY <3>2, <3>3, <3>4 DEF Pursued
  <2> QED BY <2>1, <2>2, <2>3
<1> QED BY <1>1, <1>2, <1>3

LEMMA EvtDrain ==
  ASSUME EvtsOK, EvtInv, evts # <<>>, evts' = Tail(evts), UNCHANGED <<w, tasks>>
  PROVE  EvtInv'
<1> DEFINE n == Len(evts) - 1
<1>1. /\ Len(evts') = n
      /\ \A k \in 1..n : evts'[k] = evts[k + 1] /\ k + 1 \in 1..Len(evts)
      /\ \A k \in 1..n : \A m \in (k + 2)..Len(evts) :
           m - 1 \in (k + 1)..n /\ m - 1 \in 1..n /\ (m - 1) + 1 = m
      /\ \A k \in 1..n : (k + 1) + 1 = k + 2
  BY DEF EvtsOK
<1> HIDE DEF n
<1> SUFFICES ASSUME NEW k \in 1..n
             PROVE  /\ evts'[k].ev = "disconnected" => ~Up'
                    /\ evts'[k].ev = "xferStart" => Pursued(k)'
  BY <1>1 DEF EvtInv
<1>2. evts'[k] = evts[k + 1] /\ k + 1 \in 1..Len(evts)
  BY <1>1
<1>3. Up' = Up /\ \A i : Running(i)' = Running(i)
  BY DEF Up, Running, Busy, Current, Live, Working
<1>4. ASSUME evts[k + 1].ev = "xferStart" PROVE Pursued(k)'
  <2>1. Pursued(k + 1)
    BY <1>2, <1>4 DEF EvtInv
  <2>2. CASE Running(evts[k + 1].id) # {}
    BY <1>2, <1>3, <2>2 DEF Pursued
  <2>3. CASE \E m \in (k + 2)..Len(evts) : evts[m].ev = "xferDone" /\ evts[m].id = evts[k + 1].id
    <3>1. PICK m \in (k + 2)..Len(evts) : evts[m].ev = "xferDone" /\ evts[m].id = evts[k + 1].id
      BY <2>3
    <3>2. m - 1 \in (k + 1)..n /\ evts'[m - 1] = evts[m]
      BY <1>1
    <3> QED BY <1>1, <1>2, <3>1, <3>2 DEF Pursued
  <2> QED BY <1>1, <2>1, <2>2, <2>3 DEF Pursued
<1> QED BY <1>2, <1>3, <1>4 DEF EvtInv

LEMMA EvtWorker ==
  ASSUME TypeInv, EvtInv,
         \/ WConnect \/ WConnectFail \/ WLoop \/ WShellExit \/ WLost \/ WReturn
  PROVE  EvtInv'
<1>0. /\ cmds \in Seq(Cmd) /\ EvtsOK /\ w \in Worker /\ tasks \in [Slots -> Task]
      /\ w.pending \in Seq(Job)
  BY TypeInvParts, WorkerParts
<1>a. ASSUME NEW k \in {"connected", "shellExited", "disconnected"}
      PROVE  /\ [ev |-> k] \in Evt /\ [ev |-> k].ev # "xferStart"
             /\ [ev |-> k].ev = "disconnected" => k = "disconnected"
  BY <1>a DEF Evt
<1>1. CASE WConnect \/ WShellExit \/ WConnectFail \/ WLost
  <2>1. PICK k \in {"connected", "shellExited", "disconnected"} :
               Send([ev |-> k]) /\ (k = "disconnected" => ~Up')
    BY <1>0, <1>1 DEF WConnect, WShellExit, WConnectFail, WLost, Up, Worker
  <2>2. UNCHANGED tasks /\ (Up' => Up)
    BY <1>0, <1>1 DEF WConnect, WShellExit, WConnectFail, WLost, Selecting, Up
  <2>3. \A i : Running(i)' = Running(i)
    BY <2>2, SamePlaces DEF Running, Busy, Current, Live, Working
  <2> DEFINE e == [ev |-> k]
  <2>4. e \in Evt /\ e.ev # "xferStart" /\ (e.ev = "disconnected" => ~Up') /\ Send(e)
    BY <1>a, <2>1
  <2> HIDE DEF e
  <2> QED BY <1>0, <2>2, <2>3, <2>4, EvtGrow
<1>2. CASE WStart
  <2>1. Up /\ UNCHANGED evts
    BY <1>2 DEF WStart, Selecting, Up
  <2> DEFINE job == [id |-> Head(cmds).id, pol |-> Head(cmds).pol]
  <2>2. StartXfer(job) \/ UNCHANGED tasks
    BY <1>2 DEF WStart
  <2> HIDE DEF job
  <2>3. \A i \in Id : Running(i) # {} => Running(i)' # {}
    BY <1>0, <2>2, StartRan DEF Running, Busy, Current, Live, Working
  <2> QED BY <1>0, <2>1, <2>3, EvtSame
<1>3. CASE WCancel
  <2> DEFINE c == Head(cmds).id
             woken == {s \in Slots : Current(s) /\ tasks[s].id = c}
             f == FALSE
             e == [ev |-> "xferDone", id |-> c, ok |-> f]
  <2>1. Up /\ cmds # <<>> /\ Head(cmds).op = "cancel"
    BY <1>3 DEF WCancel, Selecting, Up
  <2>2. c \in Id
    BY <1>0, <2>1, HeadTail DEF Cmd
  <2>3. \/ tasks' = [s \in Slots |-> IF s \in woken
                                     THEN [tasks[s] EXCEPT !.stop = TRUE]
                                     ELSE tasks[s]]
        \/ UNCHANGED tasks
    BY <1>3 DEF WCancel
  <2>4. woken \in SUBSET Busy
    BY DEF Busy
  <2>5. UNCHANGED evts \/ Send(e)
    BY <1>3 DEF WCancel
  <2>6. f \in BOOLEAN
    OBVIOUS
  <2> HIDE DEF woken, c, f
  <2>7. e \in Evt /\ e.ev = "xferDone"
    BY <2>2, <2>6 DEF Evt
  <2> HIDE DEF e
  <2>8. ASSUME NEW i \in Id PROVE Running(i)' = Running(i)
    <3>1. UNCHANGED tasks => Running(i)' = Running(i)
      BY DEF Running, Busy, Current, Live, Working
    <3> QED BY <1>0, <2>3, <2>4, <3>1, WakeRan
  <2> QED BY <1>0, <2>1, <2>5, <2>7, <2>8, EvtSame, EvtGrow
<1>4. CASE WDone
  <2> DEFINE c == Head(w.doneQ)
             woken == {s \in Slots : Current(s) /\ tasks[s].id = c}
  <2>1. Up /\ UNCHANGED evts
    BY <1>4 DEF WDone, Selecting, Up
  <2>2. tasks' = [s \in Slots |-> IF s \in woken
                                  THEN [tasks[s] EXCEPT !.stop = TRUE]
                                  ELSE tasks[s]]
    BY <1>4 DEF WDone
  <2>3. woken \in SUBSET Busy
    BY DEF Busy
  <2> HIDE DEF woken
  <2>4. \A i \in Id : Running(i)' = Running(i)
    BY <1>0, <2>2, <2>3, WakeRan
  <2> QED BY <1>0, <2>1, <2>4, EvtSame
<1>5. CASE WRefill
  <2>1. Up /\ UNCHANGED evts /\ StartXfer(Head(w.pending))
    BY <1>5 DEF WRefill, Up
  <2>2. \A i \in Id : Running(i) # {} => Running(i)' # {}
    BY <1>0, <2>1, StartRan
  <2> QED BY <1>0, <2>1, <2>2, EvtSame
<1>6. CASE WRefillEnd
  <2>1. Up /\ UNCHANGED <<evts, tasks>>
    BY <1>6 DEF WRefillEnd, Up
  <2>2. \A i \in Id : Running(i)' = Running(i)
    BY <2>1 DEF Running, Busy, Current, Live, Working
  <2> QED BY <1>0, <2>1, <2>2, EvtSame
<1>7. CASE WReturn
  <2>1. tasks' = [s \in Slots |-> IF s \in Busy
                                  THEN [tasks[s] EXCEPT !.stop = TRUE]
                                  ELSE tasks[s]]
    BY <1>7 DEF WReturn, Busy
  <2>2. ~Up' /\ UNCHANGED evts
    BY <1>7 DEF WReturn, FreshWorker, Up
  <2>3. \A i \in Id : Running(i)' = Running(i)
    BY <1>0, <2>1, WakeRan
  <2> QED BY <1>0, <2>2, <2>3, EvtSame
<1> QED BY <1>1, <1>2, <1>3, <1>4, <1>5, <1>6, <1>7 DEF WLoop

LEMMA EvtTask ==
  ASSUME TypeInv, EvtInv, NEW s \in Slots, TaskStep(s)
  PROVE  EvtInv'
<1>0. EvtsOK /\ w \in Worker /\ tasks \in [Slots -> Task] /\ (Live(s) => tasks[s].id \in Id)
  BY TypeInvParts, WorkerParts DEF TasksOK, Live
<1>1. Up' = Up
  <2>1. w'.st = w.st
    BY <1>0 DEF TaskStep, TaskAnnounce, TaskFinish, TaskStop, TaskExit, OldTaskExit, Worker
  <2> QED BY <2>1 DEF Up
<1>2. CASE TaskAnnounce(s)
  <2>1. PICK e \in Evt : Send(e) /\ e.ev = "xferStart" /\ e.id = tasks[s].id
    <3> DEFINE d == [ev |-> "xferStart", id |-> tasks[s].id]
    <3>1. Send(d) /\ d \in Evt /\ d.ev = "xferStart" /\ d.id = tasks[s].id
      BY <1>0, <1>2 DEF TaskAnnounce, Current, Evt
    <3> HIDE DEF d
    <3> QED BY <3>1
  <2>2. /\ \A t \in Slots : t # s => tasks'[t] = tasks[t]
        /\ tasks[s].st = "opening" /\ tasks'[s].st = "running" /\ Current(s)
        /\ tasks'[s].old = tasks[s].old /\ tasks'[s].id = tasks[s].id
    BY <1>0, <1>2 DEF TaskAnnounce, Task
  <2>3. \A i \in Id : Running(i)' = Running(i)
    BY <2>2, SameRan DEF Live, Working
  <2>4. s \in Running(e.id)'
    BY <2>1, <2>2 DEF Running, Busy, Current, Live, Working
  <2>5. Running(e.id)' # {}
    BY <2>4
  <2> QED BY <1>0, <1>1, <2>1, <2>3, <2>5, EvtGrow
<1>3. CASE TaskFinish(s) \/ TaskStop(s)
  <2>1. /\ Current(s) /\ Working(s) /\ tasks' = [tasks EXCEPT ![s].st = "reported"]
        /\ \E ok \in BOOLEAN : Send([ev |-> "xferDone", id |-> tasks[s].id, ok |-> ok])
    BY <1>3 DEF TaskFinish, TaskStop
  <2>2. PICK ok \in BOOLEAN : Send([ev |-> "xferDone", id |-> tasks[s].id, ok |-> ok])
    BY <2>1
  <2> DEFINE e == [ev |-> "xferDone", id |-> tasks[s].id, ok |-> ok]
  <2>3. Send(e) /\ e \in Evt /\ e.ev = "xferDone" /\ e.id = tasks[s].id
    BY <1>0, <2>1, <2>2 DEF Current, Evt
  <2> HIDE DEF e
  <2>4. \A i \in Id : i # tasks[s].id => Running(i)' = Running(i)
    BY <1>0, <2>1, ReportRan
  <2> QED BY <1>0, <1>1, <2>3, <2>4, EvtGrow
<1>4. CASE TaskExit(s) \/ OldTaskExit(s)
  <2>1. /\ tasks' = [tasks EXCEPT ![s] = FreeTask] /\ UNCHANGED evts
        /\ tasks[s].old \/ tasks[s].st = "reported"
    BY <1>4 DEF TaskExit, OldTaskExit
  <2>2. tasks'[s].st = "free" /\ \A t \in Slots : t # s => tasks'[t] = tasks[t]
    BY <1>0, <2>1 DEF FreeTask
  <2>3. \A i \in Id : Running(i)' = Running(i)
    BY <2>1, <2>2 DEF Running, Busy, Current, Live, Working
  <2> QED BY <1>0, <1>1, <2>1, <2>3, EvtSame
<1> QED BY <1>2, <1>3, <1>4 DEF TaskStep

LEMMA EvtStep == TypeInv /\ EvtInv /\ [Next]_vars => EvtInv'
<1> SUFFICES ASSUME TypeInv, EvtInv, [Next]_vars PROVE EvtInv'
  OBVIOUS
<1>0. EvtsOK
  BY TypeInvParts
<1>1. CASE UNCHANGED <<evts, w, tasks>>
  <2>1. Up' = Up /\ \A i \in Id : Running(i)' = Running(i)
    BY <1>1 DEF Up, Running, Busy, Current, Live, Working
  <2> QED BY <1>0, <1>1, <2>1, EvtSame
<1>2. CASE ReconnectClick \/ ReconnectDue
  <2>1. evts' = <<>>
    BY <1>2 DEF ReconnectClick, ReconnectDue, ReplaceWorker
  <2>2. 1..Len(evts') = {}
    BY <2>1
  <2> QED BY <2>2 DEF EvtInv
<1>3. CASE Drain
  <2>1. evts # <<>> /\ evts' = Tail(evts) /\ UNCHANGED <<w, tasks>>
    BY <1>3 DEF Drain, OnConnected, OnShellExited, OnXferStart, OnXferDone,
                OnDisconnected, NextEvt
  <2> QED BY <1>0, <2>1, EvtDrain
<1>4. CASE \/ \E sp \in Specs, p \in Policies : StartNew(sp, p) \/ StartAgain(sp, p)
           \/ \E i \in Id : Resume(i) \/ Cancel(i) \/ Remove(i)
           \/ ResendPaused \/ ResendEnd \/ UNCHANGED vars
  <2>1. UNCHANGED <<evts, w, tasks>>
    BY <1>4 DEF StartNew, StartAgain, Resume, Cancel, Remove, ResendPaused, ResendEnd, vars
  <2> QED BY <1>1, <2>1
<1>5. CASE WConnect \/ WConnectFail \/ WLoop \/ WShellExit \/ WLost \/ WReturn
  BY <1>5, EvtWorker
<1>6. CASE \E s \in Slots : TaskStep(s)
  BY <1>6, EvtTask
<1> QED BY <1>2, <1>3, <1>4, <1>5, <1>6 DEF Next, Click, UiStep

\* A start that is drained belongs to an attempt that is still under way.
LEMMA StartPursued ==
  ASSUME TypeInv, EvtInv, evts # <<>>, Head(evts).ev = "xferStart"
  PROVE  Head(evts).id \in Id /\ Attempts(Head(evts).id) >= 1
<1> DEFINE i == Head(evts).id
<1>1. evts \in Seq(Evt) /\ 1 \in 1..Len(evts) /\ Head(evts) = evts[1]
  BY TypeInvParts DEF EvtsOK
<1>2. i \in Id
  BY <1>1, HeadTail DEF Evt
<1>3. Begun(i) \in Nat /\ Queued(i) \in Nat /\ Ran(i) \in Nat /\ Told(i) \in Nat
  BY <1>2, PartsNat
<1>4. Pursued(1)
  BY <1>1 DEF EvtInv
<1>5. CASE Running(i) # {}
  <2>1. Ran(i) # 0
    BY <1>5, RunningFinite, FS_EmptySet DEF Ran
  <2> QED BY <1>2, <1>3, <2>1 DEF Attempts
<1>6. CASE \E m \in 2..Len(evts) : evts[m].ev = "xferDone" /\ evts[m].id = i
  <2>1. PICK m \in 2..Len(evts) : evts[m].ev = "xferDone" /\ evts[m].id = i
    BY <1>6
  <2>2. m \in 1..Len(evts) /\ evts[m] \in DonesOf(i)
    BY <1>1, <2>1 DEF DonesOf
  <2>3. Told(i) # 0
    BY <1>1, <2>2, CountType DEF Told
  <2> QED BY <1>2, <1>3, <2>3 DEF Attempts
<1> QED BY <1>1, <1>4, <1>5, <1>6 DEF Pursued



-----------------------------------------------------------------------------
(* What the row of a transfer says of its attempts.  The conjuncts support    *)
(* one another: a paused or failed row has no attempt, so a retry, a resume   *)
(* and the resend start the only one; a drained end finds a row that is not   *)
(* paused, so a failure leaves a row that may be retried; a row that was open *)
(* when the session disconnected was started offline, so the next Connected   *)
(* owes it nothing; an id not used yet has neither row nor attempt.           *)

Own(i) == rows[i].present /\ rows[i].spec # NoSpec

RowOK(i) ==
    /\ Attempts(i) <= 1
    /\ Up /\ Own(i) /\ rows[i].paused => Attempts(i) = 0
    /\ Own(i) /\ rows[i].ok = "fail"
         => ui.connected /\ ~rows[i].paused /\ Attempts(i) = 0
    /\ ~rows[i].present /\ ~hist[i].finished => Attempts(i) = 0
    /\ i >= nextXfer => ~rows[i].present /\ Attempts(i) = 0
    /\ Own(i) => rows[i].spec = hist[i].spec
    /\ rows[i].present /\ (rows[i].spec = NoSpec \/ rows[i].ok = "ok")
         => hist[i].finished
    /\ ~ui.connected /\ InProgress(i) /\ Own(i) => hist[i].offline
    /\ ui.connected /\ Up /\ InProgress(i) /\ Own(i) /\ ~hist[i].offline
         => Attempts(i) = 1
    /\ ui.connected /\ ~ui.resuming /\ Own(i) => ~rows[i].paused

UiInv == (ui.resuming => ui.connected) /\ (ui.armed => ~ui.connected)

\* Two rows of one spec: the dedup of a click let the second in only because
\* the first had completed, or a resend brought a completed one back.
PairOK(i, j) ==
    /\ i # j /\ hist[i].spec = hist[j].spec
    /\ rows[i].present /\ rows[j].present
    => hist[i].finished \/ hist[j].finished

RowInv == /\ \A i \in Id : RowOK(i)
          /\ UiInv
          /\ \A i, j \in Id : PairOK(i, j)

LEMMA Untouched ==
  ASSUME UNCHANGED <<cmds, evts, w, tasks>>, NEW i
  PROVE  Attempts(i)' = Attempts(i) /\ Up' = Up
<1>1. Up' = Up
  BY DEF Up
<1>2. w'.pending = w.pending
  OBVIOUS
<1> QED BY <1>1, <1>2, SamePlaces DEF Attempts

LEMMA Asked ==
  ASSUME TypeInv, NEW c \in Cmd, cmds' = Append(cmds, c),
         UNCHANGED <<evts, w, tasks>>, NEW i \in Id
  PROVE  /\ Up' = Up
         /\ Attempts(i)' = Attempts(i) + (IF Up /\ c.op = "start" /\ c.id = i THEN 1 ELSE 0)
<1>1. Up' = Up /\ cmds \in Seq(Cmd) /\ w'.pending = w.pending
  BY TypeInvParts DEF Up
<1>2. Begun(i)' = Begun(i) + (IF Up /\ c.op = "start" /\ c.id = i THEN 1 ELSE 0)
  BY <1>1, AskBegun
<1>3. Queued(i)' = Queued(i) /\ Ran(i)' = Ran(i) /\ Told(i)' = Told(i)
  BY <1>1, SamePlaces
<1> QED BY <1>1, <1>2, <1>3, PartsNat DEF Attempts

LEMMA Drained ==
  ASSUME TypeInv, evts # <<>>, evts' = Tail(evts),
         UNCHANGED <<cmds, w, tasks>>, NEW i \in Id
  PROVE  /\ Up' = Up
         /\ Attempts(i)' = Attempts(i)
              - (IF Head(evts).ev = "xferDone" /\ Head(evts).id = i THEN 1 ELSE 0)
<1>1. Up' = Up /\ EvtsOK /\ w'.pending = w.pending
  BY TypeInvParts DEF Up
<1>2. Told(i)' = Told(i) - (IF Head(evts).ev = "xferDone" /\ Head(evts).id = i THEN 1 ELSE 0)
  BY <1>1, DrainTold
<1>3. Begun(i)' = Begun(i) /\ Queued(i)' = Queued(i) /\ Ran(i)' = Ran(i)
  BY <1>1, SamePlaces
<1> QED BY <1>1, <1>2, <1>3, PartsNat DEF Attempts

LEMMA AttemptsNext ==
  ASSUME TypeInv', NEW i \in Id
  PROVE  Attempts(i)' \in Nat
<1>1. cmds' \in Seq(Cmd) /\ w'.pending \in Seq(Job) /\ evts' \in Seq(Evt)
  BY DEF TypeInv, TypeOK, Worker
<1>2. /\ Count(cmds', StartsOf(i)) \in Nat /\ Count(w'.pending, JobsOf(i)) \in Nat
      /\ Count(evts', DonesOf(i)) \in Nat
  BY <1>1, CountType
<1>3. IsFiniteSet(Running(i)')
  <2>1. Running(i)' \in SUBSET Slots
    BY DEF Running, Busy
  <2> QED BY <2>1, SlotsFinite, FS_Subset
<1>4. Cardinality(Running(i)') \in Nat
  BY <1>3, FS_CardinalityType
<1>5. Begun(i)' \in Nat /\ Queued(i)' \in Nat /\ Ran(i)' \in Nat /\ Told(i)' \in Nat
  BY <1>2, <1>4 DEF Begun, Queued, Ran, Told
<1> QED BY <1>5 DEF Attempts

\* A step that neither the row of i nor the user's history of it takes part in.
LEMMA RowFrame ==
  ASSUME TypeInv, TypeInv', NEW i \in Id, RowOK(i), Moved(i),
         rows'[i] = rows[i],
         hist'[i].spec = hist[i].spec, hist'[i].offline = hist[i].offline,
         hist'[i].finished = hist[i].finished,
         nextXfer' >= nextXfer,
         ui'.connected = ui.connected, ui'.resuming = ui.resuming
  PROVE  RowOK(i)'
<1>1. /\ Attempts(i) \in Nat
      /\ nextXfer \in Nat /\ nextXfer' \in Nat /\ i \in Nat
  BY PartsNat DEF TypeInv, TypeOK, Id
<1>2. Attempts(i)' \in Nat
  BY AttemptsNext
<1> QED BY <1>1, <1>2 DEF RowOK, Moved, Own, InProgress


LEMMA RowInit == Init => RowInv
<1> SUFFICES ASSUME Init PROVE RowInv
  OBVIOUS
<1>1. /\ cmds = <<>> /\ evts = <<>> /\ w.pending = <<>> /\ Up
      /\ \A s \in Slots : ~Live(s)
      /\ \A i \in Id : ~rows[i].present
      /\ ~ui.resuming /\ ~ui.armed
  BY DEF Init, FreshWorker, FreeTask, NoRow, Up, Live
<1>2. ASSUME NEW i \in Id PROVE RowOK(i)
  <2>1. Begun(i) = 0 /\ Queued(i) = 0 /\ Told(i) = 0
    BY <1>1, CountEmpty DEF Begun, Queued, Told
  <2>2. Running(i) = {}
    BY <1>1 DEF Running, Busy, Current
  <2>3. Ran(i) = 0
    BY <2>2, FS_EmptySet DEF Ran
  <2>4. Attempts(i) = 0
    BY <2>1, <2>3 DEF Attempts
  <2> QED BY <1>1, <2>4 DEF RowOK, Own, InProgress
<1> QED BY <1>1, <1>2 DEF RowInv, UiInv, PairOK

\* The rows' relation to each other, when none appears and none is asked for
\* another spec.
LEMMA PairFrame ==
  ASSUME RowInv,
         \A i \in Id : /\ rows'[i].present => rows[i].present \/ hist[i].finished
                       /\ hist'[i].spec = hist[i].spec
                       /\ hist[i].finished => hist'[i].finished
  PROVE  \A i, j \in Id : PairOK(i, j)'
  BY DEF RowInv, PairOK

\* The worker, its tasks, and a replaced worker.
LEMMA RowWorker ==
  ASSUME TypeInv, TypeInv', RowInv, UNCHANGED <<rows, nextXfer, ui, hist>>,
         \A i \in Id : Moved(i)
  PROVE  RowInv'
<1>1. \A i \in Id : RowOK(i)'
  BY RowFrame DEF RowInv, TypeInv, TypeOK
<1>2. \A i, j \in Id : PairOK(i, j)'
  BY PairFrame
<1> QED BY <1>1, <1>2 DEF RowInv, UiInv

LEMMA RowReplace ==
  ASSUME TypeInv, TypeInv', RowInv, ReplaceWorker, ~ui.connected,
         UNCHANGED <<rows, nextXfer, hist>>,
         ~ui'.connected, ~ui'.armed, ui'.resuming = ui.resuming
  PROVE  RowInv'
<1>1. ASSUME NEW i \in Id PROVE RowOK(i)'
  <2>1. Attempts(i)' = 0
    BY ReplaceForgets
  <2>2. RowOK(i)
    BY DEF RowInv
  <2>3. nextXfer \in Nat /\ i \in Nat
    BY DEF TypeInv, TypeOK, Id
  <2> QED BY <2>1, <2>2, <2>3 DEF RowOK, Own, InProgress
<1>2. \A i, j \in Id : PairOK(i, j)'
  BY PairFrame
<1>3. UiInv'
  BY DEF RowInv, UiInv
<1> QED BY <1>1, <1>2, <1>3 DEF RowInv

\* A start command for a row that has no attempt under way: a new row.
LEMMA RowNew ==
  ASSUME TypeInv, TypeInv', RowInv, NEW sp \in Specs, NEW p \in Policies, StartNew(sp, p)
  PROVE  RowInv'
<1>0. PICK n \in Id : n = nextXfer
  BY DEF StartNew, TypeInv, TypeOK, Id
<1> DEFINE c == StartCmd(n, p)
<1>1. /\ nextXfer' = n + 1 /\ n \in Nat
      /\ c \in Cmd /\ c.op = "start" /\ c.id = n
      /\ cmds' = Append(cmds, c) /\ UNCHANGED <<ui, evts, w, tasks>>
  BY <1>0 DEF StartNew, Id, StartCmd, Cmd
<1>2. /\ \A i \in Id : i # n => rows'[i] = rows[i] /\ hist'[i] = hist[i]
      /\ rows'[n].present /\ rows'[n].spec = sp /\ rows'[n].ok = "open" /\ ~rows'[n].paused
      /\ hist'[n].spec = sp /\ hist'[n].offline = ~ui.connected
  BY <1>0 DEF StartNew, TypeInv, TypeOK
<1>3. sp # NoSpec /\ NoRowFor(sp)
  BY DEF StartNew
<1> HIDE DEF c
<1>a. nextXfer' >= nextXfer /\ ~(n >= nextXfer')
  <2>1. n \in Nat /\ nextXfer' = n + 1
    BY <1>1
  <2>2. n + 1 >= n /\ ~(n >= n + 1)
    BY <2>1
  <2> QED BY <1>0, <2>1, <2>2
<1>4. \A i \in Id : /\ Up' = Up
                    /\ Attempts(i)' = Attempts(i) + (IF Up /\ i = n THEN 1 ELSE 0)
                    /\ Attempts(i) \in Nat
  BY <1>1, Asked, PartsNat
<1>5. ASSUME NEW i \in Id, i # n PROVE RowOK(i)'
  <2>1. Moved(i)
    BY <1>4, <1>5 DEF Moved
  <2>2. /\ rows'[i] = rows[i] /\ hist'[i] = hist[i] /\ nextXfer' >= nextXfer
        /\ ui' = ui
    BY <1>1, <1>2, <1>5, <1>a
  <2> QED BY <2>1, <2>2, RowFrame DEF RowInv
<1>6. RowOK(n)'
  <2>1. Attempts(n) = 0
    BY <1>0, <1>1 DEF RowInv, RowOK
  <2>2. Up' = Up /\ Attempts(n)' = IF Up THEN 1 ELSE 0
    BY <1>4, <2>1
  <2>3. Attempts(n)' <= 1 /\ (Up' => Attempts(n)' = 1)
    BY <2>2
  <2>4. ~ui'.connected => hist'[n].offline
    BY <1>1, <1>2
  <2>5. rows'[n].present /\ Own(n)' /\ rows'[n].ok = "open" /\ ~rows'[n].paused
          /\ rows'[n].spec = hist'[n].spec
    BY <1>2, <1>3 DEF Own
  <2> QED BY <1>2, <1>3, <1>a, <2>3, <2>4, <2>5 DEF RowOK
<1>7. ASSUME NEW i \in Id, NEW j \in Id PROVE PairOK(i, j)'
  <2>1. ASSUME NEW k \in Id, k # n, rows[k].present, hist[k].spec = sp
        PROVE  hist'[k].finished
    <3>1. rows[k].spec = NoSpec \/ rows[k].ok = "ok"
      BY <1>3, <2>1 DEF RowInv, RowOK, Own, NoRowFor
    <3> QED BY <1>2, <2>1, <3>1 DEF RowInv, RowOK
  <2>2. PairOK(i, j)
    BY DEF RowInv
  <2> QED BY <1>2, <2>1, <2>2 DEF PairOK
<1> QED BY <1>1, <1>5, <1>6, <1>7 DEF RowInv, UiInv

\* A start command for a row that has no attempt under way: a retry, a resume.
LEMMA RowAgain ==
  ASSUME TypeInv, TypeInv', RowInv, NEW n \in Id, NEW p \in Policies, NEW u \in Policies,
         ClickStart(n, p, u), UNCHANGED <<nextXfer, ui, evts, w, tasks>>,
         rows[n].present, rows[n].spec # NoSpec,
         rows[n].ok = "fail" \/ (rows[n].ok = "open" /\ rows[n].paused)
  PROVE  RowInv'
<1> DEFINE c == StartCmd(n, p)
<1>a. nextXfer \in Nat /\ n \in Nat
  BY TypeInvParts DEF Id
<1>b. c \in Cmd /\ c.op = "start" /\ c.id = n
  BY DEF StartCmd, Cmd
<1>1. /\ nextXfer \in Nat /\ n \in Nat
      /\ c \in Cmd /\ c.op = "start" /\ c.id = n
      /\ cmds' = Append(cmds, c)
  BY <1>a, <1>b DEF ClickStart
<1>2. /\ \A i \in Id : i # n => rows'[i] = rows[i]
      /\ rows'[n].present /\ rows'[n].spec = rows[n].spec
      /\ rows'[n].ok = "open" /\ ~rows'[n].paused
  BY DEF ClickStart, TypeInv, TypeOK, Row
<1>3. /\ \A i \in Id : i # n => hist'[i] = hist[i]
      /\ hist'[n].spec = hist[n].spec /\ hist'[n].offline = ~ui.connected
      /\ hist'[n].finished = hist[n].finished
  BY DEF ClickStart, TypeInv, TypeOK, Hist
<1> HIDE DEF c
<1>4. \A i \in Id : /\ Up' = Up
                    /\ Attempts(i)' = Attempts(i) + (IF Up /\ i = n THEN 1 ELSE 0)
                    /\ Attempts(i) \in Nat
  BY <1>1, Asked, PartsNat
<1>5. ASSUME NEW i \in Id, i # n PROVE RowOK(i)'
  <2>1. Moved(i)
    BY <1>4, <1>5 DEF Moved
  <2>2. rows'[i] = rows[i] /\ hist'[i] = hist[i] /\ nextXfer' >= nextXfer /\ ui' = ui
    BY <1>1, <1>2, <1>3, <1>5
  <2> QED BY <2>1, <2>2, RowFrame DEF RowInv
<1>6. RowOK(n)'
  <2>1. RowOK(n) /\ (Up => Attempts(n) = 0)
    BY DEF RowInv, RowOK, Own
  <2>2. n < nextXfer /\ ui' = ui /\ Up' = Up /\ nextXfer' = nextXfer
    BY <1>1, <1>4, <2>1 DEF RowOK
  <2>3. Attempts(n)' = IF Up THEN 1 ELSE Attempts(n)
    BY <1>4, <2>1
  <2>4. Attempts(n)' <= 1 /\ (Up => Attempts(n)' = 1)
    BY <2>1, <2>3 DEF RowOK
  <2> QED BY <1>1, <1>2, <1>3, <2>1, <2>2, <2>4 DEF RowOK, Own, InProgress
<1>7. \A i \in Id : /\ rows'[i].present => rows[i].present
                    /\ hist'[i].spec = hist[i].spec
                    /\ hist[i].finished => hist'[i].finished
  BY <1>2, <1>3
<1>8. \A i, j \in Id : PairOK(i, j)'
  BY <1>7, PairFrame
<1> QED BY <1>5, <1>6, <1>8 DEF RowInv, UiInv

LEMMA RowClick ==
  ASSUME TypeInv, TypeInv', RowInv, Click
  PROVE  RowInv'
<1>0. /\ rows \in [Id -> Row] /\ hist \in [Id -> Hist]
      /\ nextXfer \in Nat
  BY TypeInvParts
<1>1. ASSUME NEW sp \in Specs, NEW p \in Policies, StartNew(sp, p) PROVE RowInv'
  BY <1>1, RowNew
<1>2. ASSUME NEW sp \in Specs, NEW p \in Policies, StartAgain(sp, p) PROVE RowInv'
  <2>1. PICK i \in Id : /\ rows[i].present /\ rows[i].spec = sp /\ rows[i].ok # "ok"
                        /\ MayRestart(i) /\ ClickStart(i, p, p)
    BY <1>2 DEF StartAgain
  <2>2. sp # NoSpec /\ rows[i].ok \in {"open", "ok", "fail"}
    BY <1>0 DEF Row
  <2>3. rows[i].ok = "fail" \/ (rows[i].ok = "open" /\ rows[i].paused)
    BY <2>1, <2>2 DEF MayRestart, InProgress
  <2>4. UNCHANGED <<nextXfer, ui, evts, w, tasks>>
    BY <1>2 DEF StartAgain
  <2> QED BY <2>1, <2>2, <2>3, <2>4, RowAgain
<1>3. ASSUME NEW i \in Id, Resume(i) PROVE RowInv'
  <2>1. hist[i].pol \in Policies
    BY <1>0 DEF Hist
  <2>2. /\ rows[i].present /\ rows[i].spec # NoSpec
        /\ rows[i].ok = "fail" \/ (rows[i].ok = "open" /\ rows[i].paused)
        /\ ClickStart(i, Overwrite, hist[i].pol)
        /\ UNCHANGED <<nextXfer, ui, evts, w, tasks>>
    BY <1>3 DEF Resume
  <2> QED BY <2>1, <2>2, RowAgain
<1>4. ASSUME NEW n \in Id, Cancel(n) PROVE RowInv'
  <2> DEFINE c == CancelCmd(n)
  <2>1. /\ c \in Cmd /\ c.op # "start" /\ cmds' = Append(cmds, c)
        /\ UNCHANGED <<rows, nextXfer, ui, evts, w, tasks>>
    BY <1>4 DEF Cancel, CancelCmd, Cmd
  <2> HIDE DEF c
  <2>2. \A i \in Id : /\ hist'[i].spec = hist[i].spec /\ hist'[i].offline = hist[i].offline
                      /\ hist'[i].finished = hist[i].finished
    BY <1>0, <1>4 DEF Cancel, Hist
  <2>3. ASSUME NEW i \in Id PROVE Moved(i)
    <3>1. Up' = Up /\ Attempts(i)' = Attempts(i) /\ Attempts(i) \in Nat
      BY <2>1, Asked, PartsNat
    <3> QED BY <3>1 DEF Moved
  <2>4. \A i \in Id : RowOK(i)'
    BY <1>0, <2>1, <2>2, <2>3, RowFrame DEF RowInv
  <2>5. \A i, j \in Id : PairOK(i, j)'
    BY <2>1, <2>2, PairFrame
  <2> QED BY <2>1, <2>4, <2>5 DEF RowInv, UiInv
<1>5. ASSUME NEW n \in Id, Remove(n) PROVE RowInv'
  <2>1. /\ Removable(n) /\ UNCHANGED <<nextXfer, ui, cmds, evts, w, tasks, hist>>
        /\ ~rows'[n].present /\ \A i \in Id : i # n => rows'[i] = rows[i]
    BY <1>0, <1>5 DEF Remove, NoRow
  <2>2. \A i \in Id : Up' = Up /\ Attempts(i)' = Attempts(i) /\ Attempts(i) \in Nat
    BY <2>1, Untouched, PartsNat
  <2>3. ASSUME NEW i \in Id, i # n PROVE RowOK(i)'
    BY <1>0, <2>1, <2>2, <2>3, RowFrame DEF RowInv, Moved
  <2>4. RowOK(n)'
    <3>1. RowOK(n) /\ rows[n].ok \in {"open", "ok", "fail"}
      BY <1>0 DEF RowInv, Row
    <3>2. hist[n].finished \/ Attempts(n) = 0
      BY <2>1, <3>1 DEF Removable, RowOK, Own
    <3> QED BY <2>1, <2>2, <3>1, <3>2 DEF RowOK, Own, InProgress
  <2>5. \A i, j \in Id : PairOK(i, j)'
    BY <2>1, PairFrame
  <2> QED BY <2>1, <2>3, <2>4, <2>5 DEF RowInv, UiInv
<1>6. CASE ReconnectClick
  <2>1. /\ ReplaceWorker /\ ~ui.connected /\ UNCHANGED <<rows, nextXfer, hist>>
        /\ ~ui'.connected /\ ~ui'.armed /\ ui'.resuming = ui.resuming
    BY <1>6, TypeInvParts DEF ReconnectClick, Ui
  <2> QED BY <2>1, RowReplace
<1> QED BY <1>1, <1>2, <1>3, <1>4, <1>5, <1>6 DEF Click


\* A start command for a row that has no attempt under way: a resend.
LEMMA RowResend ==
  ASSUME TypeInv, TypeInv', RowInv, ResendPaused
  PROVE  RowInv'
<1>0. PICK n \in Id : /\ Resendable(n)
                      /\ rows' = [rows EXCEPT ![n].paused = FALSE]
                      /\ cmds' = Append(cmds, StartCmd(n, Overwrite))
                      /\ hist' = [hist EXCEPT ![n].offline = FALSE]
  BY DEF ResendPaused
<1> DEFINE c == StartCmd(n, Overwrite)
<1>a. nextXfer \in Nat /\ n \in Nat
  BY TypeInvParts DEF Id
<1>b. c \in Cmd /\ c.op = "start" /\ c.id = n
  BY DEF StartCmd, Cmd
<1>1. /\ nextXfer \in Nat /\ n \in Nat
      /\ c \in Cmd /\ c.op = "start" /\ c.id = n /\ cmds' = Append(cmds, c)
      /\ ui.resuming /\ UNCHANGED <<nextXfer, ui, evts, w, tasks>>
  BY <1>0, <1>a, <1>b DEF ResendPaused
<1>2. /\ \A i \in Id : i # n => rows'[i] = rows[i]
      /\ rows'[n].present = rows[n].present /\ rows'[n].spec = rows[n].spec
      /\ rows'[n].ok = rows[n].ok /\ ~rows'[n].paused
  BY <1>0 DEF TypeInv, TypeOK, Row
<1>3. /\ \A i \in Id : i # n => hist'[i] = hist[i]
      /\ hist'[n].spec = hist[n].spec /\ ~hist'[n].offline
      /\ hist'[n].finished = hist[n].finished
  BY <1>0 DEF TypeInv, TypeOK, Hist
<1> HIDE DEF c
<1>4. \A i \in Id : /\ Up' = Up
                    /\ Attempts(i)' = Attempts(i) + (IF Up /\ i = n THEN 1 ELSE 0)
                    /\ Attempts(i) \in Nat
  BY <1>1, Asked, PartsNat
<1>5. ASSUME NEW i \in Id, i # n PROVE RowOK(i)'
  <2>1. Moved(i)
    BY <1>4, <1>5 DEF Moved
  <2>2. rows'[i] = rows[i] /\ hist'[i] = hist[i] /\ nextXfer' >= nextXfer /\ ui' = ui
    BY <1>1, <1>2, <1>3, <1>5
  <2> QED BY <2>1, <2>2, RowFrame DEF RowInv
<1>6. RowOK(n)'
  <2>1. /\ RowOK(n) /\ ui.connected /\ Own(n) /\ rows[n].paused
        /\ Up => Attempts(n) = 0
    BY <1>0, <1>1 DEF RowInv, UiInv, RowOK, Own, Resendable
  <2>2. n < nextXfer /\ ui' = ui /\ Up' = Up /\ nextXfer' = nextXfer
    BY <1>1, <1>4, <2>1 DEF RowOK, Own
  <2>3. Attempts(n)' = IF Up THEN 1 ELSE Attempts(n)
    BY <1>4, <2>1
  <2>4. Attempts(n)' <= 1 /\ (Up => Attempts(n)' = 1)
    BY <2>1, <2>3 DEF RowOK
  <2>5. rows[n].ok # "fail"
    BY <2>1 DEF RowOK
  <2> QED BY <1>1, <1>2, <1>3, <2>1, <2>2, <2>4, <2>5 DEF RowOK, Own, InProgress
<1>7. \A i \in Id : /\ rows'[i].present => rows[i].present
                    /\ hist'[i].spec = hist[i].spec
                    /\ hist[i].finished => hist'[i].finished
  BY <1>2, <1>3
<1>8. \A i, j \in Id : PairOK(i, j)'
  BY <1>7, PairFrame
<1> QED BY <1>1, <1>5, <1>6, <1>8 DEF RowInv, UiInv

\* One event that settles nothing.
LEMMA RowUi ==
  ASSUME TypeInv, TypeInv', RowInv, OnConnected \/ OnShellExited \/ ResendEnd
  PROVE  RowInv'
<1>0. ui \in Ui
  BY TypeInvParts
<1>1. UNCHANGED <<rows, nextXfer, cmds, w, tasks, hist>>
  BY DEF OnConnected, OnShellExited, ResendEnd
<1>2. \A i \in Id : Up' = Up /\ Attempts(i)' = Attempts(i)
  <2>1. CASE OnConnected \/ OnShellExited
    <3>1. /\ evts # <<>> /\ evts' = Tail(evts) /\ Head(evts).ev # "xferDone"
          /\ UNCHANGED <<cmds, w, tasks>>
      BY <2>1 DEF OnConnected, OnShellExited, NextEvt
    <3> QED BY <3>1, Drained, PartsNat
  <2>2. CASE ResendEnd
    BY <2>2, Untouched DEF ResendEnd
  <2> QED BY <2>1, <2>2
<1>3. ASSUME NEW i \in Id PROVE RowOK(i)'
  <2>1. RowOK(i) /\ Attempts(i)' = Attempts(i) /\ Up' = Up
    BY <1>2 DEF RowInv
  <2>2. CASE OnConnected
    <3>1. ui'.connected /\ ui'.resuming
      BY <1>0, <2>2 DEF OnConnected, Ui
    <3> QED BY <1>1, <2>1, <3>1 DEF RowOK, Own, InProgress
  <2>3. CASE OnShellExited
    <3>1. ui'.connected = ui.connected /\ ui'.resuming = ui.resuming
      BY <1>0, <2>3 DEF OnShellExited, Ui
    <3> QED BY <1>1, <2>1, <3>1 DEF RowOK, Own, InProgress
  <2>4. CASE ResendEnd
    <3>1. ui'.connected = ui.connected /\ ~Resendable(i)
      BY <1>0, <2>4 DEF ResendEnd, Ui
    <3>2. Own(i) => ~rows[i].paused
      BY <3>1 DEF Own, Resendable
    <3> QED BY <1>1, <2>1, <3>1, <3>2 DEF RowOK, Own, InProgress
  <2> QED BY <2>2, <2>3, <2>4
<1>4. UiInv'
  BY <1>0 DEF OnConnected, OnShellExited, ResendEnd, RowInv, UiInv, Ui
<1>5. \A i, j \in Id : PairOK(i, j)'
  BY <1>1, PairFrame
<1> QED BY <1>3, <1>4, <1>5 DEF RowInv

\* The row that TransferStart pushes belongs to a removed transfer that has an
\* attempt under way: only a completed one can.
LEMMA RowStarted ==
  ASSUME TypeInv, TypeInv', EvtInv, RowInv, OnXferStart
  PROVE  RowInv'
<1>1. /\ evts # <<>> /\ evts' = Tail(evts) /\ Head(evts).ev = "xferStart"
      /\ UNCHANGED <<nextXfer, ui, cmds, w, tasks, hist>>
  BY DEF OnXferStart, NextEvt
<1>2. PICK n \in Id : n = Head(evts).id /\ Attempts(n) >= 1
  BY <1>1, StartPursued
<1>3. /\ \A i \in Id : i # n => rows'[i] = rows[i]
      /\ rows[n].present => rows'[n] = rows[n]
      /\ ~rows[n].present => rows'[n].present /\ rows'[n].spec = NoSpec
  BY <1>2 DEF OnXferStart, NoRow, TypeInv, TypeOK
<1>4. \A i \in Id : Up' = Up /\ Attempts(i)' = Attempts(i) /\ Attempts(i) \in Nat
  BY <1>1, Drained, PartsNat
<1>5. ASSUME NEW i \in Id, rows'[i] = rows[i] PROVE RowOK(i)'
  BY <1>1, <1>4, <1>5 DEF RowInv, RowOK, Own, InProgress
<1>6. ~rows[n].present => hist[n].finished
  BY <1>2, <1>4 DEF RowInv, RowOK
<1>7. ASSUME ~rows[n].present PROVE RowOK(n)'
  <2>1. RowOK(n) /\ hist'[n].finished /\ Attempts(n)' <= 1
    BY <1>1, <1>4, <1>6, <1>7 DEF RowInv, RowOK
  <2>2. ~(n >= nextXfer')
    BY <1>1, <1>2, <1>4, <2>1 DEF RowOK
  <2>3. ~Own(n)'
    BY <1>3, <1>7 DEF Own
  <2> QED BY <1>3, <1>7, <2>1, <2>2, <2>3 DEF RowOK
<1>8. \A i, j \in Id : PairOK(i, j)'
  BY <1>1, <1>3, <1>6, PairFrame
<1> QED BY <1>1, <1>3, <1>5, <1>7, <1>8 DEF RowInv, UiInv

\* The end of an attempt is the end of the only one.
LEMMA RowEnded ==
  ASSUME TypeInv, TypeInv', RowInv, OnXferDone
  PROVE  RowInv'
<1>1. /\ evts # <<>> /\ evts' = Tail(evts) /\ Head(evts).ev = "xferDone" /\ ~ui.resuming
      /\ UNCHANGED <<nextXfer, ui, cmds, w, tasks>>
  BY DEF OnXferDone, NextEvt
<1>2. PICK n \in Id, ok \in BOOLEAN : n = Head(evts).id /\ ok = Head(evts).ok
  <2>1. Head(evts) \in Evt
    BY <1>1, TypeInvParts, DrainType
  <2> QED BY <1>1, <2>1 DEF Evt
<1>3. /\ rows' = IF ~rows[n].present THEN rows
                 ELSE IF ~ok /\ ~ui.connected /\ rows[n].spec # NoSpec
                 THEN [rows EXCEPT ![n].paused = TRUE]
                 ELSE [rows EXCEPT ![n].ok = IF ok THEN "ok" ELSE "fail"]
      /\ hist' = [hist EXCEPT ![n].finished = @ \/ ok]
  BY <1>2 DEF OnXferDone
<1>4. /\ \A i \in Id : i # n => rows'[i] = rows[i]
      /\ rows'[n].present = rows[n].present /\ rows'[n].spec = rows[n].spec
      /\ ~rows[n].present => rows'[n] = rows[n]
  BY <1>3 DEF TypeInv, TypeOK, Row
<1>5. /\ \A i \in Id : i # n => hist'[i] = hist[i]
      /\ hist'[n].spec = hist[n].spec /\ hist'[n].offline = hist[n].offline
      /\ (hist[n].finished => hist'[n].finished) /\ (ok => hist'[n].finished)
  <2> DEFINE f == hist[n].finished \/ ok
  <2>1. f \in BOOLEAN
    BY Zenon
  <2>2. hist' = [hist EXCEPT ![n].finished = f]
    BY <1>3
  <2>3. (hist[n].finished => f) /\ (ok => f)
    OBVIOUS
  <2> HIDE DEF f
  <2> QED BY <2>1, <2>2, <2>3 DEF TypeInv, TypeOK, Hist
<1>6. /\ RowOK(n) /\ Attempts(n) = 1
      /\ \A i \in Id : /\ Up' = Up /\ Attempts(i) \in Nat
                       /\ Attempts(i)' = IF i = n THEN 0 ELSE Attempts(i)
  <2>1. \A i \in Id : /\ Up' = Up
                      /\ Attempts(i)' = Attempts(i) - (IF n = i THEN 1 ELSE 0)
                      /\ Attempts(i) \in Nat
    BY <1>1, <1>2, Drained, PartsNat
  <2>2. Attempts(n)' \in Nat /\ RowOK(n)
    BY AttemptsNext DEF RowInv
  <2>3. Attempts(n) = 1
    BY <2>1, <2>2 DEF RowOK
  <2> QED BY <2>1, <2>2, <2>3
<1>7. ASSUME NEW i \in Id, i # n PROVE RowOK(i)'
  <2>1. Moved(i)
    BY <1>6, <1>7 DEF Moved
  <2>2. rows'[i] = rows[i] /\ hist'[i] = hist[i] /\ nextXfer' = nextXfer /\ ui' = ui
    BY <1>1, <1>4, <1>5, <1>7
  <2>3. nextXfer' >= nextXfer
    BY <2>2 DEF TypeInv, TypeOK
  <2> QED BY <2>1, <2>2, <2>3, RowFrame DEF RowInv
<1>8. RowOK(n)'
  <2>0. /\ Attempts(n)' = 0 /\ Up' = Up /\ ui' = ui
        /\ ~(n >= nextXfer')
    BY <1>1, <1>6 DEF RowOK
  <2>1. CASE ~rows[n].present
    BY <1>4, <2>0, <2>1 DEF RowOK, Own, InProgress
  <2>2. CASE rows[n].present /\ ~ok /\ ~ui.connected /\ rows[n].spec # NoSpec
    <3>1. rows'[n].ok = rows[n].ok /\ rows'[n].paused
      BY <1>3, <2>2 DEF TypeInv, TypeOK, Row
    <3> QED BY <1>4, <1>5, <1>6, <2>0, <2>2, <3>1 DEF RowOK, Own, InProgress
  <2>3. CASE rows[n].present /\ ok
    <3>1. rows'[n].ok = "ok" /\ rows'[n].paused = rows[n].paused
      BY <1>3, <2>3 DEF TypeInv, TypeOK, Row
    <3> QED BY <1>4, <1>5, <1>6, <2>0, <2>3, <3>1 DEF RowOK, Own, InProgress
  <2>4. CASE rows[n].present /\ ~ok /\ (ui.connected \/ rows[n].spec = NoSpec)
    <3>0. rows' = [rows EXCEPT ![n].ok = "fail"]
      BY <1>3, <2>4
    <3>1. rows'[n].ok = "fail" /\ rows'[n].paused = rows[n].paused
      BY <3>0 DEF TypeInv, TypeOK, Row
    <3>2. Own(n) => ui.connected /\ ~rows[n].paused
      BY <1>1, <1>6, <2>4 DEF RowOK, Own
    <3> QED BY <1>4, <1>5, <1>6, <2>0, <2>4, <3>1, <3>2 DEF RowOK, Own, InProgress
  <2> QED BY <2>1, <2>2, <2>3, <2>4
<1>9. \A i \in Id : /\ rows'[i].present => rows[i].present
                    /\ hist'[i].spec = hist[i].spec
                    /\ hist[i].finished => hist'[i].finished
  BY <1>4, <1>5
<1>10. \A i, j \in Id : PairOK(i, j)'
  BY <1>9, PairFrame
<1> QED BY <1>1, <1>7, <1>8, <1>10 DEF RowInv, UiInv

\* A disconnection is drained when its worker has stopped reading commands.
LEMMA RowDisconnected ==
  ASSUME TypeInv, TypeInv', EvtInv, RowInv, OnDisconnected
  PROVE  RowInv'
<1>1. /\ evts # <<>> /\ evts' = Tail(evts) /\ Head(evts).ev = "disconnected" /\ ~ui.resuming
      /\ UNCHANGED <<nextXfer, cmds, w, tasks, hist>>
  BY DEF OnDisconnected, NextEvt
<1>2. ~Up
  <2>1. 1 \in 1..Len(evts) /\ Head(evts) = evts[1]
    BY <1>1, TypeInvParts DEF EvtsOK
  <2> QED BY <1>1, <2>1 DEF EvtInv
<1>3. ~ui'.connected /\ ui'.resuming = ui.resuming
  <2>1. (ui.armed \/ AutoReconnect) \in BOOLEAN
    BY Zenon
  <2>2. ui' = [ui EXCEPT !.connected = FALSE, !.armed = ui.armed \/ AutoReconnect]
    BY DEF OnDisconnected
  <2> QED BY <2>1, <2>2 DEF TypeInv, TypeOK, Ui
<1>4. \A i \in Id : ~Up' /\ Attempts(i)' = Attempts(i) /\ Attempts(i) \in Nat
  BY <1>1, <1>2, Drained, PartsNat
<1>5. ASSUME NEW i \in Id
      PROVE  /\ rows'[i].present = rows[i].present /\ rows'[i].spec = rows[i].spec
             /\ Interrupted(rows[i]) => rows'[i].ok = "open" /\ rows'[i].paused
             /\ ~Interrupted(rows[i]) => rows'[i] = rows[i]
  <2>1. rows'[i] = IF Interrupted(rows[i])
                   THEN [rows[i] EXCEPT !.ok = "open", !.paused = TRUE]
                   ELSE rows[i]
    BY DEF OnDisconnected
  <2>2. rows[i] \in Row
    BY TypeInvParts
  <2> QED BY <2>1, <2>2 DEF Row
<1>6. ASSUME NEW i \in Id PROVE RowOK(i)'
  <2>1. RowOK(i)
    BY DEF RowInv
  <2>2. CASE Interrupted(rows[i])
    <3>1. /\ rows'[i].present = rows[i].present /\ rows'[i].spec = rows[i].spec
          /\ rows'[i].ok = "open" /\ rows'[i].paused /\ rows[i].present /\ rows[i].spec # NoSpec
      BY <1>5, <2>2 DEF Interrupted
    <3> QED BY <1>1, <1>3, <1>4, <2>1, <3>1 DEF RowOK, Own, InProgress
  <2>3. CASE ~Interrupted(rows[i])
    <3>1. rows'[i] = rows[i] /\ (Own(i) => rows[i].ok = "ok")
      BY <1>5, <2>3 DEF Interrupted, Own
    <3> QED BY <1>1, <1>3, <1>4, <2>1, <3>1 DEF RowOK, Own, InProgress
  <2> QED BY <2>2, <2>3
<1>7. \A i, j \in Id : PairOK(i, j)'
  BY <1>1, <1>5, PairFrame
<1> QED BY <1>1, <1>3, <1>6, <1>7 DEF RowInv, UiInv

LEMMA RowStep == TypeInv /\ EvtInv /\ RowInv /\ [Next]_vars => RowInv'
<1> SUFFICES ASSUME TypeInv, EvtInv, RowInv, [Next]_vars PROVE RowInv'
  OBVIOUS
<1>0. TypeInv'
  BY TypeStep
<1>1. CASE Click
  BY <1>0, <1>1, RowClick
<1>2. CASE Drain \/ ResendPaused \/ ResendEnd
  BY <1>0, <1>2, RowUi, RowResend, RowStarted, RowEnded, RowDisconnected DEF Drain
<1>3. CASE ReconnectDue
  <2>1. /\ ReplaceWorker /\ ~ui.connected /\ UNCHANGED <<rows, nextXfer, hist>>
        /\ ~ui'.connected /\ ~ui'.armed /\ ui'.resuming = ui.resuming
    BY <1>3 DEF ReconnectDue, RowInv, UiInv, TypeInv, TypeOK, Ui
  <2> QED BY <1>0, <2>1, RowReplace
<1>4. CASE WConnect \/ WConnectFail \/ WLoop \/ WShellExit \/ WLost \/ WReturn
  <2>1. UNCHANGED <<rows, nextXfer, ui, hist>>
    BY <1>4 DEF WConnect, WConnectFail, WLoop, WStart, WCancel, WDone, WRefill, WRefillEnd,
                WShellExit, WLost, WReturn
  <2>2. \A i \in Id : Moved(i)
    BY <1>4, WorkerMoves
  <2> QED BY <1>0, <2>1, <2>2, RowWorker
<1>5. CASE \E s \in Slots : TaskStep(s)
  <2>1. UNCHANGED <<rows, nextXfer, ui, hist>>
    BY <1>5 DEF TaskStep, TaskAnnounce, TaskFinish, TaskStop, TaskExit, OldTaskExit
  <2>2. \A i \in Id : Moved(i)
    BY <1>5, TaskMoves
  <2> QED BY <1>0, <2>1, <2>2, RowWorker
<1>6. CASE UNCHANGED vars
  <2>1. UNCHANGED <<rows, nextXfer, ui, hist>> /\ UNCHANGED <<cmds, evts, w, tasks>>
    BY <1>6 DEF vars
  <2>2. \A i \in Id : Moved(i)
    BY <2>1, Untouched, PartsNat DEF Moved
  <2> QED BY <1>0, <2>1, <2>2, RowWorker
<1> QED BY <1>1, <1>2, <1>3, <1>4, <1>5, <1>6 DEF Next, UiStep


-----------------------------------------------------------------------------
(* The theorems about rows and attempts.                                      *)

AttemptInv == TypeInv /\ EvtInv /\ RowInv

LEMMA AttemptsKept == Spec => []AttemptInv
<1>1. Init => AttemptInv
  <2>1. Init => EvtInv
    BY DEF Init, EvtInv
  <2> QED BY <2>1, TypeInit, RowInit DEF AttemptInv
<1>2. AttemptInv /\ [Next]_vars => AttemptInv'
  BY TypeStep, EvtStep, RowStep DEF AttemptInv
<1> QED BY <1>1, <1>2, PTL DEF Spec

\* While the worker reads its commands, the counts of the attempts and of what
\* is outstanding are the same.
LEMMA OutstandingAttempts ==
  ASSUME TypeInv, Up, NEW i \in Id
  PROVE  Outstanding(i) = Attempts(i)
<1>1. cmds \in Seq(Cmd) /\ w.pending \in Seq(Job) /\ evts \in Seq(Evt)
  BY TypeInvParts, WorkerParts DEF EvtsOK
<1>2. {k \in 1..Len(cmds) : cmds[k].op = "start" /\ cmds[k].id = i}
        = Positions(cmds, StartsOf(i))
  BY <1>1 DEF Positions, StartsOf
<1>3. {k \in 1..Len(w.pending) : w.pending[k].id = i} = Positions(w.pending, JobsOf(i))
  BY <1>1 DEF Positions, JobsOf
<1>4. {k \in 1..Len(evts) : evts[k].ev = "xferDone" /\ evts[k].id = i}
        = Positions(evts, DonesOf(i))
  BY <1>1 DEF Positions, DonesOf
<1> QED BY <1>2, <1>3, <1>4 DEF Outstanding, Attempts, Begun, Queued, Ran, Told, Count, Running

\* No retry, resume, repeated download or resend after a reconnection starts a
\* second attempt of a transfer while one is under way in the worker, for any
\* number of transfers, slots, reconnections and any size of the channels.
THEOREM OneAttempt == Spec => []AtMostOneAttempt
<1>1. AttemptInv => AtMostOneAttempt
  BY OutstandingAttempts DEF AttemptInv, RowInv, RowOK, AtMostOneAttempt, Up
<1> QED BY <1>1, AttemptsKept, PTL

\* A row that shows a transfer in progress while its worker is up has an
\* attempt under way, unless it was started by a click while offline.
THEOREM RowsServed == Spec => []StrandedOnlyOffline
<1>1. AttemptInv => StrandedOnlyOffline
  <2> SUFFICES ASSUME AttemptInv, NEW i \in Id, Waiting(i), ~hist[i].offline
               PROVE  Outstanding(i) = 1
    BY DEF StrandedOnlyOffline
  <2>1. Up /\ ui.connected /\ InProgress(i) /\ Own(i)
    BY DEF Waiting, Up, Own, InProgress
  <2>2. Attempts(i) = 1
    BY <2>1 DEF AttemptInv, RowInv, RowOK
  <2> QED BY <2>1, <2>2, OutstandingAttempts DEF AttemptInv
<1> QED BY <1>1, AttemptsKept, PTL

\* A row without a spec, which nobody can retry, appears only for a transfer
\* that had completed: no late event brings back the row of another one.
THEOREM NoGhostRows == Spec => []NoGhostRow
<1>1. AttemptInv => NoGhostRow
  BY DEF AttemptInv, RowInv, RowOK, NoGhostRow
<1> QED BY <1>1, AttemptsKept, PTL

\* Two transfers of one source to one destination never run at once in a
\* worker, unless one of them had already completed and was resent.
THEOREM OneWriter == Spec => []OneWriterPerTarget
<1>1. AttemptInv => OneWriterPerTarget
  <2> SUFFICES ASSUME AttemptInv, NEW s \in Busy, NEW t \in Busy, s # t,
                      Working(s), Working(t),
                      hist[tasks[s].id].spec = hist[tasks[t].id].spec,
                      ~hist[tasks[s].id].finished, ~hist[tasks[t].id].finished
               PROVE  FALSE
    BY DEF OneWriterPerTarget
  <2>1. ASSUME NEW r \in Busy, Working(r), ~hist[tasks[r].id].finished
        PROVE  /\ tasks[r].id \in Id /\ r \in Running(tasks[r].id)
               /\ rows[tasks[r].id].present
    <3>1. PICK i \in Id : i = tasks[r].id
      BY <2>1, TypeInvParts DEF AttemptInv, TasksOK, Busy, Current, Live
    <3>2. r \in Running(i)
      BY <2>1, <3>1 DEF Running
    <3>3. Ran(i) # 0 /\ Ran(i) \in Nat
      BY <3>2, RunningFinite, FS_EmptySet DEF Ran
    <3>4. Attempts(i) # 0
      BY <3>3, PartsNat DEF Attempts, AttemptInv
    <3> QED BY <2>1, <3>1, <3>2, <3>4 DEF AttemptInv, RowInv, RowOK
  <2>2. PICK i \in Id, j \in Id : i = tasks[s].id /\ j = tasks[t].id
    BY <2>1
  <2>3. s \in Running(i) /\ t \in Running(j) /\ rows[i].present /\ rows[j].present
    BY <2>1, <2>2
  <2>4. i = j
    BY <2>2, <2>3 DEF AttemptInv, RowInv, PairOK
  <2>5. Ran(i) >= 2
    <3>1. {s, t} \subseteq Running(i)
      BY <2>3, <2>4
    <3>2. Cardinality({s, t}) = 2
      <4> DEFINE A == {s}
      <4>1. Cardinality(A) = 1 /\ IsFiniteSet(A)
        BY FS_Singleton
      <4>2. {s, t} = A \cup {t} /\ t \notin A
        OBVIOUS
      <4> HIDE DEF A
      <4>3. Cardinality(A \cup {t}) = IF t \in A THEN Cardinality(A) ELSE Cardinality(A) + 1
        BY <4>1, FS_AddElement, Zenon
      <4> QED BY <4>1, <4>2, <4>3
    <3> QED BY <3>1, <3>2, RunningFinite, FS_Subset DEF Ran
  <2>6. Attempts(i) >= 2
    BY <2>5, PartsNat DEF Attempts, AttemptInv
  <2> QED BY <2>6, PartsNat DEF AttemptInv, RowInv, RowOK
<1> QED BY <1>1, AttemptsKept, PTL
=============================================================================
