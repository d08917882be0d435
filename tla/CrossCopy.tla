------------------------------- MODULE CrossCopy -------------------------------
(***************************************************************************)
(* copy_between_sessions: one file goes from the host of session Src[o] to *)
(* the host of session Dest[o].  The application first has a one-time      *)
(* public key appended to authorized_keys of the destination, lets the     *)
(* source host push the file with it, has the key revoked, and falls back  *)
(* to a relay through its own memory when the direct attempt failed.       *)
(* The job lives in the application, which advances it once per frame from *)
(* the events the two session workers reported; the workers run each       *)
(* command as a task of its own, so tasks finish in any order.             *)
(***************************************************************************)
EXTENDS Naturals, Sequences

CONSTANTS Ops,       \* copies (op_id)
          Sessions,  \* sessions of the application
          Src, Dest, \* [Ops -> Sessions], the two ends of a copy
          MaxLosses  \* bound: connections lost or closed in one behaviour

ASSUME EndsAssumption ==
    /\ Src \in [Ops -> Sessions] /\ Dest \in [Ops -> Sessions]
    /\ \A o \in Ops : Src[o] # Dest[o]
    /\ MaxLosses \in Nat

VARIABLES
    job,      \* per copy, the CrossCopyJob and the commands sent for it
    conn,     \* the application's view of a session: up, down or gone
    worker,   \* the session worker: running, draining (its loop has ended but
              \* its command channel is still open) or ended
    lost,     \* a Disconnected event of the session waits to be drained
    inbox,    \* per copy, the events that wait to be drained
    tasks,    \* per copy, what the workers run for it
    keys,     \* the temporary key of the copy stands in authorized_keys
    file,     \* the destination file: old, direct or relayed
    revoked,  \* history: a revocation of the key has taken effect
    fault,    \* history: why a key may remain unseen
    losses,   \* how many connections were lost or closed
    exited    \* the application has exited

vars == <<job, conn, worker, lost, inbox, tasks, keys, file, revoked, fault, losses, exited>>

Phases == {"none", "trusting", "direct", "untrusting", "reading", "writing", "done"}

Job == [phase : Phases, started : BOOLEAN, trusted : BOOLEAN,
        result : {"none", "ok", "error"}, cancel : BOOLEAN, late : BOOLEAN,
        slow : BOOLEAN, ans : {"none", "direct", "relay", "error"}, warned : BOOLEAN,
        toSrc : Seq({"direct", "read", "cancel"}),
        toDest : Seq({"trust", "untrust", "write", "cancel"})]

Tasks == [trust : BOOLEAN, revoke : Nat,
          direct : {"none", "prep", "launch", "attached"},
          remote : {"none", "running", "landed", "failed"},
          reader : {"none", "open", "streaming", "cancelled", "over"},
          writer : {"none", "open", "cancelled", "over"},
          pipe : {"open", "whole", "short"}]

Events == {"trusted", "started", "direct", "untrusted", "source", "read", "copied"} \X BOOLEAN

TypeOK ==
    /\ job \in [Ops -> Job]
    /\ conn \in [Sessions -> {"up", "down", "gone"}]
    /\ worker \in [Sessions -> {"running", "draining", "ended"}]
    /\ lost \in [Sessions -> BOOLEAN]
    /\ inbox \in [Ops -> SUBSET Events]
    /\ tasks \in [Ops -> Tasks]
    /\ keys \in [Ops -> BOOLEAN] /\ revoked \in [Ops -> BOOLEAN]
    /\ file \in [Ops -> {"old", "direct", "relayed"}]
    /\ fault \in [Ops -> SUBSET {"receipt", "outran", "unheard", "swallowed", "dead"}]
    /\ losses \in 0..MaxLosses /\ exited \in BOOLEAN

NoJob == [phase |-> "none", started |-> FALSE, trusted |-> FALSE, result |-> "none",
          cancel |-> FALSE, late |-> FALSE, slow |-> FALSE, ans |-> "none",
          warned |-> FALSE, toSrc |-> <<>>, toDest |-> <<>>]

NoTasks == [trust |-> FALSE, revoke |-> 0, direct |-> "none", remote |-> "none",
            reader |-> "none", writer |-> "none", pipe |-> "open"]

Init ==
    /\ job = [o \in Ops |-> NoJob]
    /\ conn = [s \in Sessions |-> "up"]
    /\ worker = [s \in Sessions |-> "running"]
    /\ lost = [s \in Sessions |-> FALSE]
    /\ inbox = [o \in Ops |-> {}]
    /\ tasks = [o \in Ops |-> NoTasks]
    /\ keys = [o \in Ops |-> FALSE]
    /\ file = [o \in Ops |-> "old"]
    /\ revoked = [o \in Ops |-> FALSE]
    /\ fault = [o \in Ops |-> {}]
    /\ losses = 0
    /\ exited = FALSE

--------------------------------------------------------------------------------
(* The application: what one frame does to the job r of copy o, where c is *)
(* the connection state after the frame has drained the events.            *)

\* `cmd_tx.send` succeeds while the worker holds the receiving end.
CanSend(c, s) == c[s] # "gone" /\ worker[s] # "ended"

\* A key that may remain is announced in the status line or a toast.
WarnResidue(r) == [r EXCEPT !.warned = TRUE]

\* The revocation goes to a connected destination; otherwise the user is told.
BestEffortUntrust(o, c, r) ==
    IF c[Dest[o]] = "up" /\ CanSend(c, Dest[o])
    THEN [r EXCEPT !.toDest = Append(@, "untrust")]
    ELSE WarnResidue(r)

\* Mutant of Resolve: the transfers still running are left alone.
ResolveNoCancel(c, o, r, ans) == [r EXCEPT !.phase = "done", !.ans = ans]

\* The job is removed and its caller answered; after a failure both workers
\* are told to cancel what they still transfer for it.
Resolve(c, o, r, ans) ==
    LET told(s, q) == IF ans = "error" /\ CanSend(c, s) THEN Append(q, "cancel") ELSE q
    IN [r EXCEPT !.phase = "done", !.ans = ans,
                 !.started = FALSE, !.result = "none", !.late = FALSE, !.slow = FALSE,
                 !.toSrc = told(Src[o], @), !.toDest = told(Dest[o], @)]

Fail(o, c, r) == Resolve(c, o, r, "error")

\* The relay starts with the source, whose connection is not looked at.
StartRelay(o, c, r) ==
    IF CanSend(c, Src[o])
    THEN [r EXCEPT !.phase = "reading", !.result = "none", !.started = FALSE, !.slow = FALSE,
                   !.toSrc = Append(@, "read")]
    ELSE Fail(o, c, r)

StartDirect(o, c, r) ==
    IF c[Src[o]] = "up" /\ c[Dest[o]] # "gone" /\ CanSend(c, Src[o])
    THEN [r EXCEPT !.phase = "direct", !.started = FALSE, !.slow = FALSE,
                   !.toSrc = Append(@, "direct")]
    ELSE StartRelay(o, c, BestEffortUntrust(o, c, r))

\* Whatever became of the direct attempt, the key is revoked next.
FinishDirect(o, c, r, result) ==
    BestEffortUntrust(o, c, [r EXCEPT !.phase = "untrusting", !.result = result,
                                      !.started = FALSE, !.slow = FALSE])

FinishAfterUntrust(o, c, r, mayRelay) ==
    CASE r.result = "ok" -> Resolve(c, o, r, "direct")
      [] r.result # "ok" /\ mayRelay -> StartRelay(o, c, r)
      [] OTHER -> Fail(o, c, r)

MaybeTrusted(r) == r.trusted \/ r.phase = "trusting"

\* Mutant of GiveUp: only an acknowledged key is revoked.
GiveUpOnlyTrusted(o, c, r) ==
    LET q == [r EXCEPT !.cancel = @ \/ r.phase = "direct"]
    IN Fail(o, c, IF r.trusted THEN BestEffortUntrust(o, c, q) ELSE q)

\* A lost session or the total deadline ends the job: the direct attempt is
\* cancelled and a key that may stand is revoked.
GiveUp(o, c, r) ==
    LET q == [r EXCEPT !.cancel = @ \/ r.phase = "direct"]
    IN Fail(o, c, IF MaybeTrusted(r) THEN BestEffortUntrust(o, c, q) ELSE q)

OnTrusted(o, c, in, r) ==
    IF r.phase # "trusting" THEN r
    ELSE IF <<"trusted", FALSE>> \in in THEN StartRelay(o, c, r)
    ELSE IF <<"trusted", TRUE>> \in in THEN StartDirect(o, c, [r EXCEPT !.trusted = TRUE])
    ELSE r

OnStarted(in, r) ==
    IF r.phase = "direct" /\ <<"started", TRUE>> \in in THEN [r EXCEPT !.started = TRUE] ELSE r

OnDirectDone(o, c, in, r) ==
    IF r.phase # "direct" THEN r
    ELSE IF <<"direct", TRUE>> \in in THEN FinishDirect(o, c, r, "ok")
    ELSE IF <<"direct", FALSE>> \in in THEN FinishDirect(o, c, r, "error")
    ELSE r

\* Receipts of a revocation count only while the job exists.
OnUntrusted(o, c, in, r) ==
    LET heard == {ok \in BOOLEAN : <<"untrusted", ok>> \in in}
        q     == [r EXCEPT !.warned = @ \/ FALSE \in heard,
                           !.trusted = @ /\ TRUE \notin heard]
    IN IF heard = {} \/ r.phase \in {"none", "done"} THEN r
       ELSE IF r.phase = "untrusting" THEN FinishAfterUntrust(o, c, q, TRUE)
       ELSE q

OnRelaySource(o, c, in, r) ==
    IF r.phase # "reading" THEN r
    ELSE IF <<"source", TRUE>> \in in THEN
            IF c[Dest[o]] = "up" /\ CanSend(c, Dest[o])
            THEN [r EXCEPT !.phase = "writing", !.toDest = Append(@, "write")]
            ELSE Fail(o, c, r)
    ELSE IF <<"source", FALSE>> \in in THEN Fail(o, c, r)
    ELSE r

\* Mutant of OnCopyDone: the source's TransferDone counts too.
OnCopyDoneEither(o, c, in, r) ==
    IF r.phase # "writing" THEN r
    ELSE IF <<"copied", TRUE>> \in in \/ <<"read", TRUE>> \in in THEN Resolve(c, o, r, "relay")
    ELSE IF <<"copied", FALSE>> \in in THEN Fail(o, c, r)
    ELSE r

\* Only the destination's TransferDone ends the copy, never the source's.
OnCopyDone(o, c, in, r) ==
    IF r.phase # "writing" THEN r
    ELSE IF <<"copied", TRUE>> \in in THEN Resolve(c, o, r, "relay")
    ELSE IF <<"copied", FALSE>> \in in THEN Fail(o, c, r)
    ELSE r

\* A session of the copy is down.  Waiting for the receipt of a revocation
\* goes on, but the user is told that the receipt will not come.
OnDeadSession(o, c, r) ==
    IF r.phase \in {"none", "done"} THEN r
    ELSE IF r.phase = "untrusting" THEN
            IF r.trusted /\ c[Dest[o]] # "up"
            THEN [WarnResidue(r) EXCEPT !.trusted = FALSE] ELSE r
    ELSE IF c[Src[o]] # "up" \/ c[Dest[o]] # "up" THEN GiveUp(o, c, r)
    ELSE r

\* Mutant of OnTimeout: the total deadline fails every job.
OnTimeoutFailsAll(o, c, r) ==
    IF r.phase \in {"none", "done"} \/ ~r.late THEN r ELSE GiveUp(o, c, r)

OnTimeout(o, c, r) ==
    IF r.phase \in {"none", "done"} THEN r
    ELSE IF r.late THEN
            IF r.phase = "untrusting" THEN FinishAfterUntrust(o, c, r, FALSE) ELSE GiveUp(o, c, r)
    ELSE IF r.slow /\ r.phase = "direct" /\ ~r.started THEN
            FinishDirect(o, c, [r EXCEPT !.cancel = TRUE], "error")
    ELSE IF r.slow /\ r.phase = "untrusting" THEN FinishAfterUntrust(o, c, r, TRUE)
    ELSE r

\* advance_cross_copy_jobs: the events by kind, then the dead, then the late.
Advance(o, c, in, r) ==
    LET a == OnUntrusted(o, c, in, OnDirectDone(o, c, in, OnStarted(in, OnTrusted(o, c, in, r))))
    IN OnTimeout(o, c, OnDeadSession(o, c, OnCopyDone(o, c, in, OnRelaySource(o, c, in, a))))

FromDest == {"trusted", "untrusted", "copied"}
FromSrc  == {"started", "direct", "source", "read"}

\* Events of session s among the waiting ones.
Waiting(o, s) == {e \in inbox[o] :
    (Dest[o] = s /\ e[1] \in FromDest) \/ (Src[o] = s /\ e[1] \in FromSrc)}

\* One frame of the application: drain events, then advance every job.  The
\* drain has a budget, so a frame may leave the later events for the next;
\* the last one of a lost connection is its Disconnected.
Frame == \E in \in SUBSET UNION {inbox[o] : o \in Ops} :
    LET left(o)  == inbox[o] \ in
        noted(s) == lost[s] /\ \A o \in Ops : Waiting(o, s) \cap left(o) = {}
        c == [s \in Sessions |-> IF noted(s) THEN "down" ELSE conn[s]]
    IN /\ ~exited
       /\ UNCHANGED <<worker, tasks, keys, file, revoked, losses, exited>>
       /\ conn' = c
       /\ lost' = [s \in Sessions |-> lost[s] /\ ~noted(s)]
       /\ \A o \in Ops :
            /\ <<"started", TRUE>> \in left(o) => <<"direct", TRUE>> \notin in
            /\ <<"source", TRUE>> \in left(o) => <<"read", TRUE>> \notin in
       /\ job' = [o \in Ops |-> Advance(o, c, inbox[o] \cap in, job[o])]
       /\ inbox' = [o \in Ops |-> IF job'[o].phase = "done" THEN {} ELSE left(o)]
       /\ fault' = [o \in Ops |-> fault[o] \cup {f \in {"dead", "unheard"} :
            /\ job[o].phase # "done" /\ job'[o].phase = "done" /\ ~job'[o].warned
            /\ f = "dead" => worker[Dest[o]] # "running"
            /\ f = "unheard" => <<"untrusted", FALSE>> \in left(o)}]

\* The request: both sessions must be connected; the key goes out first.
CopyBetweenSessions(o) ==
    /\ ~exited
    /\ job[o].phase = "none"
    /\ \A s \in {Src[o], Dest[o]} : conn[s] = "up"
    /\ CanSend(conn, Dest[o])
    /\ job' = [job EXCEPT ![o].phase = "trusting", ![o].toDest = <<"trust">>]
    /\ UNCHANGED <<conn, worker, lost, inbox, tasks, keys, file, revoked, fault, losses, exited>>

\* Time: the total deadline, and the short one of the present phase.
DeadlinePasses(o) ==
    /\ ~exited
    /\ job[o].phase \notin {"none", "done"}
    /\ \/ ~job[o].late /\ job' = [job EXCEPT ![o].late = TRUE]
       \/ /\ ~job[o].slow /\ job[o].phase \in {"direct", "untrusting"}
          /\ job' = [job EXCEPT ![o].slow = TRUE]
    /\ UNCHANGED <<conn, worker, lost, inbox, tasks, keys, file, revoked, fault, losses, exited>>

--------------------------------------------------------------------------------
(* The workers and the two hosts.                                          *)

\* An event for the application; one that finds no job is ignored there.
Tell(o, kind, ok) == inbox' = [inbox EXCEPT ![o] =
    IF job[o].phase = "done" THEN @ ELSE @ \cup {<<kind, ok>>}]

\* The destination's worker takes a command and starts a task for it.
TakeDest(o) ==
    LET msg == Head(job[o].toDest)
        t   == tasks[o]
    IN /\ ~exited /\ worker[Dest[o]] = "running" /\ job[o].toDest # <<>>
       /\ job' = [job EXCEPT ![o].toDest = Tail(@)]
       /\ tasks' = [tasks EXCEPT ![o] =
            CASE msg = "trust"   -> [t EXCEPT !.trust = TRUE]
              [] msg = "untrust" -> [t EXCEPT !.revoke = @ + 1]
              [] msg = "write"   -> [t EXCEPT !.writer = "open"]
              [] msg = "cancel"  -> [t EXCEPT !.writer = IF @ = "open" THEN "cancelled" ELSE @]]
       /\ UNCHANGED <<conn, worker, lost, inbox, keys, file, revoked, fault, losses, exited>>

TakeSrc(o) ==
    LET msg == Head(job[o].toSrc)
        t   == tasks[o]
    IN /\ ~exited /\ worker[Src[o]] = "running" /\ job[o].toSrc # <<>>
       /\ job' = [job EXCEPT ![o].toSrc = Tail(@)]
       /\ tasks' = [tasks EXCEPT ![o] =
            CASE msg = "direct" -> [t EXCEPT !.direct = "prep"]
              [] msg = "read"   -> [t EXCEPT !.reader = "open"]
              [] msg = "cancel" ->
                   [t EXCEPT !.reader = IF @ \in {"open", "streaming"} THEN "cancelled" ELSE @]]
       /\ UNCHANGED <<conn, worker, lost, inbox, keys, file, revoked, fault, losses, exited>>

\* trust_temp_key appends the key; the reply may fail after the append.
TrustTempKey(o) == \E appended, ok \in BOOLEAN :
    /\ ~exited /\ tasks[o].trust
    /\ ok => appended
    /\ tasks' = [tasks EXCEPT ![o].trust = FALSE]
    /\ keys' = [keys EXCEPT ![o] = @ \/ appended]
    /\ Tell(o, "trusted", ok)
    /\ fault' = [fault EXCEPT ![o] = @ \cup {f \in {"receipt", "outran"} :
                    appended /\ (f = "receipt" => ~ok) /\ (f = "outran" => revoked[o])}]
    /\ UNCHANGED <<job, conn, worker, lost, file, revoked, losses, exited>>

\* untrust_temp_key rewrites authorized_keys without the marked line.  The
\* command also exits with 0 when grep, chmod or mv failed inside it.
UntrustTempKey(o) == \E removed, ok \in BOOLEAN :
    /\ ~exited /\ tasks[o].revoke > 0
    /\ tasks' = [tasks EXCEPT ![o].revoke = @ - 1]
    /\ keys' = [keys EXCEPT ![o] = @ /\ ~removed]
    /\ revoked' = [revoked EXCEPT ![o] = @ \/ removed]
    /\ Tell(o, "untrusted", ok)
    /\ fault' = [fault EXCEPT ![o] = @ \cup {f \in {"swallowed", "unheard"} :
                    /\ ~removed
                    /\ IF f = "swallowed" THEN ok ELSE ~ok /\ job[o].phase = "done"}]
    /\ UNCHANGED <<job, conn, worker, lost, file, losses, exited>>

\* direct_relay_copy: preparation may fail, an abandoned attempt is not launched.
DirectPrepare(o) ==
    /\ ~exited /\ tasks[o].direct = "prep"
    /\ \/ /\ ~job[o].cancel
          /\ tasks' = [tasks EXCEPT ![o].direct = "launch"] /\ UNCHANGED inbox
       \/ tasks' = [tasks EXCEPT ![o].direct = "none"] /\ Tell(o, "direct", FALSE)
    /\ UNCHANGED <<job, conn, worker, lost, keys, file, revoked, fault, losses, exited>>

\* The command goes to the source host; only then is the attempt started.
DirectLaunch(o) ==
    /\ ~exited /\ tasks[o].direct = "launch"
    /\ \/ /\ tasks' = [tasks EXCEPT ![o].direct = "attached", ![o].remote = "running"]
          /\ Tell(o, "started", TRUE)
       \/ tasks' = [tasks EXCEPT ![o].direct = "none"] /\ Tell(o, "direct", FALSE)
    /\ UNCHANGED <<job, conn, worker, lost, keys, file, revoked, fault, losses, exited>>

\* The command on the source host: it copies to a temporary name and moves
\* that into place, each over a connection that needs the key.  It runs on
\* after the task that waits for it was cancelled or has died.
RemoteCommand(o) == LET waited == tasks[o].direct = "attached" IN
    /\ tasks[o].remote = "running"
    /\ \/ /\ keys[o]
          /\ file' = [file EXCEPT ![o] = "direct"]
          /\ tasks' = [tasks EXCEPT ![o].remote = IF waited THEN "landed" ELSE "none"]
       \/ /\ tasks' = [tasks EXCEPT ![o].remote = IF waited THEN "failed" ELSE "none"]
          /\ UNCHANGED file
    /\ UNCHANGED <<job, conn, worker, lost, inbox, keys, revoked, fault, losses, exited>>

\* The waiting task reports the exit code, or stops reading when cancelled.
DirectReport(o) ==
    /\ ~exited /\ tasks[o].direct = "attached"
    /\ tasks[o].remote # "running" \/ job[o].cancel
    /\ tasks' = [tasks EXCEPT ![o].direct = "none",
                              ![o].remote = IF @ = "running" THEN @ ELSE "none"]
    /\ \E ok \in BOOLEAN :
         /\ ok => tasks[o].remote = "landed"
         /\ ~ok => tasks[o].remote # "landed" \/ job[o].cancel
         /\ Tell(o, "direct", ok)
    /\ UNCHANGED <<job, conn, worker, lost, keys, file, revoked, fault, losses, exited>>

\* relay_read_file: the size first, then the bytes into the pipe.
RelayRead(o) ==
    /\ ~exited
    /\ \/ /\ tasks[o].reader = "open"
          /\ \/ tasks' = [tasks EXCEPT ![o].reader = "streaming"] /\ Tell(o, "source", TRUE)
             \/ /\ tasks' = [tasks EXCEPT ![o].reader = "over", ![o].pipe = "short"]
                /\ Tell(o, "source", FALSE)
       \/ /\ tasks[o].reader = "streaming"
          /\ tasks' = [tasks EXCEPT ![o].reader = "over", ![o].pipe = "whole"]
          /\ Tell(o, "read", TRUE)
       \/ /\ tasks[o].reader \in {"streaming", "cancelled"}
          /\ tasks' = [tasks EXCEPT ![o].reader = "over", ![o].pipe = "short"]
          /\ Tell(o, "read", FALSE)
    /\ UNCHANGED <<job, conn, worker, lost, keys, file, revoked, fault, losses, exited>>

\* upload_from_mcp: the file is replaced at once and only by a whole one; a
\* cancelled or failed call may have replaced it already.
RelayWrite(o) == \E committed, ok \in BOOLEAN :
    /\ ~exited /\ tasks[o].writer \in {"open", "cancelled"}
    /\ committed => tasks[o].pipe = "whole"
    /\ ok => committed /\ tasks[o].writer = "open"
    /\ tasks' = [tasks EXCEPT ![o].writer = "over"]
    /\ file' = [file EXCEPT ![o] = IF committed THEN "relayed" ELSE @]
    /\ Tell(o, "copied", ok)
    /\ UNCHANGED <<job, conn, worker, lost, keys, revoked, fault, losses, exited>>

--------------------------------------------------------------------------------
(* Losing and regaining connections, and the end of the program.           *)

\* What is left of the tasks of copy o when the worker of session s dies,
\* and the errors they may still report.
TasksAfterLoss(o, s) ==
    LET t == tasks[o]
        d == IF s = Dest[o]
             THEN [t EXCEPT !.trust = FALSE, !.revoke = 0,
                            !.writer = IF @ \in {"open", "cancelled"} THEN "over" ELSE @]
             ELSE t
    IN IF s = Src[o]
       THEN [d EXCEPT !.direct = "none", !.remote = IF @ = "running" THEN @ ELSE "none",
                      !.reader = IF @ = "none" THEN @ ELSE "over",
                      !.pipe = IF d.reader \in {"open", "streaming", "cancelled"} THEN "short" ELSE @]
       ELSE d

ErrorsAfterLoss(o, s) ==
    {e \in (FromDest \cup FromSrc) \X {FALSE} :
        \/ e[1] = "trusted" /\ s = Dest[o] /\ tasks[o].trust
        \/ e[1] = "untrusted" /\ s = Dest[o] /\ tasks[o].revoke > 0
        \/ e[1] = "copied" /\ s = Dest[o] /\ tasks[o].writer \in {"open", "cancelled"}
        \/ e[1] = "direct" /\ s = Src[o] /\ tasks[o].direct # "none"
        \/ e[1] = "source" /\ s = Src[o] /\ tasks[o].reader = "open"
        \/ e[1] = "read" /\ s = Src[o] /\ tasks[o].reader = "streaming"}

\* A revocation is queued or running at the destination.
RevocationUnderWay(o) ==
    \/ tasks[o].revoke > 0
    \/ \E i \in DOMAIN job[o].toDest : job[o].toDest[i] = "untrust"

\* The worker of s dies.  The tasks of s end; `done` says whether those that
\* change authorized_keys had their effect, `told` whether errors got out.
Die(s, done, told, closing) ==
    LET touched(o)  == Dest[o] = s /\ tasks[o].trust /\ done
        cleaned(o)  == Dest[o] = s /\ tasks[o].revoke > 0 /\ done
        late(o)     == Dest[o] = s /\ ~cleaned(o) /\ RevocationUnderWay(o) /\ job[o].phase = "done"
    IN /\ losses < MaxLosses /\ losses' = losses + 1
       /\ tasks' = [o \in Ops |-> TasksAfterLoss(o, s)]
       /\ keys' = [o \in Ops |-> (keys[o] \/ touched(o)) /\ ~cleaned(o)]
       /\ revoked' = [o \in Ops |-> revoked[o] \/ cleaned(o)]
       /\ inbox' = [o \in Ops |->
            IF closing THEN inbox[o] \ Waiting(o, s)
            ELSE inbox[o] \cup (IF told /\ job[o].phase # "done" THEN ErrorsAfterLoss(o, s) ELSE {})]
       /\ fault' = [o \in Ops |-> fault[o]
            \cup (IF touched(o) /\ told /\ ~closing THEN {"receipt"} ELSE {})
            \cup (IF touched(o) /\ ~cleaned(o) /\ revoked[o] THEN {"outran"} ELSE {})
            \cup (IF late(o) THEN {"unheard"} ELSE {})]

\* The connection is lost: the worker leaves its loop and reports it, its
\* command channel stays open for a while, and nothing reads it any more.
LoseConnection(s) ==
    /\ ~exited /\ worker[s] = "running"
    /\ \E done, told \in BOOLEAN : Die(s, done, told, FALSE)
    /\ worker' = [worker EXCEPT ![s] = "draining"]
    /\ lost' = [lost EXCEPT ![s] = TRUE]
    /\ UNCHANGED <<job, conn, file, exited>>

WorkerEnds(s) ==
    /\ ~exited /\ worker[s] = "draining"
    /\ worker' = [worker EXCEPT ![s] = "ended"]
    /\ UNCHANGED <<job, conn, lost, inbox, tasks, keys, file, revoked, fault, losses, exited>>

\* The user closes the session: it and what it reported are gone.
CloseSession(s) ==
    /\ ~exited /\ conn[s] = "up" /\ worker[s] = "running"
    /\ \E done \in BOOLEAN : Die(s, done, FALSE, TRUE)
    /\ conn' = [conn EXCEPT ![s] = "gone"]
    /\ worker' = [worker EXCEPT ![s] = "ended"]
    /\ UNCHANGED <<job, lost, file, exited>>

\* reconnect_session: new channels and a new worker; old commands are lost.
Reconnect(s) ==
    /\ ~exited /\ conn[s] = "down"
    /\ conn' = [conn EXCEPT ![s] = "up"]
    /\ worker' = [worker EXCEPT ![s] = "running"]
    /\ job' = [o \in Ops |-> [job[o] EXCEPT
                 !.toSrc = IF Src[o] = s THEN <<>> ELSE @,
                 !.toDest = IF Dest[o] = s THEN <<>> ELSE @]]
    /\ inbox' = [o \in Ops |-> inbox[o] \ Waiting(o, s)]
    /\ UNCHANGED <<lost, tasks, keys, file, revoked, fault, losses, exited>>

\* revoke_temp_keys_on_exit: what may be trusted is logged, and the workers
\* end with the program; only the command on the source host runs on.
Exit ==
    /\ ~exited /\ exited' = TRUE
    /\ job' = [o \in Ops |-> [NoJob EXCEPT
                 !.phase = job[o].phase, !.ans = job[o].ans,
                 !.warned = job[o].warned \/ (MaybeTrusted(job[o]) /\ job[o].phase # "done")]]
    /\ fault' = [o \in Ops |-> fault[o] \cup
                 (IF RevocationUnderWay(o) /\ job[o].phase = "done" THEN {"unheard"} ELSE {})]
    /\ conn' = [s \in Sessions |-> "gone"]
    /\ worker' = [s \in Sessions |-> "ended"]
    /\ lost' = [s \in Sessions |-> FALSE]
    /\ inbox' = [o \in Ops |-> {}]
    /\ tasks' = [o \in Ops |-> [NoTasks EXCEPT
                   !.remote = IF tasks[o].remote = "running" THEN "running" ELSE "none",
                   !.pipe = tasks[o].pipe]]
    /\ UNCHANGED <<keys, file, revoked, losses>>

TaskStep(o) ==
    \/ TakeDest(o) \/ TakeSrc(o) \/ TrustTempKey(o) \/ UntrustTempKey(o)
    \/ DirectPrepare(o) \/ DirectLaunch(o) \/ DirectReport(o)
    \/ RelayRead(o) \/ RelayWrite(o)

Next ==
    \/ Frame \/ Exit
    \/ \E o \in Ops : CopyBetweenSessions(o) \/ DeadlinePasses(o) \/ TaskStep(o) \/ RemoteCommand(o)
    \/ \E s \in Sessions : LoseConnection(s) \/ WorkerEnds(s) \/ CloseSession(s) \/ Reconnect(s)

Spec == Init /\ [][Next]_vars

--------------------------------------------------------------------------------
(* Properties                                                              *)

\* A caller told that the file was copied finds it replaced by a whole copy
\* of the source (resolve_cross_copy_job): the source's own TransferDone, a
\* late event of an abandoned attempt or a timeout never make an answer "ok".
AnswerTrue == \A o \in Ops :
    /\ job[o].ans = "direct" => file[o] = "direct"
    /\ job[o].ans = "relay" => file[o] # "old" /\ tasks[o].pipe = "whole"

\* Once a copy is over, its temporary key is gone, is about to be removed, or
\* the user was told, except in five ways (best_effort_untrust and the paths
\* that skip it): the append was reported as failed, the revocation ran
\* before the append, a revocation failed when no job was left to hear of
\* it, the shell command hid its own failure, or the job ended, without a
\* warning, when the worker of the destination was already dead.
ResidueExplained == \A o \in Ops :
    (job[o].phase = "done" /\ keys[o] /\ ~job[o].warned)
        => fault[o] # {} \/ RevocationUnderWay(o)

\* After a failed copy no worker goes on transferring for it unnoticed: each
\* relay task has ended, was cancelled, or has the cancellation queued.
FailureStopsRelay == \A o \in Ops :
    (job[o].ans = "error" /\ ~exited) =>
        /\ (tasks[o].reader \in {"open", "streaming"} \/ \E i \in DOMAIN job[o].toSrc : job[o].toSrc[i] = "read")
             => worker[Src[o]] # "running" \/ \E i \in DOMAIN job[o].toSrc : job[o].toSrc[i] = "cancel"
        /\ (tasks[o].writer = "open" \/ \E i \in DOMAIN job[o].toDest : job[o].toDest[i] = "write")
             => worker[Dest[o]] # "running" \/ \E i \in DOMAIN job[o].toDest : job[o].toDest[i] = "cancel"

\* Every request is answered in time: the first frame after the total
\* deadline ends the job in whatever phase it is, whatever the hosts and the
\* workers do (advance_cross_copy_jobs), and as a success if the direct copy
\* had succeeded and only the receipt of the revocation was missing.
DeadlineAnswers == [][\A o \in Ops : (Frame /\ job[o].late) =>
    /\ job'[o].phase = "done" /\ job'[o].ans # "none"
    /\ (job[o].phase = "untrusting" /\ job[o].result = "ok") => job'[o].ans = "direct"]_vars

-----------------------------------------------------------------------------
(* What comments of the code say and the code does not do *)

\* mcp_bridge.rs:2374, a residue "must be visible to the user": once a
\* copy is over and nothing removes its key any more, the user was told.
ResidueVisible == \A o \in Ops :
    (job[o].phase = "done" /\ keys[o] /\ ~RevocationUnderWay(o) /\ ~tasks[o].trust)
        => job[o].warned

\* direct.rs:462, the late end of a direct copy that was given up leaves the
\* destination "untouched": it stays what the relay has put there.
RelayedStays == [][\A o \in Ops : file[o] = "relayed" => file'[o] = "relayed"]_vars
================================================================================
