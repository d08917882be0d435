------------------------------ MODULE McpRuns ------------------------------
(***************************************************************************)
(* The commands an AI runs in a session it opened: run_command, poll_run,   *)
(* interrupt and send_input of app/mcp_bridge.rs, the capture in            *)
(* terminal/mod.rs and terminal/feed.rs that decides when a command has     *)
(* ended and with which code, and the shell at the other end of the line.   *)
(*                                                                         *)
(* A run is known by its number, and the exit code of its command is that   *)
(* number too: an answer that carries another number tells the caller the   *)
(* status of a line that is not the command's.                              *)
(*                                                                         *)
(* The session keeps one run (pending_ai_run), "the gate".  Once a frame    *)
(* the user interface handles the calls, then DrainRuns, then the events of *)
(* the worker.  What the user interface types and what the shell prints     *)
(* travel in two queues, so calls race with the shell.                      *)
(***************************************************************************)
EXTENDS Integers, Sequences

CONSTANTS
    MaxRuns,    \* bound: calls of run_command that are accepted
    MaxCalls,   \* bound: calls of poll_run and send_input that are accepted
    MaxDrops    \* bound: connections that end

ASSUME RunsAssumption ==
    /\ MaxRuns \in Nat \ {0}
    /\ MaxCalls \in Nat /\ MaxDrops \in Nat

Runs == 1..MaxRuns
Exit == MaxRuns + 1             \* the code a shell leaves with
Codes == 0..Exit                \* 0 is the status of every other line
NoCode == -1

VARIABLES
    phase,  \* where the frame stands: "calls" or "events"
    run,    \* Session::pending_ai_run
    term,   \* the capture of the Terminal and what it has seen of OSC 133
    line,   \* the session: connected, the worker's queue open, snippet typed
    todo,   \* typed and not yet read by the shell
    shell,  \* the remote shell
    out,    \* printed and not yet drained (WorkerEvents in order)
    fate,   \* per run: how its tracking ended
    told,   \* per run: the code its caller was sent, if the run is clean
    known,  \* the runs whose code the terminal has found
    used    \* the calls spent of each bound

runsVars == <<phase, run, term, line, todo, shell, out, fate, told, known, used>>

NoRun == [id |-> 0]
NoLine == [kind |-> "none", k |-> 0]
NoCapture == [mode |-> "none", started |-> FALSE]

\* Terminal::new
FreshTerm == [cap |-> NoCapture, done |-> NoCode, active |-> FALSE, sawC |-> FALSE]

\* hasC: this shell can announce the start of a command (bash < 4.4 cannot).
FreshShell(hasC) ==
    [alive |-> TRUE, fg |-> NoLine, hooked |-> FALSE, last |-> 0, hasC |-> hasC]

RunsInit ==
    /\ phase = "calls"
    /\ run = NoRun
    /\ term = FreshTerm
    /\ line = [connected |-> TRUE, open |-> TRUE, typed |-> FALSE]
    /\ todo = <<>>
    /\ \E hasC \in BOOLEAN : shell = FreshShell(hasC)
    /\ out = <<>>
    /\ fate = [k \in Runs |-> "open"]
    /\ told = [k \in Runs |-> NoCode]
    /\ known = {}
    /\ used = [runs |-> 0, calls |-> 0, drops |-> 0]

Spend(what) == used' = [used EXCEPT ![what] = @ + 1]

-----------------------------------------------------------------------------
(* The shell. A line is a run's command, its mark (the printf that prints   *)
(* the sentinel), a line of the caller ("line", or "blank" for a bare       *)
(* return) or the snippet that hooks OSC 133 in; "intr" is a Ctrl-C.        *)

HasLine == shell.alive /\ shell.fg = NoLine /\ todo # <<>>

\* A hooked shell that can announces the start of the line it reads.
ShellTakes ==
    /\ HasLine /\ Head(todo).kind # "intr"
    /\ todo' = Tail(todo)
    /\ shell' = [shell EXCEPT !.fg = Head(todo)]
    /\ out' = IF shell.hooked /\ shell.hasC /\ Head(todo).kind # "blank"
              THEN Append(out, [e |-> "C", k |-> 0, code |-> 0]) ELSE out
    /\ UNCHANGED <<phase, run, term, line, fate, told, known, used>>

StatusOf(l) == CASE l.kind = "run" -> l.k
                 [] l.kind = "blank" -> shell.last
                 [] OTHER -> 0

\* The line ends: a mark prints the status of the line before it, and the
\* prompt of a hooked shell announces the end with the status of this one.
Finish(l) ==
    LET hooked == shell.hooked \/ l.kind = "hook"
        marks == IF l.kind = "mark"
                 THEN <<[e |-> "M", k |-> l.k, code |-> shell.last]>> ELSE <<>>
        ends == IF hooked
                THEN <<[e |-> "D", k |-> 0, code |-> StatusOf(l)]>> ELSE <<>>
    IN /\ shell' = [shell EXCEPT !.fg = NoLine, !.hooked = hooked, !.last = StatusOf(l)]
       /\ out' = out \o marks \o ends

ShellEnds ==
    /\ shell.alive /\ shell.fg # NoLine
    /\ Finish(shell.fg)
    /\ UNCHANGED <<phase, run, term, line, todo, fate, told, known, used>>

\* cat, read or a REPL in front takes the next line as its input.
ProgramSwallows ==
    /\ shell.alive /\ shell.fg.kind \in {"run", "line"}
    /\ todo # <<>> /\ Head(todo).kind # "intr"
    /\ todo' = Tail(todo)
    /\ UNCHANGED <<phase, run, term, line, shell, out, fate, told, known, used>>

\* Ctrl-C reaches the terminal: the lines not yet read are flushed, and the
\* program in front ends or ignores it.
InterruptArrives ==
    /\ shell.alive
    /\ \E i \in 1..Len(todo) :
         /\ todo[i].kind = "intr"
         /\ \A j \in 1..(i - 1) : todo[j].kind # "intr"
         /\ todo' = SubSeq(todo, i + 1, Len(todo))
    /\ \/ shell.fg # NoLine /\ Finish(shell.fg)
       \/ UNCHANGED <<shell, out>>
    /\ UNCHANGED <<phase, run, term, line, fate, told, known, used>>

\* The shell exits (exit 3, a time limit, an administrator), or the connection
\* is lost; ssh/mod.rs sends ShellExited before Disconnected.
WorkerEnds ==
    /\ shell.alive /\ used.drops < MaxDrops
    /\ shell' = [shell EXCEPT !.alive = FALSE, !.fg = NoLine]
    /\ \E exits \in BOOLEAN :
         out' = out \o (IF exits THEN <<[e |-> "exit", k |-> 0, code |-> Exit]>> ELSE <<>>)
                    \o <<[e |-> "lost", k |-> 0, code |-> 0]>>
    /\ todo' = <<>>
    /\ line' = [line EXCEPT !.open = FALSE]
    /\ Spend("drops")
    /\ UNCHANGED <<phase, run, term, fate, told, known>>

-----------------------------------------------------------------------------
(* Ends of a run.                                                           *)

\* A finished answer: it reaches the caller if the caller still waits.
\* Sending to a caller that has gone away drops the answer all the same.
Deliver(r, code) ==
    /\ run' = NoRun
    /\ fate' = [fate EXCEPT ![r.id] = IF r.waiter = "live" THEN "told" ELSE "gone"]
    /\ told' = IF r.waiter = "live" /\ r.clean THEN [told EXCEPT ![r.id] = code] ELSE told

NoCaptureIn(t) == [t EXCEPT !.cap = NoCapture, !.done = NoCode]

\* end_pending_ai_run: a result in hand is kept when keep_finished says so.
EndRun(keepFinished, why) ==
    /\ term' = NoCaptureIn(term)
    /\ IF run = NoRun \/ (keepFinished /\ run.result # NoCode)
       THEN UNCHANGED <<run, fate>>
       ELSE run' = NoRun /\ fate' = [fate EXCEPT ![run.id] = why]
    /\ UNCHANGED told

CancelRun == EndRun(TRUE, "offline")
Discard(why) == EndRun(FALSE, why)

\* finish_ai_run_with_exit_code: the code of the shell stands for the code of
\* the command, and goes to the caller or over whatever was cached.
FinishWithExitCode(code) ==
    IF run = NoRun THEN UNCHANGED <<run, term, fate, told>>
    ELSE /\ term' = NoCaptureIn(term)
         /\ IF run.waiter # "none" THEN Deliver(run, code)
            ELSE /\ run' = [run EXCEPT !.result = code]
                 /\ UNCHANGED <<fate, told>>

-----------------------------------------------------------------------------
(* The calls.                                                               *)

\* What makes the next run's answer certain to be its own: see FinishedExact.
Settled ==
    IF ~term.active THEN shell.fg = NoLine /\ todo = <<>>
    ELSE IF term.sawC THEN todo = <<>> /\ \A i \in 1..Len(out) : out[i].e # "C"
    ELSE shell.fg = NoLine /\ todo = <<>> /\ out = <<>>

RunMayStart == line.connected /\ run = NoRun /\ line.open

\* The command is typed, and behind it the mark if the shell is not hooked.
RunCommand ==
    /\ phase = "calls" /\ used.runs < MaxRuns
    /\ RunMayStart
    /\ LET k == used.runs + 1 IN
         /\ todo' = todo \o <<[kind |-> "run", k |-> k]>>
                         \o (IF term.active THEN <<>> ELSE <<[kind |-> "mark", k |-> k]>>)
         /\ term' = [term EXCEPT !.done = NoCode,
                       !.cap = [mode |-> IF term.active THEN "osc" ELSE "mark",
                                started |-> FALSE]]
         /\ run' = [id |-> k, waiter |-> "live",
                    result |-> NoCode, clean |-> Settled]
    /\ Spend("runs")
    /\ UNCHANGED <<phase, line, shell, out, fate, told, known>>

\* A caller still waiting is not displaced, one that has gone away is.
PollRun ==
    /\ phase = "calls" /\ used.calls < MaxCalls
    /\ run # NoRun /\ run.waiter # "live"
    /\ run' = [run EXCEPT !.waiter = "live"]
    /\ Spend("calls")
    /\ UNCHANGED <<phase, term, line, todo, shell, out, fate, told, known>>

Interrupt ==
    /\ phase = "calls"
    /\ line.connected /\ line.open /\ run # NoRun
    /\ todo' = Append(todo, [kind |-> "intr", k |-> 0])
    /\ Discard("interrupt")
    /\ UNCHANGED <<phase, line, shell, out, known, used>>

SendInput ==
    /\ phase = "calls" /\ used.calls < MaxCalls
    /\ line.connected /\ line.open
    /\ \E kind \in {"line", "blank"} : todo' = Append(todo, [kind |-> kind, k |-> 0])
    /\ run' = IF run # NoRun /\ run.result = NoCode
              THEN [run EXCEPT !.clean = FALSE] ELSE run
    /\ Spend("calls")
    /\ UNCHANGED <<phase, term, line, shell, out, fate, told, known>>

\* handle_conn drops the call when its client hangs up.
CallerGoes ==
    /\ run # NoRun /\ run.waiter = "live"
    /\ run' = [run EXCEPT !.waiter = "closed"]
    /\ UNCHANGED <<phase, term, line, todo, shell, out, fate, told, known, used>>

-----------------------------------------------------------------------------
(* The frame.                                                               *)

AbandonedThoughFinished == run.waiter # "live"
AbandonedThoughDue == FALSE

\* run_is_abandoned after RECLAIM_IDLE (ten minutes) without output and without
\* a poll, for a run without a result: what the terminal has found was printed
\* and taken by a frame long before.
Abandoned ==
    /\ run.result = NoCode /\ term.done = NoCode
    /\ run.waiter # "live"

Reclaim == run # NoRun /\ Abandoned /\ Discard("reclaimed")

\* The code in hand: the one kept, else the one the terminal has found.
InHand == IF run.result = NoCode THEN term.done ELSE run.result

\* A result is told to the caller, or kept for the next poll_run.
TakeResult ==
    /\ run # NoRun /\ InHand # NoCode
    /\ term' = IF run.result = NoCode THEN [term EXCEPT !.done = NoCode] ELSE term
    /\ IF run.waiter # "none" THEN Deliver(run, InHand)
       ELSE /\ run' = [run EXCEPT !.result = InHand]
            /\ UNCHANGED <<fate, told>>

PatienceKeepsCaller == run # NoRun /\ InHand = NoCode /\ UNCHANGED <<run, term, fate, told>>

\* The patience of the call is over: "not finished", and the run goes on.
PatienceEnds ==
    /\ run # NoRun /\ InHand = NoCode
    /\ run' = [run EXCEPT !.waiter = "none"]
    /\ UNCHANGED <<term, fate, told>>

NothingDue ==
    /\ run # NoRun => InHand = NoCode
    /\ UNCHANGED <<run, term, fate, told>>

\* drain_mcp_calls, after the calls of the frame
Drains(step) ==
    /\ phase = "calls" /\ phase' = "events"
    /\ step
    /\ UNCHANGED <<line, todo, shell, out, known, used>>

DrainRuns == Drains(Reclaim) \/ Drains(TakeResult) \/ Drains(PatienceEnds) \/ Drains(NothingDue)

EndsCommandAlways(t) == TRUE

\* A D ends the command if its C was seen, or if this shell never sent one.
EndsCommand(t) == t.cap.started \/ ~t.sawC

\* capture_progress over one piece of output
Captured(ev) ==
    LET t == [term EXCEPT !.active = @ \/ ev.e \in {"C", "D"},
                          !.sawC = @ \/ ev.e = "C"]
        done(c) == [t EXCEPT !.cap = NoCapture, !.done = c]
    IN IF ev.e = "C" /\ t.cap.mode = "osc" THEN [t EXCEPT !.cap.started = TRUE]
       ELSE IF ev.e = "D" /\ t.cap.mode = "osc" /\ EndsCommand(t) THEN done(ev.code)
       ELSE IF ev.e = "M" /\ t.cap.mode = "mark" /\ run # NoRun /\ ev.k = run.id
       THEN done(ev.code)
       ELSE t

\* drain_events: the terminal's output, the end of the shell, the connection.
TakeEvent ==
    /\ phase = "events" /\ out # <<>>
    /\ out' = Tail(out)
    /\ LET ev == Head(out) IN
         CASE ev.e \in {"C", "D", "M"} ->
                /\ term' = Captured(ev)
                /\ known' = IF term'.done # NoCode /\ run # NoRun
                            THEN known \union {run.id} ELSE known
                /\ UNCHANGED <<run, line, fate, told>>
           [] ev.e = "exit" ->
                FinishWithExitCode(ev.code) /\ UNCHANGED <<line, known>>
           [] ev.e = "lost" ->
                CancelRun /\ line' = [line EXCEPT !.connected = FALSE] /\ UNCHANGED known
           [] ev.e = "up" ->
                line' = [line EXCEPT !.connected = TRUE]
                /\ UNCHANGED <<run, term, fate, told, known>>
    /\ UNCHANGED <<phase, todo, shell, used>>

\* ai_shell_idle_for_injection
MayInject ==
    /\ line.connected /\ ~line.typed
    /\ run = NoRun /\ term.cap = NoCapture
    /\ out = <<>>

\* The frame ends, perhaps with the snippet typed into a silent session.
EndFrame ==
    /\ phase = "events" /\ phase' = "calls"
    /\ \/ UNCHANGED <<todo, line>>
       \/ /\ MayInject
          /\ todo' = IF line.open THEN Append(todo, [kind |-> "hook", k |-> 0]) ELSE todo
          /\ line' = [line EXCEPT !.typed = TRUE]
    /\ UNCHANGED <<run, term, shell, out, fate, told, known, used>>

\* reconnect_session: a new worker, a new Terminal, and no run.
Reconnect ==
    /\ phase = "calls" /\ ~line.connected /\ ~shell.alive
    /\ run' = NoRun
    /\ fate' = IF run = NoRun THEN fate ELSE [fate EXCEPT ![run.id] = "replaced"]
    /\ term' = FreshTerm
    /\ shell' = FreshShell(shell.hasC)
    /\ todo' = <<>>
    /\ out' = <<[e |-> "up", k |-> 0, code |-> 0]>>
    /\ line' = [connected |-> FALSE, open |-> TRUE, typed |-> FALSE]
    /\ UNCHANGED <<phase, told, known, used>>

RunsNext ==
    \/ ShellTakes \/ ShellEnds \/ ProgramSwallows \/ InterruptArrives \/ WorkerEnds
    \/ RunCommand \/ PollRun \/ Interrupt \/ SendInput \/ CallerGoes
    \/ DrainRuns \/ TakeEvent \/ EndFrame \/ Reconnect

RunsSpec == RunsInit /\ [][RunsNext]_runsVars

\* arm_timeout_repaint keeps frames coming, so one comes when the deadline of a
\* call or the idle time of a run has passed, and drain_events takes what is
\* there; nothing is asked of callers or of the shell.
RunsFairSpec ==
    /\ RunsSpec
    /\ WF_runsVars(DrainRuns) /\ WF_runsVars(EndFrame) /\ SF_runsVars(TakeEvent)
    /\ SF_runsVars(Drains(PatienceEnds)) /\ SF_runsVars(Drains(Reclaim))

-----------------------------------------------------------------------------
(* Properties                                                               *)

Fates == {"open", "told", "gone", "interrupt", "reclaimed", "offline", "replaced"}

RunType == [id : Runs, waiter : {"none", "live", "closed"}, 
            result : {NoCode} \union Codes, clean : BOOLEAN]

\* The shape of the state; a run that was accepted is the one pending, or its
\* tracking has ended: the gate never lets a second run displace the first.
RunsTypeOK ==
    /\ phase \in {"calls", "events"}
    /\ run = NoRun \/ run \in RunType
    /\ term \in [cap : [mode : {"none", "osc", "mark"}, started : BOOLEAN],
                 done : {NoCode} \union Codes, active : BOOLEAN, sawC : BOOLEAN]
    /\ fate \in [Runs -> Fates]
    /\ known \subseteq Runs
    /\ \A k \in 1..used.runs : (fate[k] = "open") <=> (run.id = k)

\* A caller that waited for the shell to settle before run_command, and typed
\* nothing else since, is told the status of its own command or of the shell's
\* end, never of another line (CaptureMode of terminal/mod.rs): not of a blank
\* line, not of a line that ended late, not of a run it interrupted.
FinishedExact ==
    \A k \in Runs : told[k] \in {NoCode, k, Exit}

\* A code the terminal has found is told, or waits for poll_run, or is lost in
\* one of four ways: the caller had gone, it interrupted, the connection ended
\* before the next frame, or another worker took over.  Reclaiming the gate
\* never throws one away, nor does an expired wait (finished_result).
LossNamed ==
    \A k \in known :
      \/ run # NoRun /\ run.id = k
      \/ fate[k] \in {"told", "gone", "interrupt", "offline", "replaced"}

\* Every call that waits for a run is answered or given up by its caller.
CallAnswered ==
    (run # NoRun /\ run.waiter = "live") ~> (run = NoRun \/ run.waiter # "live")

\* A run nobody polls does not hold the gate for ever: it ends, or its result
\* is there for the next poll_run.
GateFreed == <>[](run = NoRun \/ run.result # NoCode)

-----------------------------------------------------------------------------
(* What comments of the code say and the code does not do *)

\* The result of a command that has ended is kept for poll_run, it is never
\* simply thrown away (the comment in end_pending_ai_run).
ResultKept ==
    \A k \in known : (run # NoRun /\ run.id = k) \/ fate[k] \in {"told", "interrupt"}
=============================================================================
