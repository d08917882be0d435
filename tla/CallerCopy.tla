----------------------------- MODULE CallerCopy -----------------------------
(***************************************************************************)
(* Copies between the machine an AI agent runs on and a remote file, over   *)
(* one connection each: copy_to_remote and copy_from_remote of              *)
(* bin/ishell-mcp.rs (the agent's side), handle_conn of app/mcp_bridge.rs   *)
(* (a task per connection), the pending file operations of a session (one   *)
(* frame of the user interface at a time), and upload_from_mcp and          *)
(* download_to_mcp of ssh/xfer (a task of the session's worker).            *)
(*                                                                         *)
(* All calls are about one remote file; downloads read it while uploads     *)
(* replace it and other programs append to it or truncate it.  A file is an *)
(* object (who wrote it) and a number of blocks.                            *)
(***************************************************************************)
EXTENDS Integers, Sequences

CONSTANTS
    Uploads,     \* the calls of copy_to_remote
    Downloads,   \* the calls of copy_from_remote
    Old,         \* the object the remote name shows first
    None,        \* no object
    Sizes,       \* bound: blocks of the files before the calls
    MaxLen,      \* bound: blocks of a file at any time
    MaxOdd       \* bound: failed requests, edits by other programs, killed agents,
                 \* cancels, lost sessions, early timeouts, and permits and
                 \* slots that calls not modelled here hold, all together

Calls == Uploads \cup Downloads
Objects == {Old} \cup Uploads

ASSUME CallerAssumption ==
    /\ Uploads \cap Downloads = {} /\ Old \notin Calls
    /\ None \notin Calls \cup {Old} \cup 0..MaxLen
    /\ MaxLen \in Nat \ {0} /\ Sizes \subseteq 1..MaxLen
    /\ MaxOdd \in Nat

VARIABLES
    agent,   \* per call: where the agent stands, the size announced, blocks moved
    local,   \* per call: the file at local_path
    sock,    \* per call: the socket between the agent and iShell
    conn,    \* per call: the task handle_conn
    op,      \* per call: its way through the user interface
    reply,   \* per call: resp_tx
    task,    \* per call: the worker's task
    pipe,    \* per download: DownloadStreamSource and its way there
    dir,     \* the remote names: the target, and per upload tmp and bak
    len,     \* the blocks of each remote object
    ui,      \* the session: connected as shown, the link as it is, events
    hist,    \* history, not in the code
    odd      \* how much of MaxOdd is spent

vars == <<agent, local, sock, conn, op, reply, task, pipe, dir, len, ui, hist, odd>>
theServer == <<dir, len>>
theShell == <<conn, op, reply, task, pipe, ui>>

Init ==
    /\ agent = [c \in Calls |-> [pc |-> "idle", size |-> 0, n |-> 0]]
    /\ local \in {f \in [Calls -> [obj : {None}, len : {0} \cup Sizes]] :
                    \A c \in Calls : f[c].len = 0 <=> c \in Downloads}
    /\ sock = [c \in Calls |-> [in |-> 0, eof |-> FALSE, out |-> <<>>, closed |-> FALSE]]
    /\ conn = [c \in Calls |-> "none"]
    /\ op = [c \in Calls |-> "none"]
    /\ reply = [c \in Calls |-> "none"]
    /\ task = [c \in Calls |-> [pc |-> "none", n |-> 0, size |-> 0, obj |-> None, backed |-> FALSE]]
    /\ pipe = [c \in Downloads |-> [sink |-> "none", n |-> 0, eof |-> FALSE, outcome |-> "none"]]
    /\ \E replaces \in BOOLEAN, there \in {Old, None} :
         dir = [file |-> there, replaces |-> replaces,
                tmp |-> [c \in Uploads |-> None], bak |-> [c \in Uploads |-> None]]
    /\ len \in {f \in [Objects -> {0} \cup Sizes] : \A o \in Objects : f[o] = 0 <=> o # dir.file}
    /\ ui = [connected |-> TRUE, link |-> TRUE, evts |-> <<>>]
    /\ hist = [first |-> dir.file, put |-> [c \in Uploads |-> None], seen |-> {},
               gaveUp |-> {}, refused |-> {}]
    /\ odd = 0

Odd == odd < MaxOdd /\ odd' = odd + 1
Ended == {"ok", "err", "unheard", "killed"}

\* What the remote name shows: an object and its blocks.
Shown == IF dir.file = None THEN {} ELSE {<<dir.file, len[dir.file]>>}

\* The history of what a download under way may bring home.
Watched == \E c \in Downloads : agent[c].pc \notin Ended \cup {"idle"}
Seen(o, n) == IF Watched THEN hist.seen \cup {<<o, n>>} ELSE hist.seen

-----------------------------------------------------------------------------
(* The socket                                                               *)

Msg(kind) == [kind |-> kind, size |-> 0]
Header(size) == [kind |-> "header", size |-> size]
Say(s, msg) == [s EXCEPT !.out = Append(@, msg)]

\* iShell closes its end: a reset, because bytes of the agent were not read,
\* may take what the agent has not yet read.
Closed(s) ==
    {[s EXCEPT !.closed = TRUE]}
      \cup (IF s.in > 0 THEN {[s EXCEPT !.closed = TRUE, !.out = <<>>]} ELSE {})

\* The agent is done with the connection and drops it.
AgentEnds(c, how) ==
    /\ agent' = [agent EXCEPT ![c].pc = how]
    /\ sock' = [sock EXCEPT ![c].eof = TRUE, ![c].out = <<>>]

-----------------------------------------------------------------------------
(* The agent                                                                *)

\* connect_bound, the ticket and the request in two lines; an upload announces
\* the size of its file.
Ask(c) ==
    /\ agent[c].pc = "idle"
    /\ agent' = [agent EXCEPT ![c] =
                   [pc |-> IF c \in Uploads THEN "send" ELSE "head",
                    size |-> IF c \in Uploads THEN local[c].len ELSE 0, n |-> 0]]
    /\ hist' = IF c \in Downloads THEN [hist EXCEPT !.seen = @ \cup Shown] ELSE hist
    /\ UNCHANGED <<local, sock, theShell, theServer, odd>>

\* copy_to_remote: the body goes out while the answer is awaited.
SendBody(c) ==
    /\ c \in Uploads /\ agent[c].pc = "send" /\ ~sock[c].closed
    /\ IF agent[c].n < local[c].len
       THEN /\ sock[c].in = 0
            /\ sock' = [sock EXCEPT ![c].in = 1]
            /\ agent' = [agent EXCEPT ![c].n = @ + 1]
       ELSE /\ sock' = [sock EXCEPT ![c].eof = TRUE]
            /\ agent' = [agent EXCEPT ![c].pc = "wait"]
    /\ UNCHANGED <<local, theShell, theServer, hist, odd>>

\* The answer of an upload; or the connection ends without one, which a failed
\* write notices too after it has looked for a late answer.
HearUpload(c) ==
    /\ c \in Uploads /\ agent[c].pc \in {"send", "wait"}
    /\ \/ sock[c].out # <<>> /\ AgentEnds(c, Head(sock[c].out).kind)
       \/ sock[c].out = <<>> /\ sock[c].closed /\ AgentEnds(c, "unheard")
    /\ UNCHANGED <<local, theShell, theServer, hist, odd>>

InstallsUnchecked(c, msg) == msg.kind \in {"ok", "err"}

\* What iShell sent is moved into place only on the verdict that it is whole.
Installs(c, msg) == msg.kind = "ok" /\ agent[c].n = agent[c].size

\* copy_from_remote: header, blocks into a temporary file, the verdict (its place
\* is known by the frame that ends the stream), rename.
HearDownload(c) ==
    /\ c \in Downloads /\ sock[c].out # <<>>
    /\ LET msg == Head(sock[c].out)
           a == agent[c]
           hears(now) == /\ agent' = [agent EXCEPT ![c] = now]
                         /\ sock' = [sock EXCEPT ![c].out = Tail(@)]
                         /\ UNCHANGED local IN
       \/ /\ a.pc = "head" /\ msg.kind = "header"
          /\ hears([a EXCEPT !.pc = "recv", !.size = msg.size])
       \/ /\ a.pc = "head" /\ msg.kind = "err"
          /\ AgentEnds(c, "err") /\ UNCHANGED local
       \/ /\ a.pc = "recv" /\ msg.kind = "block"
          /\ hears([a EXCEPT !.n = @ + 1])
       \/ /\ a.pc = "recv" /\ msg.kind \in {"ok", "err"} /\ Installs(c, msg)
          /\ local' = [local EXCEPT ![c] = [obj |-> task[c].obj, len |-> a.n]]
          /\ AgentEnds(c, "ok")
       \/ /\ a.pc = "recv" /\ msg.kind \in {"ok", "err"} /\ ~Installs(c, msg)
          /\ AgentEnds(c, "err") /\ UNCHANGED local
    /\ UNCHANGED <<theShell, theServer, hist, odd>>

\* The connection ends before the header, or in the middle of the stream.
HearEnd(c) ==
    /\ c \in Downloads /\ agent[c].pc \in {"head", "recv"}
    /\ sock[c].out = <<>> /\ sock[c].closed
    /\ AgentEnds(c, IF agent[c].pc = "head" THEN "unheard" ELSE "err")
    /\ UNCHANGED <<local, theShell, theServer, hist, odd>>

Kill(c) ==
    /\ Odd
    /\ agent[c].pc \notin Ended \cup {"idle"}
    /\ AgentEnds(c, "killed")
    /\ UNCHANGED <<local, theShell, theServer, hist>>

\* Another program changes the local file while it is sent.
EditLocal(c) ==
    /\ Odd /\ agent[c].pc = "send"
    /\ \E n \in {local[c].len - 1, local[c].len + 1} \cap 0..MaxLen :
         local' = [local EXCEPT ![c].len = n]
    /\ UNCHANGED <<agent, sock, theShell, theServer, hist>>

-----------------------------------------------------------------------------
(* handle_conn: one task per connection                                     *)

\* Closed drops what iShell had of the pipe: the worker's next write fails.
Close(c) ==
    /\ conn' = [conn EXCEPT ![c] = "closed"]
    /\ \E s \in Closed(sock[c]) : sock' = [sock EXCEPT ![c] = s]

ReplyThenClose(c, kind) ==
    /\ conn' = [conn EXCEPT ![c] = "closed"]
    /\ \E s \in Closed(Say(sock[c], Msg(kind))) : sock' = [sock EXCEPT ![c] = s]

\* The listener drops a connection when no permit of MAX_MCP_HANDSHAKES is left.
Accept(c) ==
    /\ conn[c] = "none" /\ agent[c].pc # "idle"
    /\ \/ /\ conn' = [conn EXCEPT ![c] = "read"]
          /\ UNCHANGED <<sock, hist, odd>>
       \/ /\ Odd
          /\ conn' = [conn EXCEPT ![c] = "closed"]
          /\ sock' = [sock EXCEPT ![c].closed = TRUE]
          /\ hist' = [hist EXCEPT !.refused = @ \cup {c}]
    /\ UNCHANGED <<agent, local, op, reply, task, pipe, theServer, ui>>

\* The request is read: the handshake permit is exchanged for a work permit of
\* MAX_MCP_CONNECTIONS, or the call is refused; an upload keeps its handshake
\* permit while the rest is drained.
ReadRequest(c) ==
    /\ conn[c] = "read"
    /\ \/ /\ conn' = [conn EXCEPT ![c] = "ask"]
          /\ op' = [op EXCEPT ![c] = "posted"]
          /\ UNCHANGED <<sock, odd>>
       \/ /\ Odd /\ c \in Uploads
          /\ conn' = [conn EXCEPT ![c] = "refused"]
          /\ sock' = [sock EXCEPT ![c] = Say(@, Msg("err"))]
          /\ UNCHANGED op
       \/ /\ Odd /\ c \in Downloads
          /\ ReplyThenClose(c, "err")
          /\ UNCHANGED op
    /\ UNCHANGED <<agent, local, reply, task, pipe, theServer, ui, hist>>

\* The source is dropped with the call, or when upload_from_mcp returns.
SourceHeld(c) == op[c] = "posted" \/ task[c].pc \notin {"none", "done"}

DrainsAtOnce(c) == conn[c] \in {"refused", "drain"}

\* What is left of the body is read only when nobody else reads it.
MayDrain(c) == conn[c] = "refused" \/ (conn[c] = "drain" /\ ~SourceHeld(c))

AnswerAndClose(c) == ReplyThenClose(c, reply[c])

\* The answer of an upload: after an error the body is drained before the end.
AnswerUpload(c) ==
    IF reply[c] = "ok" THEN ReplyThenClose(c, "ok")
    ELSE /\ sock' = [sock EXCEPT ![c] = Say(@, Msg("err"))]
         /\ conn' = [conn EXCEPT ![c] = "drain"]

HearReply(c) ==
    /\ c \in Uploads /\ conn[c] = "ask" /\ reply[c] # "none"
    /\ AnswerUpload(c)
    /\ UNCHANGED <<agent, local, op, reply, task, pipe, theServer, ui, hist, odd>>

Drain(c) ==
    /\ MayDrain(c)
    /\ \/ /\ sock[c].in > 0
          /\ sock' = [sock EXCEPT ![c].in = 0]
          /\ UNCHANGED conn
       \/ /\ sock[c].in = 0 /\ sock[c].eof
          /\ Close(c)
    /\ UNCHANGED <<agent, local, op, reply, task, pipe, theServer, ui, hist, odd>>

\* 60 seconds for the wait and the draining together.
DrainGivesUp(c) ==
    /\ conn[c] \in {"refused", "drain"}
    /\ Close(c)
    /\ hist' = [hist EXCEPT !.gaveUp = @ \cup {c}]
    /\ UNCHANGED <<agent, local, op, reply, task, pipe, theServer, ui, odd>>

\* The worker's answer to the probe is passed on: an error, or the header.
HearSink(c) ==
    /\ c \in Downloads /\ conn[c] = "ask" /\ pipe[c].sink # "none"
    /\ IF pipe[c].sink = "err" THEN ReplyThenClose(c, "err")
       ELSE IF sock[c].eof THEN Close(c)
       ELSE /\ sock' = [sock EXCEPT ![c] = Say(@, Header(task[c].size))]
            /\ conn' = [conn EXCEPT ![c] = "stream"]
    /\ UNCHANGED <<agent, local, op, reply, task, pipe, theServer, ui, hist, odd>>

\* write_framed_stream; a write towards an agent that is gone ends the task.
Relay(c) ==
    /\ c \in Downloads /\ conn[c] = "stream"
    /\ pipe[c].n > 0 \/ pipe[c].eof
    /\ IF sock[c].eof THEN Close(c) /\ UNCHANGED pipe
       ELSE IF pipe[c].n > 0
       THEN /\ sock[c].out = <<>>
            /\ sock' = [sock EXCEPT ![c] = Say(@, Msg("block"))]
            /\ pipe' = [pipe EXCEPT ![c].n = 0]
            /\ UNCHANGED conn
       ELSE /\ conn' = [conn EXCEPT ![c] = "verdict"]
            /\ UNCHANGED <<sock, pipe>>
    /\ UNCHANGED <<agent, local, op, reply, task, theServer, ui, hist, odd>>

\* The outcome the worker told, or an error when it is gone or late.
Verdict(c) ==
    /\ c \in Downloads /\ conn[c] = "verdict" /\ sock[c].out = <<>>
    /\ \/ /\ pipe[c].outcome # "none"
          /\ ReplyThenClose(c, IF pipe[c].outcome = "ok" THEN "ok" ELSE "err")
          /\ UNCHANGED odd
       \/ /\ pipe[c].outcome = "none" /\ Odd   \* VERDICT_TIMEOUT
          /\ ReplyThenClose(c, "err")
    /\ UNCHANGED <<agent, local, op, reply, task, pipe, theServer, ui, hist>>

-----------------------------------------------------------------------------
(* The session in the user interface                                        *)

Refuse(c) ==
    /\ op' = [op EXCEPT ![c] = "over"]
    /\ IF c \in Uploads
       THEN reply' = [reply EXCEPT ![c] = "err"] /\ UNCHANGED pipe
       ELSE pipe' = [pipe EXCEPT ![c].sink = "err"] /\ UNCHANGED reply

\* CopyToRemoteFromCaller and CopyFromRemoteToCaller: a command to the worker
\* and a pending operation. The command may go to a worker that has just ended.
Handle(c) ==
    /\ op[c] = "posted"
    /\ \/ /\ \/ ~ui.link /\ UNCHANGED odd
             \/ Odd   \* MAX_CONCURRENT_FILE_OPS
          /\ Refuse(c) /\ UNCHANGED task
       \/ /\ ui.connected /\ ui.link /\ UNCHANGED odd
          /\ op' = [op EXCEPT ![c] = "pending"]
          /\ task' = [task EXCEPT ![c].pc = "cmd", ![c].size = IF c \in Uploads THEN agent[c].size ELSE 0]
          /\ UNCHANGED <<reply, pipe>>
       \/ /\ ui.connected /\ ~ui.link /\ UNCHANGED odd
          /\ op' = [op EXCEPT ![c] = "pending"]
          /\ pipe' = IF c \in Downloads THEN [pipe EXCEPT ![c].sink = "err"] ELSE pipe
          /\ UNCHANGED <<reply, task>>
    /\ UNCHANGED <<agent, local, sock, conn, theServer, ui, hist>>

\* Pending operations that end, an upload with this answer.
Resolve(ended, answer) ==
    /\ op' = [c \in Calls |-> IF c \in ended THEN "over" ELSE op[c]]
    /\ reply' = [c \in Calls |-> IF c \in ended \cap Uploads THEN answer ELSE reply[c]]

Pending == {c \in Calls : op[c] = "pending"}

\* TransferDone and Disconnected. A late TransferDone finds no operation.
DrainEvt ==
    /\ ui.evts # <<>>
    /\ LET e == Head(ui.evts) IN
       IF e.what = "done"
       THEN /\ Resolve({e.call} \cap Pending, IF e.ok THEN "ok" ELSE "err")
            /\ ui' = [ui EXCEPT !.evts = Tail(@)]
       ELSE /\ Resolve(Pending, "err")
            /\ ui' = [ui EXCEPT !.evts = Tail(@), !.connected = FALSE]
    /\ UNCHANGED <<agent, local, sock, conn, task, pipe, theServer, hist, odd>>

TimeoutOfWaiters(c) ==
    /\ c \in Uploads /\ op[c] = "pending" /\ ui.evts = <<>>
    /\ Odd \/ (task[c].pc \in {"none", "done"} /\ UNCHANGED odd)
    /\ Resolve({c}, "err")
    /\ UNCHANGED <<agent, local, sock, conn, task, pipe, theServer, ui, hist>>

\* check_file_op_timeouts, after the events of the frame: early, while the
\* worker goes on with it, or at last, when nothing else ends the operation.
FileOpTimeout(c) ==
    /\ op[c] = "pending" /\ ui.evts = <<>>
    /\ Odd \/ (task[c].pc \in {"none", "done"} /\ UNCHANGED odd)
    /\ Resolve({c}, "err")
    /\ UNCHANGED <<agent, local, sock, conn, task, pipe, theServer, ui, hist>>

Lose ==
    /\ Odd /\ ui.link
    /\ ui' = [ui EXCEPT !.link = FALSE,
                        !.evts = Append(@, [what |-> "lost", call |-> None, ok |-> FALSE])]
    /\ UNCHANGED <<agent, local, sock, conn, op, reply, task, pipe, theServer, hist>>

-----------------------------------------------------------------------------
(* The worker: upload_from_mcp                                              *)

At(c, pc) == task[c].pc = pc
Goes(c, pc) == task' = [task EXCEPT ![c].pc = pc]

\* A request to the server can succeed while the session is up; it can fail
\* once the session is lost, or for another reason, counted in odd.
Works == ui.link /\ UNCHANGED odd
Fails == \/ ~ui.link /\ UNCHANGED odd
         \/ Odd

\* The task is over; what it read matters no more.
Tells(c, ok) ==
    /\ task' = [task EXCEPT ![c] = [@ EXCEPT !.pc = "done", !.n = 0, !.backed = FALSE]]
    /\ ui' = [ui EXCEPT !.evts = Append(@, [what |-> "done", call |-> c, ok |-> ok])]

UOpen(c) ==
    /\ c \in Uploads /\ At(c, "cmd")
    /\ \/ /\ Works
          /\ dir' = [dir EXCEPT !.tmp[c] = c]
          /\ Goes(c, "read")
       \/ /\ Fails
          /\ Goes(c, "remove") /\ UNCHANGED dir
    /\ UNCHANGED <<agent, local, sock, conn, op, reply, pipe, len, ui, hist>>

\* As many blocks as were announced, then one byte more must be the end.
URead(c) ==
    /\ c \in Uploads /\ At(c, "read")
    /\ \/ /\ task[c].n < task[c].size /\ sock[c].in > 0 /\ Works
          /\ sock' = [sock EXCEPT ![c].in = 0]
          /\ task' = [task EXCEPT ![c].n = @ + 1]
          /\ len' = [len EXCEPT ![c] = @ + 1]
       \/ /\ task[c].n < task[c].size /\ sock[c].in > 0 /\ Fails
          /\ sock' = [sock EXCEPT ![c].in = 0]
          /\ Goes(c, "remove") /\ UNCHANGED len
       \/ /\ task[c].n = task[c].size /\ sock[c].in > 0
          /\ sock' = [sock EXCEPT ![c].in = 0]
          /\ Goes(c, "remove") /\ UNCHANGED <<len, odd>>
       \/ /\ sock[c].in = 0 /\ sock[c].eof
          /\ Goes(c, IF task[c].n = task[c].size THEN "close" ELSE "remove")
          /\ UNCHANGED <<sock, len, odd>>
       \/ /\ sock[c].in = 0 /\ Fails   \* MCP_SOURCE_READ_IDLE
          /\ Goes(c, "remove") /\ UNCHANGED <<sock, len>>
    /\ UNCHANGED <<agent, local, conn, op, reply, pipe, dir, ui, hist>>

UnverifiedPasses(c, n) == TRUE
Verified(c, n) == n = task[c].size

\* flush and shutdown, and the length asked for: the server may have dropped
\* the tail.
UVerify(c) ==
    /\ c \in Uploads /\ At(c, "close")
    /\ \/ /\ Works
          /\ Goes(c, IF Verified(c, len[c]) THEN "backup" ELSE "remove")
          /\ UNCHANGED len
       \/ /\ Odd /\ ui.link /\ len[c] > 0
          /\ len' = [len EXCEPT ![c] = @ - 1]
          /\ Goes(c, IF Verified(c, len'[c]) THEN "backup" ELSE "remove")
       \/ Fails /\ Goes(c, "remove") /\ UNCHANGED len
    /\ UNCHANGED <<agent, local, sock, conn, op, reply, pipe, dir, ui, hist>>

\* A rename to a free name; it may take effect and its answer be lost.
UBackup(c) ==
    /\ c \in Uploads /\ At(c, "backup")
    /\ LET moved == [dir EXCEPT !.file = None, !.bak[c] = dir.file] IN
       \/ /\ Works /\ dir.file = None
          /\ Goes(c, "swap") /\ UNCHANGED dir
       \/ /\ Works /\ dir.file # None
          /\ dir' = moved
          /\ task' = [task EXCEPT ![c].pc = "swap", ![c].backed = TRUE]
       \/ /\ Fails /\ Goes(c, "remove")
          /\ dir' \in {dir, IF dir.file = None THEN dir ELSE moved}
    /\ UNCHANGED <<agent, local, sock, conn, op, reply, pipe, len, ui, hist>>

CanRename == dir.file = None \/ dir.replaces

SwapFails(c) == IF task[c].backed THEN "restore" ELSE "remove"

Swapped(c) ==
    /\ dir' = [dir EXCEPT !.file = c, !.tmp[c] = None]
    /\ hist' = [hist EXCEPT !.put[c] = len[c], !.seen = Seen(c, len[c])]

USwap(c) ==
    /\ c \in Uploads /\ At(c, "swap")
    /\ \/ /\ Works /\ CanRename
          /\ Swapped(c)
          /\ IF task[c].backed THEN Goes(c, "clean") /\ UNCHANGED ui ELSE Tells(c, TRUE)
       \/ /\ Fails /\ CanRename
          /\ Swapped(c)
          /\ Goes(c, SwapFails(c)) /\ UNCHANGED ui
       \/ /\ (Fails \/ (Works /\ ~CanRename))
          /\ Goes(c, SwapFails(c)) /\ UNCHANGED <<dir, hist, ui>>
    /\ UNCHANGED <<agent, local, sock, conn, op, reply, pipe, len>>


URestore(c) ==
    /\ c \in Uploads /\ At(c, "restore")
    /\ \/ /\ Works /\ CanRename
          /\ dir' = [dir EXCEPT !.file = dir.bak[c], !.bak[c] = None]
          /\ hist' = [hist EXCEPT !.seen = Seen(dir.bak[c], len[dir.bak[c]])]
       \/ /\ (Fails \/ (Works /\ ~CanRename))
          /\ UNCHANGED <<dir, hist>>
    /\ Goes(c, "remove")
    /\ UNCHANGED <<agent, local, sock, conn, op, reply, pipe, len, ui>>

\* The backup is removed, or stays: the call succeeded anyway.
UClean(c) ==
    /\ c \in Uploads /\ At(c, "clean")
    /\ \/ Works /\ dir' = [dir EXCEPT !.bak[c] = None]
       \/ Fails /\ UNCHANGED dir
    /\ Tells(c, TRUE)
    /\ UNCHANGED <<agent, local, sock, conn, op, reply, pipe, len, hist>>

\* A failed upload removes its temporary file as well as it can.
URemove(c) ==
    /\ c \in Uploads /\ At(c, "remove")
    /\ \/ Works /\ dir' = [dir EXCEPT !.tmp[c] = None]
       \/ Fails /\ UNCHANGED dir
    /\ Tells(c, FALSE)
    /\ len' = IF c \in {dir'.file} \cup {dir'.bak[u] : u \in Uploads}
                        \cup {task[d].obj : d \in Downloads}
              THEN len ELSE [len EXCEPT ![c] = 0]
    /\ UNCHANGED <<agent, local, sock, conn, op, reply, pipe, hist>>

-----------------------------------------------------------------------------
(* The worker: download_to_mcp                                              *)

\* The size is that of the file before the transfer. A failed probe answers
\* the call and returns: no TransferDone.
DProbe(c) ==
    /\ c \in Downloads /\ At(c, "cmd")
    /\ \/ /\ Works /\ dir.file # None
          /\ task' = [task EXCEPT ![c].pc = "open", ![c].size = len[dir.file]]
          /\ pipe' = [pipe EXCEPT ![c].sink = "source"]
       \/ /\ Fails \/ (Works /\ dir.file = None)
          /\ Goes(c, "done")
          /\ pipe' = [pipe EXCEPT ![c].sink = "err"]
    /\ UNCHANGED <<agent, local, sock, conn, op, reply, theServer, ui, hist>>

\* A failure of any step after the probe.
DFail(c) ==
    /\ Tells(c, FALSE)
    /\ pipe' = [pipe EXCEPT ![c].outcome = "err", ![c].eof = TRUE]

DOpen(c) ==
    /\ c \in Downloads /\ At(c, "open")
    /\ \/ /\ Works /\ dir.file # None
          /\ task' = [task EXCEPT ![c].pc = "read", ![c].obj = dir.file]
          /\ UNCHANGED <<pipe, ui>>
       \/ (Fails \/ (Works /\ dir.file = None)) /\ DFail(c)
    /\ UNCHANGED <<agent, local, sock, conn, op, reply, theServer, hist>>

Truncated(c) == len[task[c].obj] <= task[c].n
ReaderGone(c) == conn[c] = "closed"

\* Exactly as many blocks as announced go into the pipe.
DRead(c) ==
    /\ c \in Downloads /\ At(c, "read") /\ task[c].n < task[c].size
    /\ \/ /\ Works /\ ~Truncated(c) /\ ~ReaderGone(c) /\ pipe[c].n = 0
          /\ task' = [task EXCEPT ![c].n = @ + 1]
          /\ pipe' = [pipe EXCEPT ![c].n = 1]
          /\ UNCHANGED ui
       \/ (Fails \/ (Works /\ (Truncated(c) \/ ReaderGone(c)))) /\ DFail(c)
    /\ UNCHANGED <<agent, local, sock, conn, op, reply, theServer, hist>>

Grown(c) == len[task[c].obj] > task[c].size

\* One byte more must be the end; then the pipe is closed.
DExtra(c) ==
    /\ c \in Downloads /\ At(c, "read") /\ task[c].n = task[c].size
    /\ \/ /\ Works /\ ~Grown(c) /\ ~ReaderGone(c)
          /\ pipe' = [pipe EXCEPT ![c].eof = TRUE]
          /\ Goes(c, "tell") /\ UNCHANGED ui
       \/ (Fails \/ (Works /\ (Grown(c) \/ ReaderGone(c)))) /\ DFail(c)
    /\ UNCHANGED <<agent, local, sock, conn, op, reply, theServer, hist>>

DTell(c) ==
    /\ c \in Downloads /\ At(c, "tell")
    /\ Tells(c, TRUE)
    /\ pipe' = [pipe EXCEPT ![c].outcome = "ok"]
    /\ UNCHANGED <<agent, local, sock, conn, op, reply, theServer, hist, odd>>

SilentEnd(c) == Goes(c, "done") /\ UNCHANGED ui
CanceledEnd(c) == Tells(c, FALSE)

\* The user stops the row of the call: the task is dropped where it is.
Cancel(c) ==
    /\ task[c].pc \notin {"none", "cmd", "done"} /\ Odd
    /\ CanceledEnd(c)
    /\ pipe' = IF c \in Uploads THEN pipe
               ELSE [pipe EXCEPT ![c].eof = TRUE, ![c].outcome = "lost"]
    /\ UNCHANGED <<agent, local, sock, conn, op, reply, theServer, hist>>

\* Another program appends a block to the remote file or cuts one off.
EditRemote ==
    /\ Odd /\ dir.file # None
    /\ \E n \in {len[dir.file] - 1, len[dir.file] + 1} \cap 0..MaxLen :
         /\ len' = [len EXCEPT ![dir.file] = n]
         /\ hist' = [hist EXCEPT !.seen = Seen(dir.file, n)]
    /\ UNCHANGED <<agent, local, sock, theShell, dir>>

-----------------------------------------------------------------------------
Agent(c) == Ask(c) \/ SendBody(c) \/ HearUpload(c) \/ HearDownload(c) \/ HearEnd(c)
Conn(c) == Accept(c) \/ ReadRequest(c) \/ HearReply(c) \/ Drain(c) \/ DrainGivesUp(c)
             \/ HearSink(c) \/ Relay(c) \/ Verdict(c)
Task(c) == \/ UOpen(c) \/ URead(c) \/ UVerify(c) \/ UBackup(c)
           \/ USwap(c) \/ URestore(c) \/ UClean(c) \/ URemove(c)
           \/ DProbe(c) \/ DOpen(c) \/ DRead(c) \/ DExtra(c) \/ DTell(c)
UI(c) == Handle(c) \/ FileOpTimeout(c)

Next ==
    \/ \E c \in Calls : Agent(c) \/ Conn(c) \/ Task(c) \/ UI(c) \/ Kill(c) \/ Cancel(c)
    \/ \E c \in Uploads : EditLocal(c)
    \/ DrainEvt \/ Lose \/ EditRemote

Spec == Init /\ [][Next]_vars

\* Each process keeps running; an agent may ask, or never.
FairSpec ==
    /\ Spec
    /\ WF_vars(DrainEvt)
    /\ \A c \in Calls : /\ WF_vars(agent[c].pc # "idle" /\ Agent(c))
                        /\ WF_vars(Conn(c)) /\ WF_vars(Task(c)) /\ WF_vars(UI(c))

-----------------------------------------------------------------------------
(* Properties                                                               *)

TypeOK ==
    /\ \A c \in Calls :
         /\ agent[c].pc \in {"idle", "send", "wait", "head", "recv"} \cup Ended
         /\ agent[c].size \in 0..MaxLen /\ agent[c].n \in 0..MaxLen
         /\ local[c].obj \in Objects \cup {None} /\ local[c].len \in 0..MaxLen
         /\ sock[c].in \in 0..1 /\ Len(sock[c].out) <= 1
         /\ conn[c] \in {"none", "read", "refused", "ask", "drain", "stream", "verdict", "closed"}
         /\ op[c] \in {"none", "posted", "pending", "over"}
         /\ reply[c] \in {"none", "ok", "err"}
         /\ task[c].n \in 0..MaxLen /\ task[c].size \in 0..MaxLen
    /\ len \in [Objects -> 0..MaxLen]

\* The remote file is replaced whole or kept. What an upload puts in its place
\* is as long as the agent announced, though the source changes or the server
\* drops the tail; an agent that hears "ok" has its file there; and the file
\* there before is under its name or a backup as long as none was put in its
\* place, whatever fails, is cancelled or loses its answer (upload_from_mcp).
WholeOrKept ==
    /\ \A c \in Uploads :
         /\ hist.put[c] \in {None, agent[c].size}
         /\ agent[c].pc = "ok" => hist.put[c] # None
    /\ hist.first = Old =>
         \/ Old \in {dir.file} \cup {dir.bak[c] : c \in Uploads}
         \/ \E c \in Uploads : hist.put[c] # None

\* What copy_from_remote moved over a local file is a version the remote name
\* showed during the call: the outcome told after the stream rules out files
\* that were replaced, truncated or appended to on the way.
LocalWhole ==
    \A c \in Downloads : local[c].obj # None => <<local[c].obj, local[c].len>> \in hist.seen

\* While the worker may still read the body of an upload nobody else does:
\* every block the agent sent was taken by the worker or is in the socket.
\* An operation that timed out is answered while its upload goes on.
OneReader ==
    \A c \in Uploads : task[c].pc = "read" => agent[c].n = task[c].n + sock[c].in

\* An agent gets no answer only if its connection was refused at the door or
\* the draining of its body took more than 60 seconds: the error is not lost to
\* the reset a connection closed with unread bytes sends.
AnswerHeard ==
    \A c \in Calls : agent[c].pc = "unheard" => c \in hist.refused \cup hist.gaveUp

\* A slot among a session's pending operations is in use for a reason: its
\* transfer goes on, or its end is queued, or the loss of the session is. The
\* exception is a download whose probe failed, which sends no TransferDone.
SlotsExplained ==
    \A c \in Pending :
        \/ task[c].pc \notin {"none", "done"}
        \/ \E i \in 1..Len(ui.evts) : ui.evts[i].call = c \/ ui.evts[i].what = "lost"
        \/ c \in Downloads /\ pipe[c].sink = "err"

\* Every call ends: the agent gets an answer or the end of the connection, the
\* permit of the connection is given back and the slot of the session too,
\* whatever is lost, killed or cancelled on the way.
CallEnds ==
    \A c \in Calls :
        agent[c].pc # "idle" ~> /\ agent[c].pc \in Ended
                                /\ conn[c] = "closed" /\ op[c] \in {"none", "over"}

=============================================================================
