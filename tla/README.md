# iShell: a TLA+ verification project

iShell is an SSH terminal written in Rust: an immediate-mode user interface,
one worker per session on a tokio runtime, an SFTP file manager with resumable
transfers, and a local endpoint through which programs drive a session (MCP).
This directory holds TLA+ modules translated from its source, the TLC
configurations that check them on small instances, and proofs that TLAPS checks
for every value of the constants. `PROJECT.json` maps every definition to the
lines it models. Paths below are relative to the repository; a number in
parentheses after one is a line of it.

    tlc -workers 2 -config MCXferSession.cfg MCXferSession
    tlc -workers 2 -config MCCrossCopy.cfg MCCrossCopy
    tlapm XferSessionProofs.tla
    tlapm EditorSaveProofs.tla

## 1. The system

### How the parts interact

- The UI thread owns every `Session` (`src/app`). It draws frames; in each it
  drains the `WorkerEvent` channel of every session (`drain_events`), handles
  clicks, and sends `UiCommand`s. Nothing on it may block.
- A session's worker (`src/ssh/mod.rs`, `run`) is one tokio task: connect, open
  a shell, then a `select!` over terminal data, commands and `xfer_done`. It
  spawns a task per transfer and per file operation.
- Commands travel on an unbounded channel, events on a bounded one (512,
  `UiSink`): a worker or a task waits when the UI is slow. A reconnection drops
  both channels and starts a new worker under the same session.
- Transfer tasks talk SFTP to a server. Any request may fail, time out with its
  effect done, or be dropped with its future at an `await`.
- The MCP bridge runs inside the frame and drives sessions by the same
  commands; it keeps its own jobs, deadlines and tombstones.

### Inventory

| Component | State | Operations | What is hard | What makes it correct |
|---|---|---|---|---|
| Rows and scheduler of a session (`app/file_actions.rs`, `app/windows/transfer.rs`, `app/session_events.rs`, `ssh/mod.rs`, `ssh/xfer/mod.rs`) | rows `transfers`, `next_xfer`; `active_xfer`, `pending_xfer`, `xfer_cancels`, `xfer_done` | start, restart, resume, cancel, remove; start or queue, refill, report | a click acts on a row the worker has already gone past; a row settles before its slot is free; ids are reused | slots are neither leaked nor given back twice; one attempt per transfer; a row in progress will settle |
| Connection and reconnection (`app/session.rs`, `app/session_events.rs`, `app/frame.rs`) | `connected`, `was_connected`, `shell_exited`, `reconnect_at`, `reconnect_tries` | connect, lose, exit, backoff try, manual try | undrained events are lost with the channel; old tasks run on | tries are bounded; a drop is followed by a connection or the last try; interrupted rows are resent |
| Upload of a file (`ssh/xfer/upload.rs`) | part, backup and target on the server; attempt, pins, position | probe, write, verify, back up, swap, restore, clean up | every request may fail with its effect done; drop between two renames; two uploads share a part | the old file is never lost; what is swapped in is complete; it ends |
| Download of a file or directory (`ssh/xfer/download.rs`, `download_io.rs`) | data file, chunk bitmap, sidecar with size and mtime | plan, fetch chunks in parallel, mark, finish, resume | crash between data, bitmap and sidecar; the remote file changes | a file reported complete has every chunk of one version |
| Copy between sessions with a temporary key (`app/mcp_bridge.rs`, `ssh/xfer/direct.rs`) | job phase, key receipt | trust, copy, untrust, relay as fallback | timeouts, disconnection, receipts that come after the job is gone | a temporary key is revoked or its residue is reported |
| Relay, cut and paste (`app/transfers_relay.rs`, `transfers_clipboard.rs`, `transfers_direct.rs`) | relay jobs, placeholder rows, temporary file | download, upload, delete the source | waits for rows of two sessions; source deleted only after the copy | the source is deleted only when the copy is complete; a relay ends |
| Saving an edited file (`ssh/sftp_write.rs`, `app/editor_close.rs`, `frame_editor.rs`) | part, backup, target; editor dirty and saving | save, fall back in place, detect an external change, close | save under way while closing; fallback truncates in place | a failed save leaves the old text somewhere; closing loses nothing unasked |
| MCP runs (`app/mcp_bridge.rs`, `terminal/feed.rs`) | pending run of each session, capture of the terminal | run, poll, interrupt, type, reclaim | marks of several lines in one stream; a result beside a deadline or a lost connection | a caller hears the code of its own command; the gate is freed |
| MCP file operations (`app/mcp_bridge.rs`, `bin/ishell-mcp.rs`, `ssh/xfer`) | pending operations, tombstones, sockets, permits | read, write, copy to and from the agent's machine, time out | a body still arriving when the call is refused; a file that changes as it is streamed | each request is answered once, by its own result; no half file on either side; permits come back |
| Remote file commands, copy and move planner (`ssh/sftp.rs`, `sftp_list.rs`, `ssh/xfer/util.rs`) | the shared SFTP channel; plans | list, rename, delete, plan copies | healing of a broken channel by several users | one heal at a time; a plan never copies into itself |
| Port forwarding (`ssh/forward.rs`) | 128 permits, error count | accept, relay | limit, transient errors | a permit is always given back |
| Settings and secrets on disk (`store/`) | JSON files, master key | `atomic_write`, load, migrate | crash between two renames | some readable version survives |
| Stall watchdog (`stall.rs`) | heartbeat, latches | beat, observe | one report per stall | no stall goes unreported |
| Local sessions (`local/`) | as remote, on a local disk | save, move | as above | as above |
| Authentication and host keys (`ssh/auth.rs`), deployment (`ssh/mcp_deploy.rs`), monitor (`ssh/sysinfo.rs`), terminal (`terminal/`), drawing (`ui/`, `app/`) | dialogues, screen, widgets | sequential | parsing and layout | covered by the program's own unit tests |

`PROJECT.json` lists these with their files and state, and, under `hazards`,
each hard behaviour at the line where it bites with the properties that cover it.

## 2. Modules and plan

| Order | Module | State |
|---|---|---|
| 1 | `XferSession`: rows, channels, scheduler, tasks, reconnection | done; proofs in `XferSessionProofs` |
| 2 | `Upload` implementing `AtomicReplace` | done; proofs in `UploadProofs` |
| 3 | `Download`: bitmap, sidecar, data file; crash at every step, resume, a remote file that changes | done for one file; proofs in `DownloadProofs` |
| 4 | `CrossCopy`: phases of the copy with the temporary key, two workers, both timeouts, the end of the program | done; proofs in `CrossCopyProofs` |
| 5 | `Paste`: relay, direct and local pastes over the rows of two tabs | done for one item; proofs in `PasteProofs` |
| 6 | `EditorSave`: a tab, an AI and another writer on one file; `sftp_write_atomic` request by request | done; proofs in `EditorSaveProofs` |
| 7 | `McpRuns`: the run of a session, the capture that ends it, the shell | done; proofs in `McpProofs` |
| 8 | `CallerCopy`: the agent, the socket, the connection task, the frame, the worker's task and the server, for copies to and from the agent's machine | done; proofs in `McpProofs` |
| 9 | `SecretStore`: master key in keychain and file, connections.json, several processes, crashes | done; proofs in `SecretStoreProofs` |
| 10 | healing of the shared SFTP channel and the copy and move planner; forwarding permits; watchdog latches; local files; directory downloads | left |

The modules are joined where components meet: `CrossCopy`, `Paste` and
`CallerCopy` each put the two or more processes of a protocol into one state
(frame, two workers, hosts; rows of two tabs; agent to server). What one of them
takes from another component it takes in the form the other module establishes:
an upload leaves a whole file or none (`Upload`, `WholeOrKept`), a row is settled
by one event (`XferSession`).

Every safety property of the runs is also a theorem; only liveness is left to TLC
(section 12). The modules have named assumptions and no `RECURSIVE` operator, so
that each can be extended by a module of proofs. `McpProofs` extends both modules
about the AI, which is why the names of `McpRuns` for the usual parts begin with
`Runs` (`RunsInit`, `RunsNext`, `RunsSpec`).

## 3. `XferSession`: the life of transfers in a session

State and code:

| Variable | Code |
|---|---|
| `rows`, `nextXfer` | `Session.transfers` (presence, `spec`, `ok`, `paused`), `next_xfer` |
| `ui` | `connected`, `was_connected`, `shell_exited`, `reconnect_tries`, `reconnect_at`; `resuming` is the program counter of the resend loop of `Connected` |
| `cmds`, `evts` | the two channels of the current worker |
| `w` | where `run` is; `active_xfer`, `pending_xfer`, keys of `xfer_cancels`, the `xfer_done` channel |
| `tasks` | futures spawned by `start_xfer`, `old` once their worker was replaced |
| `hist`, `bound` | not in the code: what the user last asked; the counters that bound the model |

One action is one click (`StartNew`, `StartAgain`, `Resume`, `Cancel`, `Remove`,
`ReconnectClick`), one event drained (`OnConnected`, `OnXferStart`, `OnXferDone`,
`OnDisconnected`, `OnShellExited`), one row of the resend loop (`ResendPaused`),
one arm of the worker's `select!` (`WStart`, `WCancel`, `WDone`), one turn of its
refill loop, or one visible step of a task. Clicks can come between any two of
them, except within the resend loop, which runs inside one frame. The resend
loop is not one step because the worker may already run while it sends. A full
event channel blocks its sender. Waking a task by dropping its stop sender is
modelled where the code drops it: when an id is registered again and when `WDone`
removes it.

Checked:

| Run | Shows |
|---|---|
| `xfer_schedule` | two transfers, one slot, one drop: slot books, queue, one attempt, no stranded and no ghost row |
| `xfer_parallel` | two slots, two rows of one source and destination: two tasks never move one file at once |
| `xfer_live` | one transfer over two drops, two automatic tries and a manual one: rows settle, reconnection goes on to its bound |

Why these bounds are enough: with one slot the second transfer queues, so start,
queue, cancel in queue and refill all happen (in `xfer_live` a restarted transfer
queues behind its own stopped attempt); two commands and two events fill
their channels, so a sender blocks; two task names let an old or stopped task and
a new one live together (three in `xfer_parallel`: all of them); two drops give a reconnection that is lost
again. Task names are interchangeable, hence the symmetry in the runs without
liveness. Task names are a bound too: a start waits when they are all taken,
which with the bounds above delays only a reuse. Deadlock is not checked: a
session whose bounds are used up, or that has no transfer left, really stops.

Properties with an exception say so in the module, because the exception is a
matter of section 13: `StrandedOnlyOffline` excepts rows started by a click while
the session showed disconnected, `OneWriterPerTarget` and `NoGhostRow` except
transfers resent after they had completed.

Fairness, for `FairSpec` only: frames are drawn, so events are drained and due
reconnections happen; tokio polls a ready task; `select!` polls its arms in
random order, so a ready arm is not passed over for ever (the arm of commands
and the arm of `xfer_done` each get weak fairness, never one command or one id);
SFTP requests and connection attempts time out, so a transfer and a connection
attempt end. Clicks, losses and shell exits are not fair.

Left out: progress events and the cap of 200 rows; the other tasks that take
slots (see `CallerCopy`, `Paste` and `CrossCopy` for what they do); authentication,
reduced to whether a connection comes up; backoff delays, reduced to "due".

## 4. `Upload` and `AtomicReplace`: what an upload does to the server

State: inodes with contents (`data`, never reused), the names that point to
them (`file`, `part`, `baks`), the uploads with their locals (`up`), the version
of each local file (`ver`), the kind of server, and `cur`, a history variable:
the inode last installed under a name. A block of content remembers which upload
wrote it from which version; a gap reads as a hole.

One action is one request of `upload` or `upload_file_once`: `Probe` (the policy;
its one or several `metadata` calls are one step), `Start` (the length that a
retry resumes from), `Open`, `Write`, `Close`, `Verify`, `Backup`, `Swap`,
`Restore`, `Clean`, and `Abandon` after the last retry. Each has an outcome that
works, one that fails without effect and, where it matters, one that fails with
its effect done. `Fail` is the error path of the retry loop. `Drop` ends an
upload anywhere, as `start_xfer`'s `select!` does; `Cancel` sets the flag; `Edit`
changes the local file. `Servers` says whether `rename` replaces an existing
name, and whether `close` may lose the tail: SFTP servers differ in both, and
the code handles both.

Checked:

| Run | Shows |
|---|---|
| `upload_single` | one upload, two runs, one retry, two versions of two blocks: what is committed is complete; what was installed last is under its name or in a backup |
| `upload_atomic` | runs one after another, a file nobody edits: refines `AtomicReplace`; every upload ends |

Two blocks are the least that make a strict prefix, a gap and a resumed write; two
versions of one length are what pinning the size alone would not tell apart, two
runs leave the part of the first to the second, one retry takes every path of
the loop. Uploads that race for one name are covered by the theorem
`OriginalKept` (section 12), which holds of any number of them. `upload_atomic`
leaves out the servers that lose the tail, against which the code can only
compare lengths (`upload_single` has them). Deadlock is not checked: when the
runs are used up every upload has ended. Fairness is `WF(Work(u))`: every request is answered or times out.

The refinement maps a name to the content of the inode last installed there,
whether under its name or in its backup, so it says that a reader who follows
the backups never sees a partial file. It does not hold of two uploads at once
or of a file edited as it is read (section 13). `UploadReplacesAtomically` proves
its safety for every size and number of retries and runs; that uploads end stays
with TLC.

`CommitComplete` has three exceptions, stated in the module: the file was edited
as it was read; this run never truncated the part (section 13); the server lost
the tail and would not tell the length, where the code passes the gate on
purpose.

Left out: an effect that comes only after its request has timed out and the next
one has run; permissions, symbolic links and directory uploads.
`upload_from_mcp`, a different transaction, is in `CallerCopy`.

## 5. `Download`: chunks, bitmap and resumption

State: the version of the remote file (`ver`), the four kinds of local file
(`data`, `side`, `target`, `baks`), the locals of `download` and `download_file`
(`run`), the workers of the current round (`wk`), and history (`hist`: whether a
chunk was read after an edit, whether the data file was made anew beside an old
bitmap, what was last at the local path). A chunk holds the version it was read
from, or 0, the zeros of `set_len`.

One action is one step after which another worker may run or the program may
end: the two `metadata` requests (`Policy`, `AskMtime`), creating and extending
the data file (`Plan`, `SetLength`), truncating and rewriting the sidecar
(`MakeSidecar`, `WriteHeader`, `WriteBits`), and for a worker taking an index off
the cursor, reading, writing, marking, collecting the byte of the bitmap and
writing it (`WNext` to `WSide`); these last interleave between workers, because
the byte is collected outside the lock. `Join` is the end of a round, `Finish` to
`Restore` the renames of `finish_download`. `SmallOpen` and `Stream` are the path
of files of at most one chunk or of unknown size. Any step may fail, `Drop` ends
the run at an await, `Crash` anywhere; `Edit` changes the remote file or puts an
old version back; `Damage` truncates or deletes the data file between runs.

Checked by `download_resume`: two runs, two workers, one retry, one edit, one
crash, one damage; two versions of two chunks, of one size and different times.
What is installed is one whole version (`InstalledWhole`), the file that stood
there is in place or in a backup (`OriginalKept`), every run ends
(`DownloadEnds`). Two runs are what a resumption needs, two workers and two chunks
of one byte what overwriting a bitmap byte needs, and two versions of one size
are told apart by their times only. TLC has also checked the invariants with
three runs. Fairness is
`WF(Main)` and `WF(Fetch(w))`: requests are answered or time out, and tokio polls
a ready task. Deadlock is not checked: when the runs are used up nothing is left.

`InstalledWhole` excepts a file edited while a run reads it, since the code looks
at size and time once, before it reads; and a resumed run whose data file was
made anew beside the bitmap of an earlier one (section 13, `ResumeSound`).

Bounds and abstractions: one run at a time on a local path (the rows of
`XferSession` are what keeps them apart, see `OneWriterPerTarget`); a chunk is
read from one version; the end of the program loses no completed write (no model
of an operating system crash; the code does not call `fsync`); a drop waits until
no worker is between its read and the end of its bookkeeping, which has no await;
times of 0 stand for a server that tells none. Left out: directories, the Rename
policy (it downloads to another path), progress counters.

## 6. `CrossCopy`: a copy between two hosts

State: the job of a copy (`job`: phase, timers, what it has been told, the
commands still in the two channels), the application's view of each session
(`conn`) and the worker behind it (`worker`, `lost`), the undrained events
(`inbox`), what the workers run for the copy (`tasks`), whether the temporary key
stands in `authorized_keys` (`keys`) and what the destination file is (`file`).
`fault` and `revoked` are history.

One action is one frame (`Frame`: events drained, then `advance_cross_copy_jobs`
over every job, in the code's order of cases), one command taken by a worker, one
step of a task (`TrustTempKey`, `UntrustTempKey`, `DirectPrepare`,
`DirectLaunch`, `DirectReport`, `RelayRead`, `RelayWrite`), the remote command
itself, which runs on when its session is lost (`RemoteCommand`), a lost, closed
or renewed session, or the end of the program (`Exit`). Every task ends well or
badly, with or without its effect; both timeouts may pass at any moment
(`DeadlinePasses`).

Checked by `cross_copy`, one copy through two losses: the answer is true of the
disk (`AnswerTrue`); a key is left behind unseen only in five named ways
(`ResidueExplained`); after a failure no relay runs on unnoticed
(`FailureStopsRelay`); the first frame after the total deadline answers, whatever
everybody else does (`DeadlineAnswers`). Two losses are what a lost source and a
lost destination need, or one lost again after it came back; copies do not share
anything but their sessions, whose commands they send in order, so one copy is
enough. No liveness is stated: `DeadlineAnswers` is the bound of everything, and
it is an action property. Deadlock is not checked since a program that has
ended stops.

Abstractions: the script that edits `authorized_keys` is one effect that may be
reported wrong; the bytes of the relay are a pipe that ends whole or short;
cancelling is a flag that a task looks at where the code does.

## 7. `Paste`: cut and paste between tabs

State: the tabs (`link`, `online`), their channels (`cmds`, `evts`), transfers
under way (`tasks`), the rows, the jobs (`relays`, `direct_jobs`, `local_xfers`)
and the plan of each, the question after a direct paste that failed or was refused
(`ask`), and what
is on which disk (`gone`, `copies`, `tmp`). `cut` is history: why a job was cut
off from its transfer.

One action is a click (`PasteFile`, `AnswerFallback`, `Cancel`, `Resume`,
`Remove`, `Close`; `RefuseDirect` is a direct paste into a tab that does not log in
with a bare key, which is asked about at once), one pass of `process_relays`, `process_direct_jobs` or
`process_local_xfers` over one job (`Advance`), one event drained, one command
taken, one end of a task, a connection lost or renewed. `XferSession` has the
scheduler in detail; here a worker takes commands in order and may leave one in
its queue.

Checked by `paste`, one paste through two lost connections, one closed tab and
one click: what is cut is deleted only when a copy is there (`CutKeepsCopy`), no
row of a job that is over goes on spinning (`NoRowLeft`), a job waits for nothing
only for one of three reasons (`OrphansExplained`), and otherwise ends
(`JobEnds`). One paste is enough because jobs share no row; two drops let each
end lose its connection, or one end twice.

Fairness (`FairSpec`): frames are drawn, workers poll their channels, tasks end
because their requests time out, and a tab that lost its connection gets it back
(`WF(Reconnect)`). The last is an assumption about the world, and without it a
job waits as long as the tab is gone, which is what the user is shown.

Left out: the question of a direct paste about a host key not known yet, several
items of one paste, pastes on one host (one `CopyMove`), progress, the `.part` files that `cleanup_relay_tmp` leaves.

## 8. `EditorSave`: an editor, an AI and the server

State: the file with its content and modification time in whole seconds
(`target`), the operations of the worker with their place in the chain of
requests (`ops`), undrained answers (`events`), the tab (`tab`, `tombs`), the
calls of the AI (`calls`, `aiTombs`, `told`), the connection (`link`) and a budget
of troubles. History are `disturbed` (did others write since the tab read?) and the
field `by` of a file: whether the tab put it there or others, and of others whether
the tab could have told, since no write of it had its mtime still to read and no
mtime it knew, had sent or was being told was the same second.

`Worker` advances one operation by one request: `Check` (stat against the known
time), `WriteTmp`, `Backup`, `Swap`, `Verify`, `Restore` and `Unwrite`,
`RemoveBackup`, `StatAfter`; `WriteInPlace` when the directory does not let a
file be made; for reads `StatForRead` and `ReadContent`. Each request may fail,
have its effect and lose its answer, or never be answered. `TakeAnswer` is what
the frame does with one event, `SaveTimesOut` and `CallTimesOut` the deadlines,
the rest are clicks and the connection.

Checked by `editor_save`: the file or its backup is there at every moment
(`TargetOrBackup`), an unforced save does not go over what others wrote, where
the time could tell (`NoSilentOverwrite`), a tab without unsaved changes shows
what is stored (`CleanMeansStored`, whose exceptions the module names), and the
AI hears of its own operation (`AnswerIsOwn`). Two operations side by side are
what two writes of one path need; two contents and two seconds make a conflict
and one that the time does not show; two troubles make a failed swap and a failed
restore, or a save given up and heard late. Only safety is stated: a save that
nobody answers is ended by its deadline, which the model lets pass at any moment.
TLC has also checked the invariants with three operations and two reads (12
million states), and in random behaviours of six operations; the theorems of
section 12 hold of any number.

## 9. `McpRuns`: the commands of an AI

State: the run of the session (`run`, `pending_ai_run`), the capture of the
terminal (`term`), the session (`line`), what is typed and not read (`todo`), the
shell (`shell`), what is printed and not drained (`out`), the frame's place
(`phase`: calls before events) and, as history, what became of each run (`fate`,
`told`, `known`). The exit code of the command of run k is k, so an answer
with another number tells somebody else's status.

`RunCommand`, `PollRun`, `Interrupt` and `SendInput` are the calls,
`DrainRuns` the part of `drain_mcp_calls` that reclaims, answers or gives up,
`TakeEvent` one event with what `capture_progress` makes of it, `EndFrame` the
snippet that hooks prompt marks (OSC 133) into a quiet shell. The shell is external:
it reads a line, announces it if it can (bash before 4.4 cannot), and prints the
end at its prompt; a program may swallow what is typed.

Checked by `mcp_runs`: `FinishedExact` (for a caller that let the shell settle
first and typed nothing else; `Settled` says what that is), `LossNamed` (a code
once found is told, kept, or lost in one of four ways), `CallAnswered`, and
`GateFreed`. Two runs make an older line's end meet a newer run, one more call a
poll or a typed line between, one drop a reconnection. Fairness: frames are
drawn (`WF(DrainRuns)`, `WF(EndFrame)`); `arm_timeout_repaint` asks for one when
a deadline or the idle time of a run is due, so that an event, the end of a
patience and a reclaim that are possible again and again happen (`SF`). Nothing is
asked of callers or of the shell.

## 10. `CallerCopy`: files from and to the agent's machine

State, one process after the other along the way of a call: the agent
(`bin/ishell-mcp.rs`) and the file on its disk (`agent`, `local`), the socket
(`sock`), the task of the connection (`conn`, `handle_conn`), its place in the
user interface (`op`, `reply`, `ui`), the worker's task (`task`,
`upload_from_mcp` or `download_to_mcp`), the stream on its way back (`pipe`), and
the remote names and lengths (`dir`, `len`). An object is known by who wrote it.

Checked by `caller_copy`, one upload and one download of one remote file, so that
the download reads what the upload replaces: `WholeOrKept`, `LocalWhole`,
`OneReader`, `AnswerHeard`, `SlotsExplained` and `CallEnds`, each with its
exceptions in the module. `MaxOdd` bounds together all that is out of the
ordinary: failed requests (with and without their effect), edits on either side,
a killed agent, a cancel, a lost session, an early timeout, and a permit
(`MAX_MCP_HANDSHAKES` 64, `MAX_MCP_CONNECTIONS` 32) or slot
(`MAX_CONCURRENT_FILE_OPS` 16) that others have taken; the run has one, which may
fall anywhere in the two calls; the 60 seconds of a draining connection
(`DrainGivesUp`) may pass at any time and are not counted. TLC has also checked
the invariants with a bound of two, and with sizes of one and two blocks. Fairness is `WF` of each process: a task is
polled, requests and waits have their timeouts (`DrainGivesUp`, the verdict's 30
seconds, `FileOpTimeout`), and a worker whose reader has gone fails; nobody is
obliged to start a call.

Abstractions: a socket and a pipe hold one block; the end frame and the verdict
behind it are one message; another program appends or cuts off one block at a
time, so that a truncation between the last read and the extra byte of a file
that was itself swapped in after the probe is not covered; the queue of the
worker is that of `XferSession`; handshake and consent are left out; the timeout
of a whole response in the agent is `Kill`.

## 11. `SecretStore`: the master key and what it opens

State: the key in the keychain and the writes of it that were given up and may
still happen (`keychain`, `late`), the key in the local file and in temporary
files of it (`kfile`, `side`), the secret of each connection in
`connections.json` as the key that opens it (`conf`), what the connection is
called there (`label`), the lock, and the locals of each process (`proc`).
`current`, `replaced` and `slow` are history: whose list is worth as much as the
file, which local keys were free to be replaced when a process decided to, which
keys a late write of the keychain put in place or replaced.

The program has no identity for a connection but its name, host and user, which
the user may change. A `Name` stands for the three, `Place[n]` for the name and
host only. The form finds the entry it edits by the place (`Slots`); a save finds
the old ciphertext by the name, and then by the one the list was read with
(`FindPrevious`); each takes the first it finds. `names` in the record of a
process is what a connection of its list was called since it was read; the code
has the first (`prev_*`) and the last. `c` numbers the places of the list, which
a delete leaves empty where the code moves up the rest: order is all that the
code's searches see.

An action is a step between two accesses to something shared: reading the list
(`Load`, `LoadEnd`), saving the form of an entry, a new one or an imported one, or
deleting one (`Edit`, `New`, `Delete`) with the two halves of the save that each
ends in (`ReadPrevious`, `SaveEnd`), and between them the key: taking the lock,
reading the local key, the inventory and the keychain, checking the one against
the other (`Verify`, `VerifyLocal`: the code reads the inventory for each check),
keeping a copy (`Persist`), moving a local key or making a new one (`Migrate`,
`Mint…`, `Install`), writing and renaming a temporary file. A write of the keychain
may fail or be given up and done later (`LateWrite`); the rename may fail, or
be done and reported as failed. A process may stop at any step (`Crash`), and its lock
goes with it; a lock may be refused, and the code goes on without.

Checked by `secret_store` with two processes, one of which has no way to the
keychain:

- `LostOnlyUnsaved`: the key of a saved secret is in the keychain or in a file, with
  two exceptions the formula names: a given-up write of the keychain came late
  (`slow`), or the local key was replaced before the secret was saved with it
  (`replaced`). Section 13 has the two counterexamples.
- `SaveKeeps`: a save of a list as the file has it leaves each secret the user did
  not touch as it was, also where it cannot be opened and its connection was
  renamed. It excepts (`Settled`) connections renamed twice since the list was read
  and those that share a place with another, where the code does lose a secret
  or takes one for another (section 13).

Bounds: two keys, two names at two places, and the four `MCLimits`, each of which
is a set of initial states: one connection with two changes and a fault; with one
change, a fault and a crash; two connections with a change and a fault; two with
no change, two faults and a crash. Two changes are an edit after an edit in one
dialog; two faults and a crash are what it takes to lose a key to a late write. The run
has no key of an earlier installation (`OldKey = 0`); `SecretsOpen` in section 13 has
one, and the theorems hold with any. No liveness: the deadlock check is off since
a process that is done rests.

Left out: `settings.json`, favourites, snippets (the same two steps without a
secret), several hosts imported at once, the other three secrets of a connection
(the same fields again), a save of `connections.json` reported failed after its rename
(in the file it is a save that worked), locks on systems that know none.

## 12. What is proved

For every value of the constants, from the named assumptions of the modules
only, unless a theorem states one more. Each `…Proofs` module proves one
inductive invariant (`Invariance`) or a chain of them, and the properties from it;
TLC checked each invariant on the instances above before it was proved.

The arguments, and why the properties are not inductive by themselves:

`XferSessionProofs`
- `TypeCorrect`: `TypeOK` and `TriesBounded`. A due reconnection increments
  `reconnect_tries` without looking at `MAX_TRIES`, so types alone are not
  inductive; that it is armed only with a try left is what is needed.
- `SlotsAccounted`: `active_xfer` is the number of tasks that have not reported
  on `xfer_done` plus the ids waiting there. Each action either leaves both
  sides alone or moves one unit; a replaced worker starts from zero because its
  tasks become `old`. `ConcurrencyBounded` follows; `QueuedOnlyWhenFull` needs
  that outside the refill loop a non-empty queue means that every slot is taken.
- `OneAttempt`, `RowsServed`, `NoGhostRows`, `OneWriter` share `AttemptInv`: the
  attempts of an id that may still announce something (its start commands, its
  place in the queue, its tasks, its announced end) are counted, and are at most
  one for each id; `RowOK` relates that count to what the row shows, `PairOK` two
  rows of one source and destination. The clicks ask the row, so the row must
  never be further than the worker.

`UploadProofs`
- `OriginalKept`: `NothingLost` for any number of uploads racing on any number of
  names. `Clean` deletes a backup, and one has to know that it is not the
  installed file. The invariant adds that an inode has one place at most
  (`Apart`), that an upload about to clean up knows that its backup is no longer
  `cur`, and that an upload without a backup deletes none (`Held`, `NoBakYet`,
  `HandleOK`).
- `CommitsComplete`: `CommitComplete` as long as no two uploads are at work on one
  name (`Spec /\ []Alone`; with two the part is shared and the property is false,
  section 13). `WOK` follows what the part holds through truncation, resumption,
  pins and the check of the length. `SingleCommitComplete` is its corollary that
  assumes nothing of a behaviour: a single upload is always alone.
- `UploadReplacesAtomically`: the refinement of `AtomicReplace`, step by step, under
  `Solo`: one upload at a time, a file nobody edits, no server that drops the tail,
  as in `upload_atomic`, but for any size, names, retries and runs. `AInv`: every
  part is a prefix of the file, whichever run left it; a file or a backup is
  whole; and the phase of the upload tells which request is the one that commits.

`DownloadProofs`
- `WholeInstalled`: a chunk marked done, in memory or in the sidecar, is of the
  version whose modification time the run or the sidecar names (`DataOK`, with
  `RunOK`, `SideOK` and `WorkOK` for the bitmap that several workers write and
  a crash tears). It assumes `MtimeDistinct`: no two versions share a time. That is
  needed: with two versions of one size and time the code cannot tell them apart,
  and TLC shows them mixed (`Size = <<2, 2>>`, `Mtime = <<1, 1>>`).
- `OriginalNeverLost` needs no such assumption (`KeptOK`).

`CrossCopyProofs`: one invariant per copy, `CopyInv`, over its record of job, tasks
and events, so that a frame can be followed through the stages of
`advance_cross_copy_jobs`. `Manned`: an open task belongs to a running worker;
`Answering`: what an event or a phase says of the file is so; `Cancelling`: after
a failure each task that goes on has a cancellation before it; `Keying`: a key
that stands is watched by a phase, a command or a task, or is one of the named
faults. `TrueAnswers`, `ExplainedResidue`, `FailureStops`, and the action property
`AnsweredInTime`.

`McpProofs`
- About `CallerCopy`: `ConnOK`, `HeardOK` and `UiOK` for the connection, its answer and
  the books of the interface; `UpOK` and `DownOK` for a call of each kind; `SeesOK`
  and `DirOK` for what a download has seen of names that uploads and others
  change: `ReplacedWholeOrKept`, `LocalIsAVersion`, `BodyHasOneReader`,
  `AnswersAreHeard`, `SlotsHaveReasons`. `CallerAssumption` says, beside the ranges,
  that the value for "none" is neither a call nor a length.
- About `McpRuns`: `ToldOnlyItsOwnCode`, `LossesAreNamed`, `EndsOnce` and the types.
  A code travels from the shell through what is printed, the capture and the run to
  the caller, and `CleanOK` follows it for a caller that let the shell settle: no
  end that the capture would take, whether typed, in front of the shell, printed
  or taken, is another line's. With marks (`MarkOK`) the shell has nothing to read
  but the command and its mark, so the status the mark prints is the command's.
  With OSC 133 (`OscOK`) ends of older lines may still come, but in front of the
  announcement of this command, without which an end does not count, unless this
  shell announces nothing; that is why `Settled` asks more there. `HookOK` ties what
  the terminal has seen to what the shell can say, `GateOK` each fate to the pending
  run, `NumbersOK` keeps numbers of later runs from being on their way, and
  `KnownOK` (a code once found is in hand until the run ends) carries
  `LossesAreNamed`. TLC has checked each part of `RunsInv` on the instance of
  `mcp_runs`.

`EditorSaveProofs`
- `FileNeverLost`: of the backups only those count whose write is not about to
  drop them; a write that is has seen the file by its check of the size, and a
  write that takes it away from there on holds it itself. `AnswersAreOwn`: an
  event carries the outcome of the operation it names.
- `NothingOverwrittenUnseen`: `NoticeInv`. The property is about the moment of one
  check, but the mtime it compares has come a long way: with an answer, from the
  tab, into a command. No mtime on that way may be that of a content by others.
  The history `by` says who put a content in place, and of others' whether the tab
  could have told at that moment; that moment is enough is what the proof shows.
- `CleanTabsTellTheTruth`: `SavesInv` (of every write since the content was read
  the tab knows what to think; the save under way is the last) and `StoreInv`,
  which says what the file will be worth to the tab when the answers still on
  their way are drained: a save that put its content in place, a read that ended
  before a write was heard of.

`SecretStoreProofs`
- `LocalKeysAreKept`, `SavesKeep`: action properties from `IInv` (`PlaceOK`, `FileOK`,
  `KeepOK`: where a process believes the key to be, what the list it read is worth,
  and that a name in the file is one its entry has had). `SavesKeep` is `SaveKeeps`
  for any list, names, places and number of changes: the file calls a connection of
  `Settled` what it is called now or what it was when the list was read, and calls
  no other connection so, so that `FindPrevious` finds it and nothing else.
- `KeysAreKept`: `LostOnlyUnsaved`, for any number of faults, crashes and late
  writes, without a hypothesis on them: the keys they touch are in `slow`. `KInv`
  follows a key from the process that knows it to the secret saved with it.
- `HeadlessNeverLoses`: without any keychain (`NoBus = Proc`), the stronger
  `SecretsOpen` holds, which with one does not (section 13).

`PasteProofs`: `Base` (what is on its way belongs to a paste and to the worker of its
tab), `LandInv` (a success has left its files, so a source that is gone has them
elsewhere), `HeardInv` (a job that waits is heard, or was cut off for a reason),
`PlainInv` (a transfer that is never resent has one attempt). `CutKeepsFiles`;
`CutKeepsAll` where there are no links (`"link" \notin Entries`, see section 13);
`NoRowSpins`; `OrphansAreExplained`.

Every invariant and action property of the runs is so proved, under the
conditions just named. Only model-checked are the liveness properties, which are
out of the prover's reach, since fairness and `ENABLED` are: `Settles`,
`ReconnectsOrGivesUp`, `UploadEnds`, `DownloadEnds`, `JobEnds`, `CallEnds`,
`CallAnswered`, `GateFreed`.

`ConcurrencyBounded`, `EndsOnce`, `LocalKeysAreKept`, `HeadlessNeverLoses`,
`CutKeepsFiles` and the types of the modules whose runs do not list `TypeOK` are proved and not also run.

## 13. What comments and documents say and the code does not do

Each module that has such formulas states them at its end, under a heading of
this name. No run lists them. To see the counterexample, put the formula in
place of the invariants and properties of the configuration named here (with
`SPECIFICATION Spec`, or `RunsSpec` for `McpRuns`), with the constants changed as
told; TLC finds each within a minute.

| Formula | Configuration | What the code does | What is said |
|---|---|---|---|
| `FinishedNotResent` | `MCXferSession.cfg` | a success drained after `Disconnected` leaves the row paused, and the completed transfer is sent again (`session_events.rs` 101) | "transfers interrupted before the disconnection" are resent (`session_events.rs` 99) |
| `NoneStranded` | `MCXferSession.cfg` | resuming a row while disconnected sends to a worker that reads no more and clears `paused`: the row stays in progress for ever (`transfer.rs` 492) | "auto-resume after reconnect" (`README.md` 26) |
| `StopOnlyOnCancel` | `MCXferParallel.cfg` | `xfer_done` removes the stop handle by id, also when it belongs to the next attempt of that id, which is stopped so (`ssh/mod.rs` 416) | dropped "when it is canceled" (`ssh/xfer/mod.rs` 171) |
| `PolicyKept` | `MCXferSession.cfg`, `Policies = {overwrite, skip}` | Skip or Rename becomes Overwrite when a transfer is resent or retried (`session_events.rs` 110) | Skip: "does not transfer if the target exists" (`proto.rs` 80) |
| `OwnPrefix` | `MCUpload.cfg` | a retry may resume from a part that a dropped upload left, although it has not truncated it itself (`upload.rs` 537) | the content is "necessarily" a prefix this process has just written (`upload.rs` 520) |
| `ResumeSound` | `MCDownload.cfg`, `Workers = {w1}`, `MaxRuns = 3`, `Retries = 0` | a run that recreates the data file and dies before it truncates the sidecar makes the next one install zeros (`download.rs` 698) | the resume information is given up (`download.rs` 674) |
| `ResidueVisible` | `MCCrossCopy.cfg` | five ways leave a key on the destination without a warning, for example a revocation that fails after the job is over (`mcp_bridge.rs` 2348) | a residue "must be visible to the user" (`mcp_bridge.rs` 2374) |
| `RelayedStays` | `MCCrossCopy.cfg` | the late `mv` of an abandoned direct copy replaces what the relay has put there (`direct.rs` 496) | `dest_path` stays "untouched" (`direct.rs` 462) |
| `NoOrphan` | `MCPaste.cfg` | a relay whose download fails before `TransferStart` has no row, its answer is dropped and `process_relays` waits for ever (`transfers_relay.rs` 122) | only rows in progress would leave a job polling "an id that does not exist" (`transfer.rs` 321) |
| `CutKeepsCopy` | `MCPaste.cfg`, `Entries = {"file", "link"}` | an upload skips symbolic links and reports success (`upload.rs` 116), and the cut deletes them at the source | "the source is deleted only after the upload, safe" (`transfers_relay.rs` 205) |
| `SavedOnceRead` | `MCEditorSave.cfg`, `MaxOps = 3`, `MaxCalls = 0`, `MaxContent = 1` | a given-up save that is heard while the closed tab is being opened again marks the placeholder as changed, and Save writes its empty text (`frame_editor.rs` 344) | late events "match no tab" (`types.rs` 425) |
| `ResultKept` | `MCMcpRuns.cfg` | a code the terminal has found and no frame has cached is dropped when the connection ends (`mcp_bridge.rs` 72 looks at `finished_result` only) | a disconnection "must not" wipe out the result of a run that has finished (`mcp_bridge.rs` 73) |
| `SecretsOpen` | `MCSecretStore.cfg`, `OldKey = 1` | a process that finds the key of an earlier installation in the keychain writes it over the key file another process has just made, before that one saves its first secret; the key of that secret is then stored nowhere (`crypto.rs` 436) | "never overwrite, it is the only way back" (`crypto.rs` 449) |
| `LateWritesHarmless` | `MCSecretStore.cfg` | a write of the keychain that is given up goes on in its thread (`crypto.rs` 66); done after a process that stopped and after another key was made, it replaces the only copy of the key in use | an operation past its time is "given up", its thread may "briefly" live on (`crypto.rs` 56) |
| `RenamedKept` | `MCSecretStore.cfg` | a connection renamed and saved twice in one dialog, or renamed back, is found neither by its name nor by `prev_name`, which Save leaves as it was read (`form.rs` 223), so that a secret that could not be opened is written as empty (`connections.rs` 214) | a save matches the old ciphertext "even if the user changed these three" (`connections.rs` 65) |

Seen in the same models, without a formula of their own.

Transfers:
- A disconnection marks failed and cancelled rows as paused too, so that the
  reconnection sends them again (`session_events.rs` 549).
- The handles of a replaced worker cannot stop its tasks, so reusing an id leaves
  two attempts running (`file_actions.rs` 65).
- Two uploads of one target share the part, and the check of the length passes on
  the bytes of the other (`upload.rs` 613).
- An upload dropped between backup and swap leaves no file under the name, only
  the backup, although `upload.rs` (485) says the target is not touched before the
  swap has succeeded; a crash in `finish_download` leaves the same locally. In
  `upload_from_mcp` a cancel does it too.
- The free name of Rename is probed once and may be taken at the swap
  (`upload.rs` 49).

Copies for an AI:
- A `copy_from_remote` of a file that does not exist returns without
  `TransferDone`, so that its slot, of 16, is in use until its deadline
  (`mcp_bridge.rs` 3381 relies on that event).
- A refused upload keeps its handshake permit while it drains, up to a minute.
- A download whose caller stalls keeps its worker's slot, since writing to the
  stream has no timeout of its own.
- `mcp_bridge.rs` (1698) names `sweep_pending_consents`, which does not exist.
- "Swap failed, original unchanged" is untrue when the rename took effect and
  its reply was lost (`upload.rs` 375; the editor's in `sftp_write.rs` 147).
- Relays in opposite directions can fill the slots of both workers with readers
  that wait for writers in the other's queue, until the deadline of the copies
  (`ssh/mod.rs` 571).

Pastes:
- Deleting the source of a cut whose tab is disconnected is silently lost; a
  failed local cut that is retried keeps its source.
- Whether a paste crosses hosts is decided by host name and port only.

The editor:
- The message of a failed swap names the temporary file that was just removed
  (`sftp_write.rs` 158 and 166).
- Two writes side by side can each remove what the other has verified.
- A stat that fails counts as no conflict, and an edit by others within the same
  second is not seen; a tab that loads has no timeout.

Runs: when the start mark of an older line is drained after the next run is
armed, the end of that line finishes the new run (`feed.rs` 486 against
`terminal/mod.rs` 300), hence `Settled` in `FinishedExact`.

Secrets:
- Two entries of one name and host that differ in the user are one to the form:
  what is saved for the second replaces the first (`form.rs` 240).
- Two entries of one name, host and user, or one renamed to what another was called
  before, share a ciphertext at the next save (`connections.rs` 211).
- A secret replaced in the local file before it was saved, or by a late write, stays
  usable in the processes that hold its key, and is lost when the last of them ends.
- A `connections.json` that cannot be read counts as an empty list, and the next
  save drops what it held; the lists of two processes overwrite each other.

## 14. What is not modelled

The components `PROJECT.json` lists as `not_modelled`, and why:

- Drawing, widgets, themes, translations, the editor's buffer and highlighting
  (about half of the lines): no protocol, the clicks that matter are actions.
- The terminal parser and `sysinfo`: sequential functions over text with large
  alphabets, which their unit tests cover better than an enumeration.
- Authentication dialogues, host keys, jump hosts, deployment of the helper:
  sequences of remote commands and questions that share no state with what is
  modelled but their outcome, which `XferSession` takes as an input.
- The window discovery, handshake and leases of the MCP bridge, and the local
  endpoint for programs (`local_api.rs`): request and answer over state modelled
  elsewhere.
- Port forwarding, the stall watchdog, local files, the shared SFTP channel and
  the planner: left in the plan of section 2.
- `vendor/`: third-party code.

The map covers about 13 percent of the implementation's lines. The rest is mostly
the list above, and within the modelled files argument parsing, messages in two
languages, and progress and layout code between the steps that are modelled;
lines are mapped only where a definition translates them.
