----------------------------- MODULE EditorSave -----------------------------
(***************************************************************************)
(* One remote file, the editor tab that shows it, the file operations an   *)
(* AI asks for on the same path, and whoever else writes it on the server. *)
(*                                                                         *)
(*  - The tab (app/types.rs, app/editor_window_view.rs) reads the file,    *)
(*    is edited and undone, saved, saved and closed, reopened, discarded.  *)
(*  - A write of the worker (ssh/sftp_write.rs) is a chain of requests:    *)
(*    compare the mtime, write a temporary file, move the original to a    *)
(*    backup, move the temporary file in, check the size, drop the backup, *)
(*    read the mtime; a refused temporary file falls back to writing in    *)
(*    place.  Each request may fail, take effect and lose its answer, or   *)
(*    never be answered.  Writes of the same path run side by side.        *)
(*  - Its answer is an event the user interface drains later, possibly     *)
(*    after the save was given up (app/frame_editor.rs) or the call of the *)
(*    AI timed out (app/mcp_bridge.rs), or never, when the session was     *)
(*    reconnected in between.                                              *)
(*                                                                         *)
(* A content is a number: 0 is what the file held at first and every edit  *)
(* makes a new one.  Encoding and line ending are part of the content, and *)
(* the mtime is the whole second of a clock.                               *)
(***************************************************************************)
EXTENDS Integers, Sequences, FiniteSets, SequencesExt

CONSTANTS MaxOps,      \* operations sent to the worker in all
          MaxSaves,    \* writes sent by the tab
          MaxReads,    \* reads sent by the tab
          MaxCalls,    \* operations sent for the AI
          MaxContent,  \* contents made after the first
          MaxClock,    \* last second of the clock
          MaxTrouble   \* troubles in one behaviour: requests that fail,
                       \* connections lost, saves and calls given up, edits
                       \* by others, edits undone

ASSUME BoundsAssumption ==
    /\ {MaxOps, MaxSaves, MaxContent, MaxClock} \subseteq Nat \ {0}
    /\ {MaxReads, MaxCalls, MaxTrouble} \subseteq Nat

VARIABLES target,    \* the file: what it holds, its mtime and, as history,
                     \* by whom: the tab, others, or others unnoticed; NoFile
          writable,  \* may a file be created in its directory?
          clock,     \* the second of the server's clock, when last looked at
          ops,       \* the operations of the worker, in the order sent
          events,    \* their answers, not yet drained
          tab,       \* the editor tab
          tombs,     \* saves of the tab that were given up
          calls,     \* the calls of the AI that wait, by operation
          aiTombs,   \* calls of the AI that were given up
          told,      \* the answer of each call of the AI
          link,      \* is the session connected, and how often reconnected
          fresh,     \* the next content
          trouble,   \* troubles so far
          disturbed  \* history: did another writer touch the file since it
                     \* was read?

vars == <<target, writable, clock, ops, events, tab, tombs, calls, aiTombs,
          told, link, fresh, trouble, disturbed>>
server == <<target, clock, fresh, disturbed>>
ai == <<calls, aiTombs, told>>
user == <<tab, tombs>>

NoFile == [c |-> -2, m |-> 0, by |-> "tab"]
Torn == -1                \* a mixture of two contents
File(c, now, by) == [c |-> c, m |-> now, by |-> by]
\* Time passes where somebody looks at the clock.
At(now) == now >= clock /\ clock' = now
Exists == target # NoFile

----------------------------------------------------------------------------
(* Operations sent to the worker *)

\* What the check of a write compares, forgotten after it: the mtime it
\* expects, or to be forced; the content the tab knows with that mtime.
NoAsk == [expect |-> 0, force |-> FALSE, base |-> 0, knows |-> FALSE]
NewOp(who, kind, c, force) ==
    [who |-> who, kind |-> kind, c |-> c, ask |-> [NoAsk EXCEPT !.force = force],
     inst |-> 0, unread |-> FALSE, crossed |-> FALSE, st |-> "queued", m |-> 0,
     tmp |-> FALSE, bak |-> NoFile, sneaked |-> FALSE, end |-> "none",
     names |-> "none", heard |-> FALSE, dead |-> ~link.up, gen |-> link.drops]

Live(o) == ops[o].st # "ended"
Writes == {o \in DOMAIN ops : ops[o].kind = "write"}
TabWrites == {o \in Writes : ops[o].who = "tab"}

\* The tab's writes since its content was read.
Mine == {o \in TabWrites : ops[o].inst = tab.inst}

\* UnboundedSender::send: a command sent to a worker that is gone is dropped.
Send(op) == ops' = Append(ops, op)
Sent(who, kind) == {o \in DOMAIN ops : ops[o].who = who /\ ops[o].kind = kind}
CanSend == Len(ops) < MaxOps
CanSave == CanSend /\ Cardinality(Sent("tab", "write")) < MaxSaves
CanRead == CanSend /\ Cardinality(Sent("tab", "read")) < MaxReads
CanCall ==
    CanSend /\ Cardinality(Sent("ai", "write") \union Sent("ai", "read")) < MaxCalls

----------------------------------------------------------------------------
(* The tab *)

NoTab == [open |-> FALSE, c |-> 0, orig |-> 0, div |-> FALSE, ver |-> 0,
          mtime |-> 0, save |-> "idle", rev |-> 0, close |-> FALSE, op |-> 0,
          load |-> 0, reopening |-> FALSE, inst |-> 0,
          base |-> 0, knows |-> FALSE, early |-> FALSE]

Dirty == tab.div \/ tab.c # tab.orig
Saving == tab.save = "saving"
Loaded == tab.open /\ tab.load = 0

\* EditorTab::begin_save and the WriteFile sent with it.
SaveOp(t, force) ==
    [NewOp("tab", "write", t.c, force) EXCEPT
        !.ask = [expect |-> t.mtime, force |-> force, base |-> t.base,
                 knows |-> t.knows],
        !.inst = t.inst, !.unread = t.load # 0 /\ ~t.reopening,
        !.crossed = \E o \in Mine : Live(o)]
BeginSave(t, close) ==
    [t EXCEPT !.save = "saving", !.rev = t.ver, !.close = close,
              !.op = Len(ops) + 1]

StopSaving(t) == [t EXCEPT !.save = "idle", !.op = 0, !.close = FALSE]
\* note_saved_mtime: an mtime that could not be read is not kept.
NoteMtimeZeroToo(t, m) ==
    [t EXCEPT !.mtime = m, !.knows = @ \/ m # 0]
NoteMtime(t, m) ==
    [t EXCEPT !.mtime = IF m # 0 THEN m ELSE @, !.knows = @ \/ m # 0]
NoteDiverged(t) == [t EXCEPT !.div = TRUE]
MarkSaved(t) == [t EXCEPT !.orig = t.c, !.div = FALSE]
NoteLateSave(t, m) == NoteDiverged(NoteMtime(t, m))
Removed(t) == [NoTab EXCEPT !.inst = t.inst]

Trouble == trouble < MaxTrouble /\ trouble' = trouble + 1

OpenedTab == [NoTab EXCEPT !.open = TRUE, !.mtime = 1, !.inst = 1, !.knows = TRUE]
Init ==
    /\ target = File(0, 1, "tab")
    /\ writable \in BOOLEAN
    /\ clock = 1
    /\ ops = <<>> /\ events = <<>>
    /\ tab = OpenedTab /\ tombs = {}
    /\ calls = {} /\ aiTombs = {} /\ told = [o \in {} |-> "none"]
    /\ link = [up |-> TRUE, seen |-> TRUE, drops |-> 0]
    /\ fresh = 1 /\ trouble = 0
    /\ disturbed = FALSE

----------------------------------------------------------------------------
(* The user *)

\* A placeholder tab, and ReadFile sent for it.
OpenTab ==
    /\ ~tab.open /\ CanRead /\ link.seen
    /\ Send(NewOp("tab", "read", 0, FALSE))
    /\ tab' = [NoTab EXCEPT !.open = TRUE, !.load = Len(ops) + 1,
                            !.inst = tab.inst + 1]
    /\ UNCHANGED <<server, writable, events, tombs, ai, link, trouble>>

\* begin_reopen: read again with another encoding, unless there is unsaved
\* work.  A save under way does not prevent it.
Reopen ==
    /\ Loaded /\ ~Dirty /\ CanRead
    /\ Send(NewOp("tab", "read", 0, FALSE))
    /\ tab' = [tab EXCEPT !.load = Len(ops) + 1, !.reopening = TRUE,
                          !.inst = @ + 1, !.early = @ \/ Saving]
    /\ disturbed' = TRUE
    /\ UNCHANGED <<target, clock, fresh, writable, events, tombs, ai, link,
                   trouble>>

Edit ==
    /\ Loaded /\ fresh <= MaxContent
    /\ tab' = [tab EXCEPT !.c = fresh, !.ver = @ + 1]
    /\ fresh' = fresh + 1
    /\ UNCHANGED <<target, writable, clock, disturbed, ops, events, tombs, ai,
                   link, trouble>>

\* Undo back to what the file held when it was opened or last saved.
Undo ==
    /\ Loaded /\ tab.c # tab.orig /\ Trouble
    /\ tab' = [tab EXCEPT !.c = tab.orig, !.ver = @ + 1]
    /\ UNCHANGED <<server, writable, ops, events, tombs, ai, link>>

Save ==
    /\ tab.open /\ Dirty /\ ~Saving /\ CanSave
    /\ Send(SaveOp(tab, FALSE))
    /\ tab' = BeginSave(tab, FALSE)
    /\ UNCHANGED <<server, writable, events, tombs, ai, link, trouble>>

\* The banner of a conflict: overwrite, or put it away.
Overwrite ==
    /\ tab.save = "conflict" /\ CanSave
    /\ Send(SaveOp(tab, TRUE))
    /\ tab' = BeginSave(tab, FALSE)
    /\ UNCHANGED <<server, writable, events, tombs, ai, link, trouble>>

KeepMine ==
    /\ tab.save = "conflict"
    /\ tab' = [tab EXCEPT !.save = "idle"]
    /\ UNCHANGED <<server, writable, ops, events, tombs, ai, link, trouble>>

\* The cross of a clean tab, or of the window when every tab is clean.
CloseClean ==
    /\ tab.open /\ ~Dirty
    /\ tab' = Removed(tab)
    /\ UNCHANGED <<server, writable, ops, events, tombs, ai, link, trouble>>

\* A dirty tab asks first, and may be saved while it asks.  "Save & close":
\* the tab stays until the save is confirmed.
Asks == tab.open /\ (Dirty \/ (Loaded /\ \E o \in Mine : ops[o].heard))
SaveAndClose ==
    /\ Asks
    /\ IF Saving
       THEN /\ tab' = [tab EXCEPT !.close = TRUE]
            /\ UNCHANGED ops
       ELSE /\ CanSave
            /\ Send(SaveOp(tab, FALSE))
            /\ tab' = BeginSave(tab, TRUE)
    /\ UNCHANGED <<server, writable, events, tombs, ai, link, trouble>>

\* "Discard"; closing the window or the session all the same.
Discard ==
    /\ Asks
    /\ tab' = Removed(tab)
    /\ UNCHANGED <<server, writable, ops, events, tombs, ai, link, trouble>>

\* No answer and no progress for SAVE_TIMEOUT: the save is given up and its
\* number kept, so that a late answer is known for what it is.
SaveTimesOut ==
    /\ Saving /\ Trouble
    /\ tombs' = tombs \union {tab.op}
    /\ tab' = StopSaving(tab)
    /\ UNCHANGED <<server, writable, ops, events, ai, link>>

----------------------------------------------------------------------------
(* Others on the server *)

\* A write of the tab that has put its content in place takes the file for its
\* own until it has read the mtime.
Window == \E o \in TabWrites : ops[o].st \in {"verify", "unbackup", "cut", "stat"}

\* Second m is taken when the tab, a save it has sent or an answer on its way to
\* it knows it as the mtime of a content other than c.
Taken(m, c) ==
    \/ tab.mtime = m /\ tab.base # c
    \/ \E o \in TabWrites : ops[o].ask.expect = m /\ ops[o].ask.base # c
    \/ \E i \in DOMAIN events :
         LET e == events[i]
         IN /\ e.m = m /\ ops[e.op].who = "tab"
            /\ e.kind = "saved" \/ ops[e.op].c # c

\* By whom content c is put at second m when it is not the tab.
Others(m, c) == IF Window \/ Taken(m, c) THEN "unnoticed" ELSE "others"

ForeignEdit ==
    /\ Exists /\ fresh <= MaxContent /\ Trouble
    /\ \E now \in 1 .. MaxClock :
         /\ At(now)
         /\ target' = File(fresh, now, Others(now, fresh))
    /\ fresh' = fresh + 1 /\ disturbed' = TRUE
    /\ UNCHANGED <<writable, ops, events, user, ai, link>>

----------------------------------------------------------------------------
(* The worker: one request at a time of each operation *)

\* What may become of a request: it is done, it fails, or it is done and its
\* answer is lost.  On a lost connection nothing is done any more.
Replies(o) ==
    IF ops[o].dead THEN {"err"}
    ELSE {"ok"} \union (IF trouble < MaxTrouble THEN {"err", "lost"} ELSE {})
Done(r) == r \in {"ok", "lost"}
Count(o, r) ==
    trouble' = IF r = "ok" \/ ops[o].dead THEN trouble ELSE trouble + 1

Step(o, st) == ops' = [ops EXCEPT ![o].st = st]

\* UiSink::send: the event reaches the session it was started for, unless
\* that one has been reconnected and drains another channel.
Answer(o, kind, m) ==
    events' = IF ops[o].gen = link.drops
              THEN Append(events, [kind |-> kind, op |-> o, m |-> m])
              ELSE events

\* The temporary file is removed where the worker still can.
TmpLeft(o) == ops[o].tmp /\ ops[o].dead
End(o, end, names) ==
    ops' = [ops EXCEPT ![o].st = "ended", ![o].end = end, ![o].names = names,
                       ![o].ask = NoAsk, ![o].tmp = TmpLeft(o), ![o].m = 0]
Fail(o, names) == End(o, "failed", names) /\ Answer(o, "failed", 0)

\* The file becomes f by the hand of operation o.
PutFile(o, f) ==
    /\ target' = f
    /\ disturbed' = (disturbed \/ o \notin Mine)
    /\ UNCHANGED fresh
PutNew(o, c, m) ==
    PutFile(o, File(c, m, IF o \in TabWrites THEN "tab" ELSE Others(m, c)))
\* A backup that is put back.
PutBack(o) ==
    LET f == ops[o].bak
    IN PutFile(o, [f EXCEPT !.by = IF @ = "tab" THEN @ ELSE Others(f.m, f.c)])

\* read_file_chunked: the mtime first, the content after it.
StatForRead(o) ==
    /\ ops[o].kind = "read" /\ ops[o].st = "queued"
    /\ \E r \in Replies(o) \ {"lost"} :
         /\ Count(o, r)
         /\ ops' = [ops EXCEPT ![o].st = "content",
                               ![o].m = IF r = "ok" THEN target.m ELSE 0]
    /\ UNCHANGED <<server, events>>

ReadContent(o) ==
    /\ ops[o].kind = "read" /\ ops[o].st = "content"
    /\ \E r \in Replies(o) \ {"lost"} :
         /\ Count(o, r)
         /\ IF r = "ok" /\ Exists
            THEN /\ ops' = [ops EXCEPT ![o].st = "ended", ![o].end = "opened",
                                       ![o].c = target.c, ![o].m = 0]
                 /\ Answer(o, "opened", ops[o].m)
                 \* What others do from here on the tab does not show.
                 /\ disturbed' = (disturbed /\ o # tab.load)
            ELSE Fail(o, "none") /\ UNCHANGED disturbed
    /\ UNCHANGED <<target, clock, fresh>>

\* The mtime that tells of a change by others.  One that cannot be read, or
\* a file that is not there, is no conflict.
Conflicts(o, r) ==
    ~ops[o].ask.force /\ ops[o].ask.expect # 0 /\ r = "ok" /\ Exists
    /\ target.m # ops[o].ask.expect

\* The file holds what others wrote where the tab could have told, and the
\* tab has not read it since.
Unseen(o) ==
    /\ ~ops[o].ask.force /\ ops[o].ask.knows
    /\ target.by = "others" /\ target.c # ops[o].ask.base

Check(o) ==
    /\ ops[o].kind = "write" /\ ops[o].st = "queued"
    /\ \E r \in Replies(o) \ {"lost"} :
         /\ Count(o, r)
         /\ IF Conflicts(o, r)
            THEN End(o, "conflict", "none") /\ Answer(o, "conflict", 0)
            ELSE /\ ops' = [ops EXCEPT ![o].st = "tmp", ![o].ask = NoAsk,
                                       ![o].sneaked = r = "ok" /\ Unseen(o)]
                 /\ UNCHANGED events
    /\ UNCHANGED server

\* The temporary file: written, its size checked, the mode copied.  Where the
\* directory does not let it be made, the file is written in place.
WriteTmp(o) ==
    /\ ops[o].st = "tmp"
    /\ \E r \in Replies(o) :
         /\ Count(o, r)
         /\ IF writable /\ r = "ok"
            THEN /\ \E now \in 1 .. MaxClock :
                      /\ At(now)
                      /\ ops' = [ops EXCEPT ![o].st = "backup", ![o].tmp = TRUE,
                                            ![o].m = now]
                 /\ UNCHANGED events
            ELSE /\ IF r = "ok" THEN Step(o, "inplace") /\ UNCHANGED events
                                ELSE Fail(o, "none")
                 /\ UNCHANGED clock
    /\ UNCHANGED <<target, fresh, disturbed>>

\* rename(target -> bak).  "No such file" means a new file; any other failure
\* stops the save and removes the temporary file.
Backup(o) ==
    /\ ops[o].st = "backup"
    /\ \E r \in Replies(o) :
         /\ Count(o, r)
         /\ IF Exists /\ Done(r)
            THEN /\ PutFile(o, NoFile)
                 /\ IF r = "ok"
                    THEN /\ ops' = [ops EXCEPT ![o].st = "swap", ![o].bak = target]
                         /\ UNCHANGED events
                    ELSE /\ ops' = [ops EXCEPT ![o].st = "ended", ![o].tmp = TmpLeft(o),
                              ![o].end = "failed",
                              ![o].bak = target]
                         /\ Answer(o, "failed", 0)
            ELSE /\ IF ~Exists /\ r = "ok"
                    THEN Step(o, "swap") /\ UNCHANGED events
                    ELSE Fail(o, "none")
                 /\ UNCHANGED <<target, fresh, disturbed>>
    /\ UNCHANGED clock

HasBackup(o) == ops[o].bak # NoFile

\* rename(tmp -> target), which the server refuses when the file is there.
\* A failure puts the backup back and removes the temporary file.
Swap(o) ==
    /\ ops[o].st = "swap"
    /\ \E r \in Replies(o) :
         LET done == Done(r) /\ ~Exists
         IN /\ Count(o, r)
            /\ IF done
               THEN PutNew(o, ops[o].c, ops[o].m) /\ UNCHANGED clock
               ELSE UNCHANGED server
            /\ IF done /\ r = "ok"
               THEN ops' = [ops EXCEPT ![o].st = "verify", ![o].tmp = FALSE]
                    /\ UNCHANGED events
               ELSE IF HasBackup(o)
               THEN ops' = [ops EXCEPT ![o].st = "restore", ![o].tmp = TmpLeft(o)]
                    /\ UNCHANGED events
               ELSE Fail(o, "tmp")

\* The size of the file against the size written.  Two contents may have the
\* same size; a size that cannot be read counts as wrong.
Verify(o) ==
    /\ ops[o].st = "verify"
    /\ \E r \in Replies(o) \ {"lost"}, same \in BOOLEAN :
         /\ (Exists /\ target.c = ops[o].c) => same
         /\ ~Exists => ~same
         /\ Count(o, r)
         /\ IF r = "ok" /\ same
            THEN Step(o, IF HasBackup(o) THEN "unbackup" ELSE "stat")
                 /\ UNCHANGED events
            ELSE IF HasBackup(o)
            THEN Step(o, "unwrite") /\ UNCHANGED events
            ELSE Fail(o, "none")
    /\ UNCHANGED server

\* A wrong size: the file is removed and the backup put back.
Unwrite(o) ==
    /\ ops[o].st = "unwrite"
    /\ \E r \in Replies(o) :
         /\ Count(o, r)
         /\ IF Done(r) /\ Exists
            THEN PutFile(o, NoFile) /\ UNCHANGED clock
            ELSE UNCHANGED server
    /\ Step(o, "restore")
    /\ UNCHANGED events

RestoreOnce(o) ==
    /\ ops[o].st = "restore"
    /\ \E r \in Replies(o) :
         /\ Count(o, r)
         /\ IF Done(r) /\ ~Exists
            THEN PutBack(o) /\ UNCHANGED clock
            ELSE UNCHANGED server
    /\ ops' = [ops EXCEPT ![o].st = "ended", ![o].end = "failed",
                          ![o].bak = NoFile]
    /\ Answer(o, "failed", 0)

\* The backup is put back, or stays under its name.
Restore(o) ==
    /\ ops[o].st = "restore"
    /\ \E r \in Replies(o) :
         LET done == Done(r) /\ ~Exists
             restored == done /\ r = "ok"
         IN /\ Count(o, r)
            /\ IF done
               THEN PutBack(o) /\ UNCHANGED clock
               ELSE UNCHANGED server
            /\ ops' = [ops EXCEPT ![o].st = "ended", ![o].end = "failed",
                         ![o].names = IF restored THEN "none" ELSE "bak",
                         ![o].bak = IF done THEN NoFile ELSE @]
            /\ Answer(o, "failed", 0)

\* The file holds the new content: the backup goes, best effort.
RemoveBackup(o) ==
    /\ ops[o].st = "unbackup"
    /\ \E r \in Replies(o) :
         /\ Count(o, r)
         /\ ops' = [ops EXCEPT ![o].st = "stat",
                               ![o].bak = IF Done(r) THEN NoFile ELSE @]
    /\ UNCHANGED <<server, events>>

\* Written over where it stands: opened without truncation, written from the
\* start, cut to its new size.
WriteInPlace(o) ==
    /\ ops[o].st = "inplace"
    /\ \E r \in Replies(o) :
         /\ Count(o, r)
         /\ IF Exists /\ Done(r)
            THEN \E now \in 1 .. MaxClock : At(now) /\ PutNew(o, Torn, now)
            ELSE UNCHANGED server
         /\ IF Exists /\ r = "ok"
            THEN Step(o, "cut") /\ UNCHANGED events
            ELSE Fail(o, "none")

Cut(o) ==
    /\ ops[o].st = "cut"
    /\ \E r \in Replies(o) :
         /\ Count(o, r)
         /\ IF Exists /\ Done(r)
            THEN \E now \in 1 .. MaxClock :
                   /\ At(now)
                   /\ PutNew(o, IF target.c = Torn THEN ops[o].c ELSE Torn, now)
            ELSE UNCHANGED server
         /\ IF Exists /\ r = "ok" THEN Step(o, "stat") /\ UNCHANGED events
                                  ELSE Fail(o, "none")

\* The mtime the tab is told, 0 when it cannot be read.
StatAfter(o) ==
    /\ ops[o].st = "stat"
    /\ \E r \in Replies(o) \ {"lost"} :
         LET m == IF r = "ok" THEN target.m ELSE 0
         IN /\ Count(o, r)
            /\ End(o, "saved", "none")
            /\ Answer(o, "saved", m)
    /\ UNCHANGED server

\* The session has no SFTP channel: an operation is answered at once.
NoSftp(o) ==
    /\ ops[o].st = "queued" /\ ~ops[o].dead /\ Trouble
    /\ Fail(o, "none")
    /\ UNCHANGED server

Worker ==
    /\ \E o \in DOMAIN ops :
         \/ StatForRead(o) \/ ReadContent(o)
         \/ Check(o) \/ WriteTmp(o) \/ Backup(o) \/ Swap(o) \/ Verify(o)
         \/ Unwrite(o) \/ Restore(o) \/ RemoveBackup(o)
         \/ WriteInPlace(o) \/ Cut(o) \/ StatAfter(o) \/ NoSftp(o)
    /\ UNCHANGED <<writable, user, ai, link>>

----------------------------------------------------------------------------
(* The user interface drains the answers *)

IsTabOp(e) == ops[e.op].who = "tab"
ForSave(e) == tab.open /\ tab.op = e.op

\* FileOpened for the tab that asked for it: a new editor takes the place of
\* the old one, its revisions count from the start again.
Opened(e) ==
    IF tab.open /\ tab.load = e.op
    THEN [tab EXCEPT !.c = ops[e.op].c, !.orig = ops[e.op].c, !.div = FALSE,
                     !.ver = 0, !.mtime = e.m, !.load = 0, !.reopening = FALSE,
                     !.base = ops[e.op].c, !.knows = e.m # 0,
                     !.early = @ \/ Saving]
    ELSE tab

\* FileLoadFailed: a placeholder is removed, a reopened tab gets its text back.
LoadFailed(e) ==
    IF tab.open /\ tab.load = e.op
    THEN IF tab.reopening THEN [tab EXCEPT !.load = 0, !.reopening = FALSE]
                          ELSE Removed(tab)
    ELSE tab

\* FileSaved of a save that was given up: the tab learns the mtime, and that
\* the file is no longer what it was opened with.
LateSaved(e) ==
    IF tab.open /\ ~Saving THEN NoteLateSave(tab, e.m) ELSE tab

\* Only the revision that was sent is saved by its answer.
UnchangedByLuck == TRUE
Unchanged == tab.ver = tab.rev

\* FileSaved of the save under way: nothing was edited since, or the tab
\* stays unsaved; one to be closed is then saved once more.
SavedNow(e) ==
    LET t == NoteMtime(tab, e.m)
    IN IF Unchanged
       THEN IF tab.close THEN Removed(t) ELSE StopSaving(MarkSaved(t))
       ELSE IF tab.close THEN BeginSave(NoteDiverged(t), TRUE)
       ELSE StopSaving(NoteDiverged(t))
SavesAgain(e) == Saving /\ tab.close /\ ~Unchanged

TabSaved(e) ==
    /\ tab' = IF e.op \in tombs THEN LateSaved(e)
              ELSE IF ForSave(e) THEN SavedNow(e) ELSE tab
    /\ LET drained == [ops EXCEPT ![e.op].heard = TRUE]
       IN IF e.op \notin tombs /\ ForSave(e) /\ SavesAgain(e)
          THEN /\ CanSave
               /\ ops' = Append(drained, SaveOp(NoteMtime(tab, e.m), FALSE))
          ELSE ops' = drained

TabAnswer(e) ==
    \/ e.kind = "saved" /\ TabSaved(e)
    \/ /\ e.kind = "conflict"
       /\ tab' = IF ForSave(e) /\ e.op \notin tombs
                 THEN [StopSaving(tab) EXCEPT !.save = "conflict"] ELSE tab
       /\ UNCHANGED ops
    \/ /\ e.kind = "failed" /\ ops[e.op].kind = "write"
       /\ tab' = IF ForSave(e) /\ e.op \notin tombs THEN StopSaving(tab) ELSE tab
       /\ UNCHANGED ops
    \/ e.kind = "opened" /\ tab' = Opened(e) /\ UNCHANGED ops
    \/ /\ e.kind = "failed" /\ ops[e.op].kind = "read"
       /\ tab' = LoadFailed(e) /\ UNCHANGED ops

\* The calls an answer is for: the one with its number, not every one of the
\* same path.
ResolvesByPath(e) == {o \in calls : ops[o].kind = ops[e.op].kind}
Resolves(e) == {o \in calls : o = e.op}

\* The first event of the queue: an answer to a call of the AI goes to the
\* call, and to nobody when the call was given up; the others go to the tab.
TakeAnswer ==
    /\ events # <<>>
    /\ LET e == Head(events)
       IN /\ events' = Tail(events)
          /\ IF e.op \in aiTombs \/ Resolves(e) # {}
             THEN /\ calls' = calls \ Resolves(e)
                  /\ told' = [o \in DOMAIN told |->
                                 IF o \in Resolves(e) THEN e.kind ELSE told[o]]
                  /\ UNCHANGED <<tab, ops>>
             ELSE IF IsTabOp(e)
             THEN TabAnswer(e) /\ UNCHANGED <<calls, told>>
             ELSE UNCHANGED <<tab, ops, calls, told>>
    /\ UNCHANGED <<server, writable, tombs, aiTombs, link, trouble>>

----------------------------------------------------------------------------
(* Calls of the AI *)

\* write_file and read_file: refused while the session is not connected;
\* a write is forced and knows no mtime.
CallFile(kind) ==
    /\ CanCall /\ link.seen
    /\ kind = "write" => fresh <= MaxContent
    /\ Send(NewOp("ai", kind, IF kind = "write" THEN fresh ELSE 0,
                  kind = "write"))
    /\ fresh' = IF kind = "write" THEN fresh + 1 ELSE fresh
    /\ calls' = calls \union {Len(ops) + 1}
    /\ told' = [o \in DOMAIN told \union {Len(ops) + 1} |->
                  IF o \in DOMAIN told THEN told[o] ELSE "waits"]
    /\ UNCHANGED <<target, clock, disturbed, writable, events, user, aiTombs,
                   link, trouble>>

\* check_file_op_timeouts, after the events of the frame.
CallTimesOut ==
    /\ Trouble
    /\ \E o \in calls :
         /\ calls' = calls \ {o}
         /\ aiTombs' = aiTombs \union {o}
         /\ told' = [told EXCEPT ![o] = "timeout"]
    /\ UNCHANGED <<server, writable, ops, events, user, link>>

----------------------------------------------------------------------------
(* The connection *)

LinkDies ==
    /\ link.up /\ Trouble
    /\ link' = [link EXCEPT !.up = FALSE]
    /\ ops' = [o \in DOMAIN ops |-> [ops[o] EXCEPT !.dead = Live(o)]]
    /\ UNCHANGED <<server, writable, events, user, ai>>

\* apply_disconnected: the calls of the AI are answered; nothing remembers
\* them, and a tab goes on waiting for its save.
SeeDisconnected ==
    /\ ~link.up /\ link.seen
    /\ link' = [link EXCEPT !.seen = FALSE]
    /\ told' = [o \in DOMAIN told |-> IF o \in calls THEN "lost" ELSE told[o]]
    /\ calls' = {}
    /\ UNCHANGED <<server, writable, ops, events, user, aiTombs, trouble>>

\* reconnect_session: a new worker and a new channel of events; the tab sends
\* to the new worker from now on.
Reconnect ==
    /\ ~link.seen
    /\ link' = [up |-> TRUE, seen |-> TRUE, drops |-> link.drops + 1]
    /\ events' = <<>> /\ calls' = {}
    /\ UNCHANGED <<server, writable, ops, user, aiTombs, told, trouble>>

Next ==
    \/ OpenTab \/ Reopen \/ Edit \/ Undo \/ Save \/ Overwrite \/ KeepMine
    \/ CloseClean \/ SaveAndClose \/ Discard \/ SaveTimesOut
    \/ ForeignEdit
    \/ Worker \/ TakeAnswer
    \/ (\E k \in {"read", "write"} : CallFile(k)) \/ CallTimesOut
    \/ LinkDies \/ SeeDisconnected \/ Reconnect

Spec == Init /\ [][Next]_vars

----------------------------------------------------------------------------
(* Properties *)

TypeOK ==
    /\ target \in [c : -2 .. MaxContent, m : 0 .. MaxClock,
                   by : {"tab", "others", "unnoticed"}]
    /\ \A o \in DOMAIN ops :
         /\ ops[o].end \in {"none", "saved", "conflict", "failed", "opened"}
         /\ Live(o) <=> ops[o].end = "none"
    /\ tab.save \in {"idle", "saving", "conflict"}
    /\ (tab.op # 0) <=> Saving
    /\ calls \intersect aiTombs = {}
    /\ calls \subseteq {o \in DOMAIN told : told[o] = "waits"}

\* Nobody deletes the file, so it is there or in a backup at every moment,
\* however many writes run and whatever fails (the promise of
\* sftp_write_atomic).
TargetOrBackup ==
    Exists \/ \E o \in Writes : ops[o].bak # NoFile

\* A save that was not forced passes its check over a content by others that
\* the tab has not read only when it could not see it: the mtime could not be
\* read, or the content came to its place while an earlier write of the tab had
\* yet to read its mtime, or in a second the tab knew for another content.
NoSilentOverwrite == \A o \in TabWrites : ~ops[o].sneaked

\* A loaded tab that shows no unsaved change shows what the file holds,
\* unless others wrote it since it was read or a save of the tab has not been
\* heard to succeed, ran beside another one, or was under way when the file
\* was opened again.
CleanMeansStored ==
    (Loaded /\ ~Dirty /\ ~disturbed /\ ~tab.early
       /\ \A o \in Mine : ops[o].heard /\ ~ops[o].crossed) => target.c = tab.c

\* The AI is told of its own operation what became of it, though the tab
\* writes and reads the same path.
AnswerIsOwn ==
    \A o \in DOMAIN told :
        told[o] \in {"saved", "failed", "conflict", "opened"} => told[o] = ops[o].end

-----------------------------------------------------------------------------
(* What comments of the code say and the code does not do *)

\* types.rs:425, a late answer to a save that was given up "matches no tab" and
\* so does not touch one: a tab does not save before its content has come.
SavedOnceRead == \A o \in TabWrites : ~ops[o].unread
=============================================================================
