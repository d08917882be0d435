--------------------------- MODULE EditorSaveProofs ---------------------------
(***************************************************************************)
(* Proofs about EditorSave, for every number of operations, contents,      *)
(* seconds and troubles:                                                   *)
(*  - types, and that the file is never lost, whichever writes run side by *)
(*    side and whatever becomes of their requests;                         *)
(*  - that the AI is told the outcome of its own operation;                *)
(*  - that a save never passes its check over what others wrote where the  *)
(*    tab could have seen it;                                              *)
(*  - that a tab without unsaved changes shows what the file holds.        *)
(*                                                                         *)
(* None of them is inductive.  That the file is there or in a backup: a    *)
(* write about to drop its backup must not be the one that is counted on;  *)
(* its check of the size saw the file, and a write that takes the file     *)
(* away from there on holds it as a backup of its own (IInv).  That others *)
(* are noticed: no mtime a tab knows, has sent or will be told is that of  *)
(* a content of others (NoticeInv).  That a clean tab is true: what each   *)
(* save and each read on its way to the tab will make of it (SavesInv,     *)
(* StoreInv).                                                              *)
(***************************************************************************)
EXTENDS EditorSave, TLAPS

Contents == -1 .. MaxContent
Times == 0 .. MaxClock
Hands == {"tab", "others", "unnoticed"}
Files == [c : -2 .. MaxContent, m : Times, by : Hands]
WriteStages == {"tmp", "backup", "swap", "verify", "unwrite", "restore",
                "unbackup", "inplace", "cut", "stat"}
Ends == {"saved", "conflict", "failed", "opened"}
AskSet == [expect : Times, force : BOOLEAN, base : Contents, knows : BOOLEAN]
Ops == [who : {"tab", "ai"}, kind : {"read", "write"}, c : Contents, ask : AskSet,
        inst : Nat, unread : BOOLEAN, crossed : BOOLEAN,
        st : WriteStages \union {"queued", "content", "ended"}, m : Times,
        tmp : BOOLEAN, bak : Files, sneaked : BOOLEAN, end : Ends \union {"none"},
        names : {"none", "tmp", "bak"}, heard : BOOLEAN, dead : BOOLEAN, gen : Nat]
Tabs == [open : BOOLEAN, c : Contents, orig : Contents, div : BOOLEAN, ver : Nat,
         mtime : Times, save : {"idle", "saving", "conflict"}, rev : Nat,
         close : BOOLEAN, op : Nat, load : Nat, reopening : BOOLEAN, inst : Nat,
         base : Contents, knows : BOOLEAN, early : BOOLEAN]
Events == [kind : Ends, op : Nat, m : Times]

Real(f) == f = NoFile \/ f.c # -2
\* An operation is at a stage of its kind; a write that undoes its work has a
\* backup; an operation has an outcome when it has ended.
OpOK(r) ==
    /\ r.st \in WriteStages => r.kind = "write"
    /\ r.st \in {"unwrite", "restore"} => r.bak # NoFile
    /\ r.bak # NoFile => r.kind = "write"
    /\ Real(r.bak)
    /\ r.st # "ended" <=> r.end = "none"

\* The old file is in the backup of a write that is not about to drop it.
Held(r) == r.bak # NoFile /\ r.st # "unbackup"
TabOK(t) == t \in Tabs /\ (t.op # 0 <=> t.save = "saving")

FileInv == target \in Files /\ Real(target)
OpsInv == ops \in Seq(Ops) /\ \A o \in DOMAIN ops : OpOK(ops[o])
EventsInv ==
    /\ events \in Seq(Events)
    /\ \A i \in DOMAIN events :
         /\ events[i].op \in DOMAIN ops
         /\ ops[events[i].op].end = events[i].kind
CallsInv ==
    /\ calls \intersect aiTombs = {}
    /\ calls \subseteq {o \in DOMAIN told : told[o] = "waits"}
    /\ aiTombs \subseteq DOMAIN ops
    /\ DOMAIN told \subseteq DOMAIN ops
    /\ AnswerIsOwn
Safe == target # NoFile \/ \E o \in DOMAIN ops : Held(ops[o])

IInv ==
    /\ FileInv /\ clock \in Times /\ fresh \in 1 .. MaxContent + 1
    /\ link \in [up : BOOLEAN, seen : BOOLEAN, drops : Nat]
    /\ OpsInv /\ EventsInv /\ TabOK(tab) /\ CallsInv /\ Safe

LEMMA Bounds == /\ MaxContent \in Nat \ {0} /\ MaxClock \in Nat \ {0}
BY BoundsAssumption

LEMMA InitIInv == Init => IInv
<1> SUFFICES ASSUME Init PROVE IInv
  OBVIOUS
<1> USE Bounds
<1>1. FileInv /\ clock \in Times /\ fresh \in 1 .. MaxContent + 1 /\ Safe
  BY DEF Init, FileInv, Files, Hands, File, Times, Real, NoFile, Safe
<1>2. link \in [up : BOOLEAN, seen : BOOLEAN, drops : Nat]
  BY DEF Init
<1>3. OpsInv /\ EventsInv
  BY DEF Init, OpsInv, EventsInv
<1>a. 0 \in Contents /\ 0 \in Times /\ 1 \in Times /\ 0 \in Nat /\ 1 \in Nat
  BY DEF Contents, Times
<1>4. TabOK(tab)
  <2>1. NoTab \in Tabs /\ NoTab.op = 0 /\ NoTab.save = "idle"
    BY <1>a, Zenon DEF NoTab, Tabs
  <2>2. tab = [NoTab EXCEPT !.open = TRUE, !.mtime = 1, !.inst = 1, !.knows = TRUE]
    BY DEF Init, OpenedTab
  <2>3. tab \in Tabs
    BY <1>a, <2>1, <2>2 DEF Tabs
  <2>4. tab.op = 0 /\ tab.save = "idle"
    BY <2>1, <2>2 DEF Tabs
  <2>5. QED  BY <2>3, <2>4 DEF TabOK
<1>5. CallsInv
  BY DEF Init, CallsInv, AnswerIsOwn
<1>6. QED  BY <1>1, <1>2, <1>3, <1>4, <1>5 DEF IInv

----------------------------------------------------------------------------
(* A request of the worker *)

\* What every request of operation o does: o becomes x, which has its kind and
\* goes on from a stage that was not the last; its outcome is sent when there
\* is one; the file is there, or held by x, unless it was not there before and
\* o did not hold it.
Becomes(o, x) ==
    /\ x \in Ops /\ OpOK(x)
    /\ ops[o].st # "ended"
    /\ ops' = [ops EXCEPT ![o] = x]
    /\ FileInv' /\ clock' \in Times /\ fresh' = fresh
    /\ \/ target' # NoFile \/ Held(x)
       \/ target = NoFile /\ ~Held(ops[o])
    /\ \/ UNCHANGED events
       \/ x.st = "ended" /\ \E m \in Times :
            events' = Append(events, [kind |-> x.end, op |-> o, m |-> m])

LEMMA SendEvent ==
  ASSUME NEW o, NEW k, NEW m \in Times, NEW x, x.st = "ended", x.end = k,
         Answer(o, k, m)
  PROVE  \/ UNCHANGED events
         \/ x.st = "ended" /\ \E n \in Times :
              events' = Append(events, [kind |-> x.end, op |-> o, m |-> n])
BY DEF Answer

\* A failure keeps what the operation holds.
LEMMA FailBecomes ==
  ASSUME IInv, NEW o \in DOMAIN ops, ops[o].st \notin {"ended", "unbackup"},
         NEW n \in {"none", "tmp"}, Fail(o, n),
         FileInv', clock' \in Times, fresh' = fresh,
         target' # NoFile \/ target = NoFile \/ ops[o].bak # NoFile
  PROVE  \E x : Becomes(o, x)
<1> DEFINE s == TmpLeft(o)
           x == [ops[o] EXCEPT !.st = "ended", !.end = "failed", !.names = n,
                               !.ask = NoAsk, !.tmp = s, !.m = 0]
<1>1. ops[o] \in Ops /\ OpOK(ops[o])
  BY DEF IInv, OpsInv
<1>2. s \in BOOLEAN
  BY <1>1 DEF TmpLeft, Ops
<1>3. ops' = [ops EXCEPT ![o] = x] /\ Answer(o, "failed", 0)
  BY DEF Fail, End
<1>4. NoAsk \in AskSet /\ 0 \in Times
  BY Bounds DEF NoAsk, AskSet, Times, Contents
<1> HIDE DEF s
<1>5. x \in Ops
  BY <1>1, <1>2, <1>4 DEF Ops, Ends
<1>6. x.st = "ended" /\ x.end = "failed" /\ x.bak = ops[o].bak /\ x.kind = ops[o].kind
  BY <1>1 DEF Ops
<1> HIDE DEF x
<1>7. OpOK(x)
  BY <1>1, <1>6 DEF OpOK, WriteStages
<1>8. \/ UNCHANGED events
      \/ x.st = "ended" /\ \E m \in Times :
           events' = Append(events, [kind |-> x.end, op |-> o, m |-> m])
  BY <1>3, <1>4, <1>6, SendEvent
<1>9. Becomes(o, x)
  BY <1>3, <1>5, <1>6, <1>7, <1>8 DEF Becomes, Held
<1>10. QED  BY <1>9

\* A step to another stage that holds what was held.
LEMMA StepBecomes ==
  ASSUME IInv, NEW o \in DOMAIN ops, ops[o].st # "ended",
         NEW st \in WriteStages, Step(o, st), ops[o].kind = "write",
         st \in {"unwrite", "restore"} => ops[o].bak # NoFile,
         FileInv', clock' \in Times, fresh' = fresh, UNCHANGED events,
         \/ target' # NoFile
         \/ st # "unbackup" /\ ops[o].bak # NoFile
         \/ target = NoFile /\ ops[o].bak = NoFile
  PROVE  \E x : Becomes(o, x)
<1> DEFINE x == [ops[o] EXCEPT !.st = st]
<1>1. ops[o] \in Ops /\ OpOK(ops[o])
  BY DEF IInv, OpsInv
<1>2. ops' = [ops EXCEPT ![o] = x]
  BY DEF Step
<1>3. x \in Ops /\ x.st = st /\ x.bak = ops[o].bak /\ x.kind = ops[o].kind /\ x.end = ops[o].end
  BY <1>1 DEF Ops
<1> HIDE DEF x
<1>4. OpOK(x)
  BY <1>1, <1>3 DEF OpOK, WriteStages
<1>5. Becomes(o, x)
  BY <1>2, <1>3, <1>4 DEF Becomes, Held
<1>6. QED  BY <1>5

LEMMA NothingDone ==
  ASSUME IInv, UNCHANGED server
  PROVE  FileInv' /\ clock' \in Times /\ fresh' = fresh /\ target' = target
BY DEF IInv, FileInv, server

LEMMA FilePut ==
  ASSUME NEW f \in Files, Real(f), NEW o, PutFile(o, f)
  PROVE  FileInv' /\ fresh' = fresh /\ target' = f
BY DEF PutFile, FileInv

LEMMA NewFile ==
  ASSUME NEW c \in Contents, NEW m \in Times, NEW by \in Hands
  PROVE  File(c, m, by) \in Files /\ Real(File(c, m, by)) /\ File(c, m, by) # NoFile
<1>1. c \in -2 .. MaxContent /\ c # -2
  BY Bounds DEF Contents
<1>2. QED  BY <1>1 DEF File, Files, Real, NoFile

\* What a write of o puts in place.
LEMMA NewPut ==
  ASSUME NEW o, NEW c \in Contents, NEW m \in Times, PutNew(o, c, m)
  PROVE  FileInv' /\ fresh' = fresh /\ target' # NoFile
<1> DEFINE by == IF o \in TabWrites THEN "tab" ELSE Others(m, c)
<1>1. by \in Hands
  BY DEF Hands, Others
<1>2. PutFile(o, File(c, m, by))
  BY DEF PutNew
<1> HIDE DEF by
<1>3. File(c, m, by) \in Files /\ Real(File(c, m, by)) /\ File(c, m, by) # NoFile
  BY <1>1, NewFile
<1>4. QED  BY <1>2, <1>3, FilePut

LEMMA OldPut ==
  ASSUME NEW o, ops[o].bak \in Files, Real(ops[o].bak), ops[o].bak # NoFile, PutBack(o)
  PROVE  FileInv' /\ fresh' = fresh /\ target' # NoFile
<1> DEFINE f == ops[o].bak
           by == IF f.by = "tab" THEN f.by ELSE Others(f.m, f.c)
           g == [f EXCEPT !.by = by]
<1>1. by \in Hands
  BY DEF Hands, Others
<1>2. PutFile(o, g)
  BY DEF PutBack
<1>3. f \in Files /\ f.c # -2
  BY DEF Real
<1> HIDE DEF f, by
<1>4. g \in Files /\ g.c = f.c
  BY <1>1, <1>3 DEF Files
<1> HIDE DEF g
<1>5. Real(g) /\ g # NoFile
  BY <1>3, <1>4 DEF Real, NoFile
<1>6. QED  BY <1>2, <1>4, <1>5, FilePut

LEMMA FileGone == NoFile \in Files /\ Real(NoFile)
<1>1. -2 \in -2 .. MaxContent /\ 0 \in Times
  BY Bounds DEF Times
<1>2. QED  BY <1>1 DEF NoFile, Files, Real, Hands

\* What is known of an operation that has not ended.
LEMMA OpTypes ==
  ASSUME IInv, NEW o \in DOMAIN ops
  PROVE  /\ ops[o] \in Ops /\ OpOK(ops[o])
         /\ ops[o].c \in Contents /\ ops[o].m \in Times
         /\ ops[o].bak \in Files /\ Real(ops[o].bak)
         /\ ops[o].st \in WriteStages => ops[o].kind = "write"
<1>1. ops[o] \in Ops /\ OpOK(ops[o])
  BY DEF IInv, OpsInv
<1>2. ops[o].c \in Contents /\ ops[o].m \in Times /\ ops[o].bak \in Files
  BY <1>1 DEF Ops
<1>3. QED  BY <1>1, <1>2 DEF OpOK

LEMMA TargetTypes ==
  ASSUME IInv
  PROVE  /\ target \in Files /\ Real(target) /\ target.m \in Times
         /\ target # NoFile => target.c \in Contents
         /\ clock \in Times /\ (Exists <=> target # NoFile)
<1>1. target \in Files /\ Real(target) /\ clock \in Times
  BY DEF IInv, FileInv
<1>2. target.m \in Times /\ target.c \in -2 .. MaxContent
  BY <1>1 DEF Files
<1>3. target # NoFile => target.c \in Contents
  BY <1>1, <1>2 DEF Real, Contents
<1>4. QED  BY <1>1, <1>2, <1>3 DEF Exists

LEMMA StatForReadStep ==
  ASSUME IInv, NEW o \in DOMAIN ops, StatForRead(o)
  PROVE  \E x : Becomes(o, x)
<1>1. PICK r : ops' = [ops EXCEPT ![o].st = "content",
                                  ![o].m = IF r = "ok" THEN target.m ELSE 0]
  BY DEF StatForRead
<1> DEFINE m == IF r = "ok" THEN target.m ELSE 0
           x == [ops[o] EXCEPT !.st = "content", !.m = m]
<1>2. m \in Times
  BY TargetTypes, Bounds DEF Times
<1>3. /\ ops[o].st = "queued" /\ ops[o].kind = "read" /\ UNCHANGED events
      /\ ops' = [ops EXCEPT ![o] = x] /\ UNCHANGED server
  BY <1>1 DEF StatForRead
<1> HIDE DEF m
<1>4. x \in Ops /\ x.st = "content" /\ x.bak = ops[o].bak /\ x.kind = "read" /\ x.end = ops[o].end
  <2>1. PICK u \in Ops : u = ops[o]
    BY OpTypes
  <2> DEFINE y == [u EXCEPT !.st = "content"]
  <2>2. y \in Ops /\ y.st = "content" /\ y.bak = u.bak /\ y.kind = u.kind /\ y.end = u.end
    BY DEF Ops
  <2>3. x = [y EXCEPT !.m = m]
    BY <2>1 DEF Ops
  <2> HIDE DEF x, y
  <2>4. x \in Ops /\ x.st = "content" /\ x.bak = u.bak /\ x.kind = u.kind /\ x.end = u.end
    BY <1>2, <2>2, <2>3 DEF Ops
  <2>5. QED  BY <1>3, <2>1, <2>4
<1> HIDE DEF x
<1>5. OpOK(x) /\ ops[o].bak = NoFile
  BY <1>3, <1>4, OpTypes DEF OpOK, WriteStages
<1>6. target' # NoFile \/ (target = NoFile /\ ~Held(ops[o]))
  BY <1>3, <1>5, NothingDone DEF Held
<1>7. Becomes(o, x)
  BY <1>3, <1>4, <1>5, <1>6, NothingDone DEF Becomes
<1>8. QED  BY <1>7

LEMMA ReadContentStep ==
  ASSUME IInv, NEW o \in DOMAIN ops, ReadContent(o)
  PROVE  \E x : Becomes(o, x)
<1>1. PICK r :
        IF r = "ok" /\ Exists
        THEN /\ ops' = [ops EXCEPT ![o].st = "ended", ![o].end = "opened",
                                   ![o].c = target.c, ![o].m = 0]
             /\ Answer(o, "opened", ops[o].m)
        ELSE Fail(o, "none")
  BY DEF ReadContent
<1>2. /\ ops[o].st = "content" /\ ops[o].kind = "read"
      /\ UNCHANGED <<target, clock, fresh>>
  BY DEF ReadContent
<1>3. FileInv' /\ clock' \in Times /\ fresh' = fresh /\ target' = target
  BY <1>2 DEF IInv, FileInv
<1>4. ops[o].bak = NoFile
  BY <1>2, OpTypes DEF OpOK
<1>5. CASE r = "ok" /\ Exists
  <2> DEFINE x == [ops[o] EXCEPT !.st = "ended", !.end = "opened", !.c = target.c, !.m = 0]
  <2>1. ops' = [ops EXCEPT ![o] = x] /\ Answer(o, "opened", ops[o].m)
    BY <1>1, <1>5
  <2>2. target.c \in Contents /\ 0 \in Times /\ ops[o].m \in Times
    BY <1>5, TargetTypes, OpTypes, Bounds DEF Times
  <2>8. PICK u \in Ops : u = ops[o]
    BY OpTypes
  <2> DEFINE y == [u EXCEPT !.st = "ended"]
             z == [y EXCEPT !.end = "opened"]
             w == [z EXCEPT !.c = target.c]
  <2>9. y \in Ops /\ y.st = "ended" /\ y.bak = u.bak /\ y.kind = u.kind
    BY DEF Ops
  <2>10. x = [w EXCEPT !.m = 0]
    BY <2>8 DEF Ops
  <2> HIDE DEF x, y
  <2>11. z \in Ops /\ z.st = "ended" /\ z.end = "opened" /\ z.bak = u.bak /\ z.kind = u.kind
    BY <2>9 DEF Ops, Ends
  <2> HIDE DEF z
  <2>12. /\ w \in Ops /\ w.st = "ended" /\ w.end = "opened" /\ w.bak = u.bak
         /\ w.kind = u.kind
    BY <2>2, <2>11 DEF Ops
  <2> HIDE DEF w
  <2>3. /\ x \in Ops /\ x.st = "ended" /\ x.end = "opened" /\ x.bak = ops[o].bak
        /\ x.kind = "read"
    BY <1>2, <2>2, <2>8, <2>10, <2>12 DEF Ops
  <2>4. OpOK(x)
    BY <1>4, <2>3, OpTypes DEF OpOK, WriteStages
  <2>5. \/ UNCHANGED events
        \/ x.st = "ended" /\ \E m \in Times :
             events' = Append(events, [kind |-> x.end, op |-> o, m |-> m])
    BY <2>1, <2>2, <2>3, SendEvent
  <2>6. Becomes(o, x)
    BY <1>2, <1>3, <1>4, <2>1, <2>3, <2>4, <2>5 DEF Becomes, Held
  <2>7. QED  BY <2>6
<1>6. CASE ~(r = "ok" /\ Exists)
  BY <1>1, <1>2, <1>3, <1>6, FailBecomes
<1>7. QED  BY <1>5, <1>6

LEMMA CheckStep ==
  ASSUME IInv, NEW o \in DOMAIN ops, Check(o)
  PROVE  \E x : Becomes(o, x)
<1>0. ops[o] \in Ops /\ OpOK(ops[o])
  BY OpTypes
<1>1. PICK r :
        IF Conflicts(o, r)
        THEN End(o, "conflict", "none") /\ Answer(o, "conflict", 0)
        ELSE /\ ops' = [ops EXCEPT ![o].st = "tmp", ![o].ask = NoAsk,
                                   ![o].sneaked = r = "ok" /\ Unseen(o)]
             /\ UNCHANGED events
  BY DEF Check
<1>2. ops[o].st = "queued" /\ ops[o].kind = "write" /\ UNCHANGED server
  BY DEF Check
<1>3. FileInv' /\ clock' \in Times /\ fresh' = fresh /\ target' = target
  BY <1>2, NothingDone
<1>4. NoAsk \in AskSet /\ 0 \in Times
  BY Bounds DEF NoAsk, AskSet, Times, Contents
<1>5. CASE Conflicts(o, r)
  <2> DEFINE s == TmpLeft(o)
             x == [ops[o] EXCEPT !.st = "ended", !.end = "conflict", !.names = "none",
                                 !.ask = NoAsk, !.tmp = s, !.m = 0]
  <2>1. ops' = [ops EXCEPT ![o] = x] /\ Answer(o, "conflict", 0)
    BY <1>1, <1>5 DEF End
  <2>2. s \in BOOLEAN
    BY OpTypes DEF TmpLeft, Ops
  <2> HIDE DEF s
  <2>3. /\ x \in Ops /\ x.st = "ended" /\ x.end = "conflict" /\ x.bak = ops[o].bak
        /\ x.kind = ops[o].kind
    BY <1>0, <1>4, <2>2 DEF Ops, Ends
  <2> HIDE DEF x
  <2>4. OpOK(x)
    BY <1>2, <2>3, OpTypes DEF OpOK, WriteStages
  <2>5. \/ UNCHANGED events
        \/ x.st = "ended" /\ \E m \in Times :
             events' = Append(events, [kind |-> x.end, op |-> o, m |-> m])
    BY <1>4, <2>1, <2>3, SendEvent
  <2>6. Becomes(o, x)
    BY <1>2, <1>3, <2>1, <2>3, <2>4, <2>5 DEF Becomes, Held
  <2>7. QED  BY <2>6
<1>6. CASE ~Conflicts(o, r)
  <2> DEFINE s == r = "ok" /\ Unseen(o)
             x == [ops[o] EXCEPT !.st = "tmp", !.ask = NoAsk, !.sneaked = s]
  <2>1. ops' = [ops EXCEPT ![o] = x] /\ UNCHANGED events
    BY <1>1, <1>6
  <2>2. s \in BOOLEAN
    OBVIOUS
  <2> HIDE DEF s
  <2>3. /\ x \in Ops /\ x.st = "tmp" /\ x.end = ops[o].end /\ x.bak = ops[o].bak
        /\ x.kind = ops[o].kind
    BY <1>0, <1>4, <2>2 DEF Ops, WriteStages
  <2> HIDE DEF x
  <2>4. OpOK(x)
    BY <1>2, <2>3, OpTypes DEF OpOK, WriteStages
  <2>5. Becomes(o, x)
    BY <1>2, <1>3, <2>1, <2>3, <2>4 DEF Becomes, Held
  <2>6. QED  BY <2>5
<1>7. QED  BY <1>5, <1>6

LEMMA WriteTmpStep ==
  ASSUME IInv, NEW o \in DOMAIN ops, WriteTmp(o)
  PROVE  \E x : Becomes(o, x)
<1>0. ops[o] \in Ops /\ OpOK(ops[o])
  BY OpTypes
<1>1. PICK r \in Replies(o) :
        IF writable /\ r = "ok"
        THEN /\ \E now \in 1 .. MaxClock :
                  /\ At(now)
                  /\ ops' = [ops EXCEPT ![o].st = "backup", ![o].tmp = TRUE,
                                        ![o].m = now]
             /\ UNCHANGED events
        ELSE /\ IF r = "ok" THEN Step(o, "inplace") /\ UNCHANGED events
                            ELSE Fail(o, "none")
             /\ UNCHANGED clock
  BY DEF WriteTmp
<1>2. ops[o].st = "tmp" /\ UNCHANGED <<target, fresh>> /\ ops[o].kind = "write"
  BY <1>0 DEF WriteTmp, OpOK, WriteStages
<1>3. FileInv' /\ target' = target /\ fresh' = fresh /\ clock \in Times
  BY <1>2 DEF IInv, FileInv
<1>4. target' # NoFile \/ ops[o].bak # NoFile \/ (target = NoFile /\ ops[o].bak = NoFile)
  BY <1>3
<1>5. CASE writable /\ r = "ok"
  <2>1. PICK now \in 1 .. MaxClock :
          /\ At(now)
          /\ ops' = [ops EXCEPT ![o].st = "backup", ![o].tmp = TRUE, ![o].m = now]
    BY <1>1, <1>5
  <2> DEFINE x == [ops[o] EXCEPT !.st = "backup", !.tmp = TRUE, !.m = now]
  <2>a. now \in Times /\ clock' = now
    BY <2>1, Bounds DEF At, Times
  <2>2. now \in Times /\ clock' = now /\ UNCHANGED events /\ TRUE \in BOOLEAN
    BY <1>1, <1>5, <2>a
  <2>3. ops' = [ops EXCEPT ![o] = x]
    BY <2>1
  <2>4. x \in Ops /\ x.st = "backup" /\ x.bak = ops[o].bak /\ x.end = ops[o].end /\ x.kind = ops[o].kind
    BY <1>0, <2>2 DEF Ops, WriteStages
  <2> HIDE DEF x
  <2>5. OpOK(x)
    BY <1>0, <1>2, <2>4 DEF OpOK, WriteStages
  <2>6. Becomes(o, x)
    BY <1>2, <1>3, <1>4, <2>2, <2>3, <2>4, <2>5 DEF Becomes, Held
  <2>7. QED  BY <2>6
<1>6. CASE ~(writable /\ r = "ok")
  <2>1. clock' \in Times
    BY <1>1, <1>3, <1>6
  <2>2. CASE r = "ok"
    <3>1. Step(o, "inplace") /\ UNCHANGED events /\ "inplace" \in WriteStages
      BY <1>1, <1>6, <2>2 DEF WriteStages
    <3>2. QED  BY <1>2, <1>3, <1>4, <2>1, <3>1, StepBecomes
  <2>3. CASE r # "ok"
    BY <1>1, <1>2, <1>3, <1>6, <2>1, <2>3, FailBecomes
  <2>4. QED  BY <2>2, <2>3
<1>7. QED  BY <1>5, <1>6

\* The write that takes the file away holds it.
LEMMA BackupStep ==
  ASSUME IInv, NEW o \in DOMAIN ops, Backup(o)
  PROVE  \E x : Becomes(o, x)
<1>0. ops[o] \in Ops /\ OpOK(ops[o])
  BY OpTypes
<1>1. PICK r \in Replies(o) :
         IF Exists /\ Done(r)
         THEN /\ PutFile(o, NoFile)
              /\ IF r = "ok"
                 THEN /\ ops' = [ops EXCEPT ![o].st = "swap", ![o].bak = target]
                      /\ UNCHANGED events
                 ELSE /\ ops' = [ops EXCEPT ![o].st = "ended", ![o].tmp = TmpLeft(o),
                           ![o].end = "failed",
                           ![o].bak = target]
                      /\ Answer(o, "failed", 0)
         ELSE /\ IF ~Exists /\ r = "ok"
                 THEN Step(o, "swap") /\ UNCHANGED events
                 ELSE Fail(o, "none")
              /\ UNCHANGED <<target, fresh, disturbed>>
  BY DEF Backup
<1>2. ops[o].st = "backup" /\ UNCHANGED clock /\ ops[o].kind = "write"
  BY <1>0 DEF Backup, OpOK, WriteStages
<1>3. clock' \in Times
  BY <1>2, TargetTypes
<1>4. CASE Exists /\ Done(r)
  <2>1. FileInv' /\ fresh' = fresh /\ target # NoFile /\ target \in Files /\ Real(target)
    BY <1>1, <1>4, FilePut, FileGone, TargetTypes
  <2>2. CASE r = "ok"
    <3> DEFINE x == [ops[o] EXCEPT !.st = "swap", !.bak = target]
    <3>1. ops' = [ops EXCEPT ![o] = x] /\ UNCHANGED events
      BY <1>1, <1>4, <2>2
    <3>2. x \in Ops /\ x.st = "swap" /\ x.bak = target /\ x.end = ops[o].end /\ x.kind = ops[o].kind
      BY <1>0, <2>1 DEF Ops, WriteStages
    <3> HIDE DEF x
    <3>3. OpOK(x) /\ Held(x)
      BY <1>0, <1>2, <2>1, <3>2 DEF OpOK, WriteStages, Held
    <3>4. Becomes(o, x)
      BY <1>2, <1>3, <2>1, <3>1, <3>2, <3>3 DEF Becomes
    <3>5. QED  BY <3>4
  <2>3. CASE r # "ok"
    <3> DEFINE s == TmpLeft(o)
               x == [ops[o] EXCEPT !.st = "ended", !.tmp = s, !.end = "failed", !.bak = target]
    <3>1. ops' = [ops EXCEPT ![o] = x] /\ Answer(o, "failed", 0)
      BY <1>1, <1>4, <2>3
    <3>2. s \in BOOLEAN /\ 0 \in Times
      BY <1>0, Bounds DEF TmpLeft, Ops, Times
    <3> HIDE DEF s
    <3>3. x \in Ops /\ x.st = "ended" /\ x.bak = target /\ x.end = "failed" /\ x.kind = ops[o].kind
      BY <1>0, <2>1, <3>2 DEF Ops, Ends
    <3> HIDE DEF x
    <3>4. OpOK(x) /\ Held(x)
      BY <1>0, <1>2, <2>1, <3>3 DEF OpOK, WriteStages, Held
    <3>5. \/ UNCHANGED events
          \/ x.st = "ended" /\ \E m \in Times :
               events' = Append(events, [kind |-> x.end, op |-> o, m |-> m])
      BY <3>1, <3>2, <3>3, SendEvent
    <3>6. Becomes(o, x)
      BY <1>2, <1>3, <2>1, <3>1, <3>3, <3>4, <3>5 DEF Becomes
    <3>7. QED  BY <3>6
  <2>4. QED  BY <2>2, <2>3
<1>5. CASE ~(Exists /\ Done(r))
  <2>1. FileInv' /\ fresh' = fresh /\ target' = target
    BY <1>1, <1>5 DEF IInv, FileInv
  <2>2. CASE ~Exists /\ r = "ok"
    <3>1. Step(o, "swap") /\ UNCHANGED events /\ "swap" \in WriteStages
      BY <1>1, <1>5, <2>2 DEF WriteStages
    <3>2. target' # NoFile \/ ops[o].bak # NoFile \/ (target = NoFile /\ ops[o].bak = NoFile)
      BY <2>1
    <3>3. QED  BY <1>2, <1>3, <2>1, <3>1, <3>2, StepBecomes
  <2>3. CASE ~(~Exists /\ r = "ok")
    BY <1>1, <1>2, <1>3, <1>5, <2>1, <2>3, FailBecomes
  <2>4. QED  BY <2>2, <2>3
<1>6. QED  BY <1>4, <1>5

LEMMA SwapStep ==
  ASSUME IInv, NEW o \in DOMAIN ops, Swap(o)
  PROVE  \E x : Becomes(o, x)
<1>0. ops[o] \in Ops /\ OpOK(ops[o]) /\ ops[o].c \in Contents /\ ops[o].m \in Times
  BY OpTypes
<1>1. PICK r \in Replies(o) :
        /\ IF Done(r) /\ ~Exists
           THEN PutNew(o, ops[o].c, ops[o].m) /\ UNCHANGED clock
           ELSE UNCHANGED server
        /\ IF Done(r) /\ ~Exists /\ r = "ok"
           THEN ops' = [ops EXCEPT ![o].st = "verify", ![o].tmp = FALSE]
                /\ UNCHANGED events
           ELSE IF HasBackup(o)
           THEN ops' = [ops EXCEPT ![o].st = "restore", ![o].tmp = TmpLeft(o)]
                /\ UNCHANGED events
           ELSE Fail(o, "tmp")
  BY DEF Swap
<1>2. ops[o].st = "swap" /\ ops[o].kind = "write"
  BY <1>0 DEF Swap, OpOK, WriteStages
<1>3. FileInv' /\ clock' \in Times /\ fresh' = fresh
      /\ (target' # NoFile \/ target = NoFile)
      /\ (Done(r) /\ ~Exists => target' # NoFile)
  <2>1. CASE Done(r) /\ ~Exists
    BY <1>0, <1>1, <2>1, NewPut, TargetTypes
  <2>2. CASE ~(Done(r) /\ ~Exists)
    BY <1>1, <2>2, NothingDone
  <2>3. QED  BY <2>1, <2>2
<1>4. CASE Done(r) /\ ~Exists /\ r = "ok"
  <2> DEFINE x == [ops[o] EXCEPT !.st = "verify", !.tmp = FALSE]
  <2>1. ops' = [ops EXCEPT ![o] = x] /\ UNCHANGED events /\ FALSE \in BOOLEAN
    BY <1>1, <1>4
  <2>2. x \in Ops /\ x.st = "verify" /\ x.bak = ops[o].bak /\ x.end = ops[o].end /\ x.kind = ops[o].kind
    BY <1>0, <2>1 DEF Ops, WriteStages
  <2> HIDE DEF x
  <2>3. OpOK(x)
    BY <1>0, <1>2, <2>2 DEF OpOK, WriteStages
  <2>4. Becomes(o, x)
    BY <1>2, <1>3, <1>4, <2>1, <2>2, <2>3 DEF Becomes
  <2>5. QED  BY <2>4
<1>5. CASE ~(Done(r) /\ ~Exists /\ r = "ok") /\ HasBackup(o)
  <2> DEFINE s == TmpLeft(o)
             x == [ops[o] EXCEPT !.st = "restore", !.tmp = s]
  <2>1. ops' = [ops EXCEPT ![o] = x] /\ UNCHANGED events /\ ops[o].bak # NoFile
    BY <1>1, <1>5 DEF HasBackup
  <2>2. s \in BOOLEAN
    BY <1>0 DEF TmpLeft, Ops
  <2> HIDE DEF s
  <2>3. x \in Ops /\ x.st = "restore" /\ x.bak = ops[o].bak /\ x.end = ops[o].end /\ x.kind = ops[o].kind
    BY <1>0, <2>2 DEF Ops, WriteStages
  <2> HIDE DEF x
  <2>4. OpOK(x) /\ Held(x)
    BY <1>0, <1>2, <2>1, <2>3 DEF OpOK, WriteStages, Held
  <2>5. Becomes(o, x)
    BY <1>2, <1>3, <2>1, <2>3, <2>4 DEF Becomes
  <2>6. QED  BY <2>5
<1>6. CASE ~(Done(r) /\ ~Exists /\ r = "ok") /\ ~HasBackup(o)
  <2>1. Fail(o, "tmp")
    BY <1>1, <1>6
  <2>2. QED  BY <1>2, <1>3, <2>1, FailBecomes
<1>7. QED  BY <1>4, <1>5, <1>6

\* The size is right only where the file is there.
LEMMA VerifyStep ==
  ASSUME IInv, NEW o \in DOMAIN ops, Verify(o)
  PROVE  \E x : Becomes(o, x)
<1>0. ops[o] \in Ops /\ OpOK(ops[o])
  BY OpTypes
<1>1. PICK r \in Replies(o), same \in BOOLEAN :
        /\ ~Exists => ~same
        /\ IF r = "ok" /\ same
           THEN Step(o, IF HasBackup(o) THEN "unbackup" ELSE "stat")
                /\ UNCHANGED events
           ELSE IF HasBackup(o)
           THEN Step(o, "unwrite") /\ UNCHANGED events
           ELSE Fail(o, "none")
  BY DEF Verify
<1>2. ops[o].st = "verify" /\ ops[o].kind = "write" /\ UNCHANGED server
  BY <1>0 DEF Verify, OpOK, WriteStages
<1>3. FileInv' /\ clock' \in Times /\ fresh' = fresh /\ target' = target
  BY <1>2, NothingDone
<1>4. CASE r = "ok" /\ same
  <2>1. target' # NoFile
    BY <1>1, <1>3, <1>4 DEF Exists
  <2> DEFINE st == IF HasBackup(o) THEN "unbackup" ELSE "stat"
  <2>2. Step(o, st) /\ UNCHANGED events /\ st \in WriteStages /\ st \notin {"unwrite", "restore"}
    BY <1>1, <1>4 DEF WriteStages
  <2> HIDE DEF st
  <2>3. QED  BY <1>2, <1>3, <2>1, <2>2, StepBecomes
<1>5. CASE ~(r = "ok" /\ same) /\ HasBackup(o)
  <2>1. Step(o, "unwrite") /\ UNCHANGED events /\ "unwrite" \in WriteStages /\ ops[o].bak # NoFile
    BY <1>1, <1>5 DEF WriteStages, HasBackup
  <2>2. QED  BY <1>2, <1>3, <2>1, StepBecomes
<1>6. CASE ~(r = "ok" /\ same) /\ ~HasBackup(o)
  BY <1>1, <1>2, <1>3, <1>6, FailBecomes
<1>7. QED  BY <1>4, <1>5, <1>6

LEMMA UnwriteStep ==
  ASSUME IInv, NEW o \in DOMAIN ops, Unwrite(o)
  PROVE  \E x : Becomes(o, x)
<1>0. ops[o] \in Ops /\ OpOK(ops[o])
  BY OpTypes
<1>1. PICK r \in Replies(o) :
        IF Done(r) /\ Exists
        THEN PutFile(o, NoFile) /\ UNCHANGED clock
        ELSE UNCHANGED server
  BY DEF Unwrite
<1>2. /\ ops[o].st = "unwrite" /\ ops[o].kind = "write" /\ ops[o].bak # NoFile
      /\ Step(o, "restore") /\ UNCHANGED events /\ "restore" \in WriteStages
  BY <1>0 DEF Unwrite, OpOK, WriteStages
<1>3. FileInv' /\ clock' \in Times /\ fresh' = fresh
  <2>1. CASE Done(r) /\ Exists
    BY <1>1, <2>1, FilePut, FileGone, TargetTypes
  <2>2. CASE ~(Done(r) /\ Exists)
    BY <1>1, <2>2, NothingDone
  <2>3. QED  BY <2>1, <2>2
<1>4. QED  BY <1>2, <1>3, StepBecomes

\* The backup is held until it is the file again.
LEMMA RestoreStep ==
  ASSUME IInv, NEW o \in DOMAIN ops, Restore(o)
  PROVE  \E x : Becomes(o, x)
<1>0. ops[o] \in Ops /\ OpOK(ops[o]) /\ ops[o].bak \in Files /\ Real(ops[o].bak)
  BY OpTypes
<1>1. PICK r \in Replies(o) :
        /\ IF Done(r) /\ ~Exists
           THEN PutBack(o) /\ UNCHANGED clock
           ELSE UNCHANGED server
        /\ ops' = [ops EXCEPT ![o].st = "ended", ![o].end = "failed",
                     ![o].names = IF Done(r) /\ ~Exists /\ r = "ok" THEN "none" ELSE "bak",
                     ![o].bak = IF Done(r) /\ ~Exists THEN NoFile ELSE @]
        /\ Answer(o, "failed", 0)
  BY DEF Restore
<1>2. ops[o].st = "restore" /\ ops[o].kind = "write" /\ ops[o].bak # NoFile
  BY <1>0 DEF Restore, OpOK, WriteStages
<1> DEFINE n == IF Done(r) /\ ~Exists /\ r = "ok" THEN "none" ELSE "bak"
           b == IF Done(r) /\ ~Exists THEN NoFile ELSE ops[o].bak
           x == [ops[o] EXCEPT !.st = "ended", !.end = "failed", !.names = n, !.bak = b]
<1>a. 0 \in Times
  BY Bounds DEF Times
<1>3. ops' = [ops EXCEPT ![o] = x] /\ Answer(o, "failed", 0) /\ 0 \in Times
  BY <1>1, <1>a
<1>4. n \in {"none", "bak"} /\ b \in Files /\ Real(b)
  BY <1>0, FileGone
<1>5. FileInv' /\ clock' \in Times /\ fresh' = fresh /\ (b # NoFile \/ target' # NoFile)
  <2>1. CASE Done(r) /\ ~Exists
    BY <1>0, <1>1, <1>2, <2>1, OldPut, TargetTypes
  <2>2. CASE ~(Done(r) /\ ~Exists)
    BY <1>1, <1>2, <2>2, NothingDone
  <2>3. QED  BY <2>1, <2>2
<1> HIDE DEF n, b
<1>6. x \in Ops /\ x.st = "ended" /\ x.bak = b /\ x.end = "failed" /\ x.kind = ops[o].kind
  BY <1>0, <1>4 DEF Ops, Ends
<1> HIDE DEF x
<1>7. OpOK(x)
  BY <1>0, <1>2, <1>4, <1>6 DEF OpOK, WriteStages
<1>8. \/ UNCHANGED events
      \/ x.st = "ended" /\ \E m \in Times :
           events' = Append(events, [kind |-> x.end, op |-> o, m |-> m])
  BY <1>3, <1>6, SendEvent
<1>9. Becomes(o, x)
  BY <1>2, <1>3, <1>5, <1>6, <1>7, <1>8 DEF Becomes, Held
<1>10. QED  BY <1>9

\* A write that drops its backup is not the one that is counted on.
LEMMA RemoveBackupStep ==
  ASSUME IInv, NEW o \in DOMAIN ops, RemoveBackup(o)
  PROVE  \E x : Becomes(o, x)
<1>0. ops[o] \in Ops /\ OpOK(ops[o]) /\ ops[o].bak \in Files
  BY OpTypes
<1>1. PICK r \in Replies(o) :
        ops' = [ops EXCEPT ![o].st = "stat",
                           ![o].bak = IF Done(r) THEN NoFile ELSE @]
  BY DEF RemoveBackup
<1>2. /\ ops[o].st = "unbackup" /\ ops[o].kind = "write" /\ UNCHANGED <<server, events>>
  BY <1>0 DEF RemoveBackup, OpOK, WriteStages
<1> DEFINE b == IF Done(r) THEN NoFile ELSE ops[o].bak
           x == [ops[o] EXCEPT !.st = "stat", !.bak = b]
<1>3. ops' = [ops EXCEPT ![o] = x] /\ b \in Files /\ Real(b)
  BY <1>0, <1>1, FileGone DEF OpOK
<1> HIDE DEF b
<1>4. x \in Ops /\ x.st = "stat" /\ x.bak = b /\ x.end = ops[o].end /\ x.kind = ops[o].kind
  BY <1>0, <1>3 DEF Ops, WriteStages
<1> HIDE DEF x
<1>5. OpOK(x)
  BY <1>0, <1>2, <1>3, <1>4 DEF OpOK, WriteStages
<1>6. FileInv' /\ clock' \in Times /\ fresh' = fresh /\ target' = target /\ ~Held(ops[o])
  BY <1>2, NothingDone DEF Held
<1>7. Becomes(o, x)
  BY <1>2, <1>3, <1>4, <1>5, <1>6 DEF Becomes
<1>8. QED  BY <1>7

LEMMA WriteInPlaceStep ==
  ASSUME IInv, NEW o \in DOMAIN ops, WriteInPlace(o)
  PROVE  \E x : Becomes(o, x)
<1>0. ops[o] \in Ops /\ OpOK(ops[o])
  BY OpTypes
<1>1. PICK r \in Replies(o) :
        /\ IF Exists /\ Done(r)
           THEN \E now \in 1 .. MaxClock : At(now) /\ PutNew(o, Torn, now)
           ELSE UNCHANGED server
        /\ IF Exists /\ r = "ok"
           THEN Step(o, "cut") /\ UNCHANGED events
           ELSE Fail(o, "none")
  BY DEF WriteInPlace
<1>2. ops[o].st = "inplace" /\ ops[o].kind = "write" /\ "cut" \in WriteStages
  BY <1>0 DEF WriteInPlace, OpOK, WriteStages
<1>3. FileInv' /\ clock' \in Times /\ fresh' = fresh
      /\ (target' # NoFile \/ target = NoFile)
  <2>1. CASE Exists /\ Done(r)
    <3>1. PICK now \in 1 .. MaxClock : At(now) /\ PutNew(o, Torn, now)
      BY <1>1, <2>1
    <3>2. now \in Times /\ Torn \in Contents /\ clock' = now
      BY <3>1, Bounds DEF Times, Torn, Contents, At
    <3>3. QED  BY <3>1, <3>2, NewPut
  <2>2. CASE ~(Exists /\ Done(r))
    BY <1>1, <2>2, NothingDone
  <2>3. QED  BY <2>1, <2>2
<1>4. target' # NoFile \/ ops[o].bak # NoFile \/ (target = NoFile /\ ops[o].bak = NoFile)
  BY <1>3
<1>5. CASE Exists /\ r = "ok"
  BY <1>1, <1>2, <1>3, <1>4, <1>5, StepBecomes
<1>6. CASE ~(Exists /\ r = "ok")
  BY <1>1, <1>2, <1>3, <1>6, FailBecomes
<1>7. QED  BY <1>5, <1>6

LEMMA CutStep ==
  ASSUME IInv, NEW o \in DOMAIN ops, Cut(o)
  PROVE  \E x : Becomes(o, x)
<1>0. ops[o] \in Ops /\ OpOK(ops[o]) /\ ops[o].c \in Contents
  BY OpTypes
<1>1. PICK r \in Replies(o) :
        /\ IF Exists /\ Done(r)
           THEN \E now \in 1 .. MaxClock :
                   /\ At(now)
                   /\ PutNew(o, IF target.c = Torn THEN ops[o].c ELSE Torn, now)
           ELSE UNCHANGED server
        /\ IF Exists /\ r = "ok" THEN Step(o, "stat") /\ UNCHANGED events
                                 ELSE Fail(o, "none")
  BY DEF Cut
<1>2. ops[o].st = "cut" /\ ops[o].kind = "write" /\ "stat" \in WriteStages
  BY <1>0 DEF Cut, OpOK, WriteStages
<1>3. FileInv' /\ clock' \in Times /\ fresh' = fresh
      /\ (target' # NoFile \/ target = NoFile)
  <2>1. CASE Exists /\ Done(r)
    <3> DEFINE c == IF target.c = Torn THEN ops[o].c ELSE Torn
    <3>1. PICK now \in 1 .. MaxClock : At(now) /\ PutNew(o, c, now)
      BY <1>1, <2>1
    <3>2. now \in Times /\ c \in Contents /\ clock' = now
      BY <1>0, <3>1, Bounds DEF Times, Torn, Contents, At
    <3> HIDE DEF c
    <3>3. QED  BY <3>1, <3>2, NewPut
  <2>2. CASE ~(Exists /\ Done(r))
    BY <1>1, <2>2, NothingDone
  <2>3. QED  BY <2>1, <2>2
<1>4. target' # NoFile \/ ops[o].bak # NoFile \/ (target = NoFile /\ ops[o].bak = NoFile)
  BY <1>3
<1>5. CASE Exists /\ r = "ok"
  BY <1>1, <1>2, <1>3, <1>4, <1>5, StepBecomes
<1>6. CASE ~(Exists /\ r = "ok")
  BY <1>1, <1>2, <1>3, <1>6, FailBecomes
<1>7. QED  BY <1>5, <1>6

LEMMA StatAfterStep ==
  ASSUME IInv, NEW o \in DOMAIN ops, StatAfter(o)
  PROVE  \E x : Becomes(o, x)
<1>0. ops[o] \in Ops /\ OpOK(ops[o])
  BY OpTypes
<1>1. PICK r \in Replies(o) :
        /\ End(o, "saved", "none")
        /\ Answer(o, "saved", IF r = "ok" THEN target.m ELSE 0)
  BY DEF StatAfter
<1>2. ops[o].st = "stat" /\ ops[o].kind = "write" /\ UNCHANGED server
  BY <1>0 DEF StatAfter, OpOK, WriteStages
<1> DEFINE s == TmpLeft(o)
           m == IF r = "ok" THEN target.m ELSE 0
           x == [ops[o] EXCEPT !.st = "ended", !.end = "saved", !.names = "none",
                               !.ask = NoAsk, !.tmp = s, !.m = 0]
<1>3. ops' = [ops EXCEPT ![o] = x] /\ Answer(o, "saved", m)
  BY <1>1 DEF End
<1>4. s \in BOOLEAN /\ m \in Times /\ 0 \in Times /\ NoAsk \in AskSet
  BY <1>0, TargetTypes, Bounds DEF TmpLeft, Ops, NoAsk, AskSet, Times, Contents
<1> HIDE DEF s, m
<1>5. x \in Ops /\ x.st = "ended" /\ x.end = "saved" /\ x.bak = ops[o].bak /\ x.kind = ops[o].kind
  BY <1>0, <1>4 DEF Ops, Ends
<1> HIDE DEF x
<1>6. OpOK(x)
  BY <1>0, <1>2, <1>5 DEF OpOK, WriteStages
<1>7. \/ UNCHANGED events
      \/ x.st = "ended" /\ \E n \in Times :
           events' = Append(events, [kind |-> x.end, op |-> o, m |-> n])
  BY <1>3, <1>4, <1>5, SendEvent
<1>8. FileInv' /\ clock' \in Times /\ fresh' = fresh /\ target' = target
  BY <1>2, NothingDone
<1>9. Becomes(o, x)
  BY <1>2, <1>3, <1>5, <1>6, <1>7, <1>8 DEF Becomes, Held
<1>10. QED  BY <1>9

LEMMA NoSftpStep ==
  ASSUME IInv, NEW o \in DOMAIN ops, NoSftp(o)
  PROVE  \E x : Becomes(o, x)
<1>1. ops[o].st = "queued" /\ Fail(o, "none") /\ UNCHANGED server
  BY DEF NoSftp
<1>2. QED  BY <1>1, NothingDone, FailBecomes

\* Every request of the worker is one of these.
LEMMA WorkerStep ==
  ASSUME IInv, Worker
  PROVE  \E o \in DOMAIN ops : \E x : Becomes(o, x)
<1>1. PICK o \in DOMAIN ops :
        \/ StatForRead(o) \/ ReadContent(o)
        \/ Check(o) \/ WriteTmp(o) \/ Backup(o) \/ Swap(o) \/ Verify(o)
        \/ Unwrite(o) \/ Restore(o) \/ RemoveBackup(o)
        \/ WriteInPlace(o) \/ Cut(o) \/ StatAfter(o) \/ NoSftp(o)
  BY DEF Worker
<1>2. \E x : Becomes(o, x)
  BY <1>1, StatForReadStep, ReadContentStep, CheckStep, WriteTmpStep, BackupStep,
     SwapStep, VerifyStep, UnwriteStep, RestoreStep, RemoveBackupStep,
     WriteInPlaceStep, CutStep, StatAfterStep, NoSftpStep
<1>3. QED  BY <1>2

----------------------------------------------------------------------------
(* What the other parts of the invariant need of a step *)

\* Operations are added, and go on, but an outcome stays and so does what is
\* held.
Kept ==
    /\ OpsInv' /\ DOMAIN ops \subseteq DOMAIN ops'
    /\ \A o \in DOMAIN ops : ops[o].end # "none" => ops'[o].end = ops[o].end
Quiet ==
    /\ Kept
    /\ \A o \in DOMAIN ops : Held(ops[o]) => Held(ops'[o])

LEMMA EventsKept ==
  ASSUME IInv, Kept, UNCHANGED events
  PROVE  EventsInv'
<1>1. EventsInv
  BY DEF IInv
<1>2. ASSUME NEW i \in DOMAIN events
      PROVE  events[i].op \in DOMAIN ops' /\ ops'[events[i].op].end = events[i].kind
  <2>1. events[i] \in Events /\ events[i].op \in DOMAIN ops
        /\ ops[events[i].op].end = events[i].kind
    BY <1>1 DEF EventsInv
  <2>2. events[i].kind # "none"
    BY <2>1 DEF Events, Ends
  <2>3. QED  BY <2>1, <2>2 DEF Kept
<1>3. QED  BY <1>1, <1>2 DEF EventsInv

LEMMA CallsKept ==
  ASSUME IInv, Kept, UNCHANGED ai
  PROVE  CallsInv'
<1>1. CallsInv /\ calls' = calls /\ aiTombs' = aiTombs /\ told' = told
  BY DEF IInv, ai
<1>2. ASSUME NEW o \in DOMAIN told, told[o] \in Ends
      PROVE  told[o] = ops'[o].end
  <2>1. o \in DOMAIN ops /\ told[o] = ops[o].end
    BY <1>1, <1>2 DEF CallsInv, AnswerIsOwn, Ends
  <2>2. QED  BY <1>2, <2>1 DEF Kept, Ends
<1>3. AnswerIsOwn'
  BY <1>1, <1>2 DEF AnswerIsOwn, Ends
<1>4. QED  BY <1>1, <1>3 DEF CallsInv, Kept

LEMMA SafeKept ==
  ASSUME IInv, Quiet, target' = target \/ target' # NoFile
  PROVE  Safe'
<1>1. CASE target' # NoFile
  BY <1>1 DEF Safe
<1>2. CASE target' = NoFile
  <2>1. PICK o \in DOMAIN ops : Held(ops[o])
    BY <1>2 DEF IInv, Safe
  <2>2. o \in DOMAIN ops' /\ Held(ops'[o])
    BY <2>1 DEF Quiet, Kept
  <2>3. QED  BY <2>2 DEF Safe
<1>3. QED  BY <1>1, <1>2

LEMMA OpsQuiet ==
  ASSUME IInv, UNCHANGED ops
  PROVE  Quiet
BY DEF IInv, OpsInv, Quiet, Kept

LEMMA SendQuiet ==
  ASSUME IInv, NEW x \in Ops, OpOK(x), ops' = Append(ops, x)
  PROVE  Quiet /\ Len(ops) + 1 \in DOMAIN ops' /\ Len(ops) + 1 \notin DOMAIN ops
<1>1. ops \in Seq(Ops) /\ \A o \in DOMAIN ops : OpOK(ops[o])
  BY DEF IInv, OpsInv
<1>2. /\ ops' \in Seq(Ops) /\ DOMAIN ops = 1 .. Len(ops) /\ Len(ops) \in Nat
      /\ DOMAIN ops' = 1 .. Len(ops) + 1
      /\ \A o \in 1 .. Len(ops) : ops'[o] = ops[o]
      /\ ops'[Len(ops) + 1] = x
  BY <1>1
<1>3. ASSUME NEW o \in DOMAIN ops' PROVE OpOK(ops'[o])
  <2>1. o \in DOMAIN ops \/ o = Len(ops) + 1
    BY <1>2
  <2>2. QED  BY <1>1, <1>2, <2>1
<1>4. OpsInv'
  BY <1>2, <1>3 DEF OpsInv
<1>5. DOMAIN ops \subseteq DOMAIN ops' /\ Len(ops) + 1 \in DOMAIN ops' /\ Len(ops) + 1 \notin DOMAIN ops
  BY <1>2
<1>6. QED  BY <1>2, <1>4, <1>5 DEF Quiet, Kept

----------------------------------------------------------------------------
(* The worker keeps the invariant *)

LEMMA BecomesInv ==
  ASSUME IInv, NEW o \in DOMAIN ops, NEW x, Becomes(o, x),
         UNCHANGED <<user, ai, link>>
  PROVE  IInv'
<1>1. /\ ops \in Seq(Ops) /\ \A p \in DOMAIN ops : OpOK(ops[p])
      /\ x \in Ops /\ OpOK(x)
      /\ ops' = [ops EXCEPT ![o] = x]
  BY DEF IInv, OpsInv, Becomes
<1>2. /\ ops' \in Seq(Ops) /\ DOMAIN ops' = DOMAIN ops
      /\ ops'[o] = x /\ \A p \in DOMAIN ops : p # o => ops'[p] = ops[p]
  BY <1>1
<1>3. OpsInv'
  BY <1>1, <1>2 DEF OpsInv
<1>4. ops[o].end = "none"
  BY <1>1 DEF Becomes, OpOK
<1>5. Kept
  BY <1>2, <1>3, <1>4 DEF Kept
<1>6. CallsInv' /\ TabOK(tab)' /\ UNCHANGED link
  BY <1>5, CallsKept DEF IInv, user
<1>7. EventsInv'
  <2>1. CASE UNCHANGED events
    BY <1>5, <2>1, EventsKept
  <2>2. ASSUME x.st = "ended", NEW m \in Times,
               events' = Append(events, [kind |-> x.end, op |-> o, m |-> m])
        PROVE  EventsInv'
    <3> DEFINE e == [kind |-> x.end, op |-> o, m |-> m]
    <3>1. o \in Nat /\ x.end \in Ends
      <4>1. o \in Nat
        BY <1>1
      <4>2. x.end \in Ends
        BY <1>1, <2>2 DEF Ops, OpOK
      <4>3. QED  BY <4>1, <4>2
    <3>2. e \in Events /\ e.op = o /\ e.kind = x.end
      BY <3>1 DEF Events
    <3>3. events \in Seq(Events)
      BY DEF IInv, EventsInv
    <3>4. events' = Append(events, e)
      BY <2>2
    <3> HIDE DEF e
    <3>5. /\ events' \in Seq(Events) /\ DOMAIN events = 1 .. Len(events)
          /\ DOMAIN events' = 1 .. Len(events) + 1 /\ Len(events) \in Nat
          /\ \A i \in 1 .. Len(events) : events'[i] = events[i]
          /\ events'[Len(events) + 1] = e
      BY <3>2, <3>3, <3>4
    <3>6. ASSUME NEW i \in DOMAIN events'
          PROVE  events'[i].op \in DOMAIN ops' /\ ops'[events'[i].op].end = events'[i].kind
      <4>1. CASE i \in DOMAIN events
        <5>1. /\ events'[i] = events[i] /\ events[i] \in Events
              /\ events[i].op \in DOMAIN ops
              /\ ops[events[i].op].end = events[i].kind
          BY <3>3, <3>5, <4>1 DEF IInv, EventsInv
        <5>2. ops[events[i].op].end # "none"
          BY <5>1 DEF Events, Ends
        <5>3. QED  BY <1>5, <5>1, <5>2 DEF Kept
      <4>2. CASE i \notin DOMAIN events
        <5>1. i = Len(events) + 1
          BY <3>5, <4>2
        <5>2. QED  BY <1>2, <3>2, <3>5, <5>1
      <4>3. QED  BY <4>1, <4>2
    <3>7. QED  BY <3>5, <3>6 DEF EventsInv
  <2>3. QED  BY <2>1, <2>2 DEF Becomes
<1>8. Safe'
  <2>1. CASE target' # NoFile
    BY <2>1 DEF Safe
  <2>2. CASE Held(x)
    BY <1>2, <2>2 DEF Safe
  <2>3. CASE target = NoFile /\ ~Held(ops[o])
    <3>1. PICK p \in DOMAIN ops : Held(ops[p])
      BY <2>3 DEF IInv, Safe
    <3>2. ops'[p] = ops[p]
      BY <1>2, <2>3, <3>1
    <3>3. QED  BY <1>2, <3>1, <3>2 DEF Safe
  <2>4. QED  BY <2>1, <2>2, <2>3 DEF Becomes
<1>9. QED  BY <1>3, <1>6, <1>7, <1>8 DEF IInv, Becomes

----------------------------------------------------------------------------
(* What the tab and the calls send *)

LEMMA Zeros == /\ 0 \in Contents /\ 0 \in Times /\ 1 \in Times
               /\ NoFile \in Files /\ NoAsk \in AskSet
<1>1. 0 \in Contents /\ 0 \in Times /\ 1 \in Times
  BY Bounds DEF Contents, Times
<1>2. FALSE \in BOOLEAN
  OBVIOUS
<1>3. NoAsk \in AskSet
  BY <1>1, <1>2 DEF NoAsk, AskSet
<1>4. QED  BY <1>1, <1>3, FileGone

LEMMA NewOpTypes ==
  ASSUME IInv, NEW who \in {"tab", "ai"}, NEW kind \in {"read", "write"},
         NEW c \in Contents, NEW force \in BOOLEAN
  PROVE  NewOp(who, kind, c, force) \in Ops /\ OpOK(NewOp(who, kind, c, force))
<1> DEFINE d == ~link.up
           a == [NoAsk EXCEPT !.force = force]
           g == link.drops
           x == [who |-> who, kind |-> kind, c |-> c, ask |-> a,
                 inst |-> 0, unread |-> FALSE, crossed |-> FALSE, st |-> "queued", m |-> 0,
                 tmp |-> FALSE, bak |-> NoFile, sneaked |-> FALSE, end |-> "none",
                 names |-> "none", heard |-> FALSE, dead |-> d, gen |-> g]
<1>1. NewOp(who, kind, c, force) = x
  BY DEF NewOp
<1>2. d \in BOOLEAN /\ g \in Nat /\ FALSE \in BOOLEAN /\ 0 \in Nat
  BY DEF IInv
<1>3. a \in AskSet
  BY Zeros DEF AskSet
<1>4. "queued" \in WriteStages \union {"queued", "content", "ended"}
  OBVIOUS
<1> HIDE DEF d, a, g
<1>5. x \in Ops
  BY <1>2, <1>3, <1>4, Zeros, Zenon DEF Ops
<1>6. x.st = "queued" /\ x.bak = NoFile /\ x.end = "none"
  OBVIOUS
<1> HIDE DEF x
<1>7. OpOK(x)
  BY <1>6 DEF OpOK, WriteStages, Real
<1>8. QED  BY <1>1, <1>5, <1>7

LEMMA SaveOpTypes ==
  ASSUME IInv, NEW t \in Tabs, NEW force \in BOOLEAN
  PROVE  SaveOp(t, force) \in Ops /\ OpOK(SaveOp(t, force))
<1> DEFINE n == NewOp("tab", "write", t.c, force)
           a == [expect |-> t.mtime, force |-> force, base |-> t.base, knows |-> t.knows]
           u == t.load # 0 /\ ~t.reopening
           v == \E o \in Mine : Live(o)
           x == [n EXCEPT !.ask = a, !.inst = t.inst, !.unread = u, !.crossed = v]
<1>1. SaveOp(t, force) = x
  BY DEF SaveOp
<1>2. /\ t.c \in Contents /\ t.mtime \in Times /\ t.base \in Contents
      /\ t.knows \in BOOLEAN /\ t.inst \in Nat
  BY DEF Tabs
<1>3. n \in Ops /\ OpOK(n)
  BY <1>2, NewOpTypes
<1>4. a \in AskSet
  BY <1>2 DEF AskSet
<1>5. u \in BOOLEAN /\ v \in BOOLEAN
  BY Zenon
<1> HIDE DEF n, a, u, v
<1>6. x \in Ops /\ x.st = n.st /\ x.bak = n.bak /\ x.end = n.end /\ x.kind = n.kind
  BY <1>2, <1>3, <1>4, <1>5 DEF Ops
<1> HIDE DEF x
<1>7. OpOK(x)
  BY <1>3, <1>6 DEF OpOK
<1>8. QED  BY <1>1, <1>6, <1>7

LEMMA BeginSaveTypes ==
  ASSUME IInv, NEW t \in Tabs, NEW close \in BOOLEAN
  PROVE  TabOK(BeginSave(t, close))
<1>1. Len(ops) + 1 \in Nat \ {0} /\ t.ver \in Nat
  BY DEF IInv, OpsInv, Tabs
<1> DEFINE n == Len(ops) + 1
           x == [t EXCEPT !.save = "saving", !.rev = t.ver, !.close = close, !.op = n]
<1>2. BeginSave(t, close) = x
  BY DEF BeginSave
<1>3. n \in Nat \ {0}
  BY <1>1
<1> HIDE DEF n
<1>4. x \in Tabs /\ x.op # 0 /\ x.save = "saving"
  BY <1>1, <1>3 DEF Tabs
<1>5. QED  BY <1>2, <1>4 DEF TabOK

LEMMA TabOps ==
  ASSUME NEW t \in Tabs, NEW m \in Times
  PROVE  /\ TabOK(StopSaving(t))
         /\ NoteMtime(t, m) \in Tabs /\ NoteDiverged(t) \in Tabs /\ MarkSaved(t) \in Tabs
         /\ TabOK(t) => TabOK(NoteLateSave(t, m))
         /\ TabOK(Removed(t))
<1>1. TRUE \in BOOLEAN /\ FALSE \in BOOLEAN /\ 0 \in Nat
  OBVIOUS
<1>2. TabOK(StopSaving(t))
  <2>1. StopSaving(t) \in Tabs /\ StopSaving(t).op = 0 /\ StopSaving(t).save = "idle"
    BY <1>1 DEF StopSaving, Tabs
  <2>2. QED  BY <2>1 DEF TabOK
<1>3. \A u \in Tabs : /\ NoteDiverged(u) \in Tabs
                      /\ NoteDiverged(u).op = u.op /\ NoteDiverged(u).save = u.save
  BY <1>1 DEF NoteDiverged, Tabs
<1>4. MarkSaved(t) \in Tabs
  BY <1>1 DEF MarkSaved, Tabs
<1>5. /\ NoteMtime(t, m) \in Tabs
      /\ NoteMtime(t, m).op = t.op /\ NoteMtime(t, m).save = t.save
  <2> DEFINE k == t.knows \/ m # 0
             n == IF m # 0 THEN m ELSE t.mtime
             x == [t EXCEPT !.mtime = n, !.knows = k]
  <2>1. NoteMtime(t, m) = x
    BY DEF NoteMtime
  <2>2. k \in BOOLEAN /\ n \in Times
    BY DEF Tabs
  <2> HIDE DEF k, n
  <2>3. x \in Tabs /\ x.op = t.op /\ x.save = t.save
    BY <2>2 DEF Tabs
  <2>4. QED  BY <2>1, <2>3
<1>6. TabOK(t) => TabOK(NoteLateSave(t, m))
  BY <1>3, <1>5 DEF NoteLateSave, TabOK
<1>7. TabOK(Removed(t))
  <2>1. NoTab \in Tabs /\ NoTab.op = 0 /\ NoTab.save = "idle"
    BY <1>1, Zeros, Zenon DEF NoTab, Tabs
  <2>2. t.inst \in Nat
    BY DEF Tabs
  <2>3. Removed(t) \in Tabs /\ Removed(t).op = 0 /\ Removed(t).save = "idle"
    BY <2>1, <2>2 DEF Removed, Tabs
  <2>4. QED  BY <2>3 DEF TabOK
<1>8. QED  BY <1>2, <1>3, <1>4, <1>5, <1>6, <1>7

----------------------------------------------------------------------------
(* The user keeps the invariant *)

LEMMA Frame ==
  ASSUME IInv, Quiet, target' = target, clock' = clock,
         fresh' \in 1 .. MaxContent + 1,
         link' \in [up : BOOLEAN, seen : BOOLEAN, drops : Nat],
         EventsInv', TabOK(tab'), CallsInv'
  PROVE  IInv'
<1>1. Safe'
  BY SafeKept
<1>2. FileInv' /\ clock' \in Times /\ OpsInv' /\ TabOK(tab)'
  BY DEF IInv, FileInv, Quiet, Kept
<1>3. QED  BY <1>1, <1>2 DEF IInv

\* A step of the user: the tab, and perhaps an operation sent.
LEMMA UserFrame ==
  ASSUME IInv, Quiet, TabOK(tab'), UNCHANGED <<target, clock, events, ai, link>>,
         fresh' \in 1 .. MaxContent + 1
  PROVE  IInv'
<1>1. EventsInv' /\ CallsInv'
  BY EventsKept, CallsKept DEF Quiet
<1>2. link' \in [up : BOOLEAN, seen : BOOLEAN, drops : Nat]
  BY DEF IInv
<1>3. QED  BY <1>1, <1>2, Frame

LEMMA UserSteps ==
  ASSUME IInv,
         OpenTab \/ Reopen \/ Edit \/ Undo \/ Save \/ Overwrite \/ KeepMine
           \/ CloseClean \/ SaveAndClose \/ Discard \/ SaveTimesOut
  PROVE  IInv'
<1>0. /\ tab \in Tabs /\ TabOK(tab) /\ fresh \in 1 .. MaxContent + 1
      /\ TRUE \in BOOLEAN /\ FALSE \in BOOLEAN /\ Len(ops) + 1 \in Nat
  BY DEF IInv, TabOK, OpsInv
<1>1. CASE OpenTab
  <2>1. Quiet
    <3>1. NewOp("tab", "read", 0, FALSE) \in Ops /\ OpOK(NewOp("tab", "read", 0, FALSE))
      BY <1>0, Zeros, NewOpTypes
    <3>2. QED  BY <1>1, <3>1, SendQuiet DEF OpenTab, Send
  <2>2. TabOK(tab')
    <3>1. NoTab \in Tabs /\ NoTab.op = 0 /\ NoTab.save = "idle"
      BY <1>0, Zeros, Zenon DEF NoTab, Tabs
    <3>2. tab.inst + 1 \in Nat
      BY <1>0 DEF Tabs
    <3> DEFINE n == Len(ops) + 1
               i == tab.inst + 1
    <3>3. tab' = [NoTab EXCEPT !.open = TRUE, !.load = n, !.inst = i]
      BY <1>1 DEF OpenTab
    <3>4. n \in Nat /\ i \in Nat
      BY <1>0, <3>2
    <3> HIDE DEF n, i
    <3>5. tab' \in Tabs /\ tab'.op = 0 /\ tab'.save = "idle"
      BY <1>0, <3>1, <3>3, <3>4 DEF Tabs
    <3>6. QED  BY <3>5 DEF TabOK
  <2>3. QED  BY <1>0, <1>1, <2>1, <2>2, UserFrame DEF OpenTab, server
<1>2. CASE Reopen
  <2>1. Quiet
    <3>1. NewOp("tab", "read", 0, FALSE) \in Ops /\ OpOK(NewOp("tab", "read", 0, FALSE))
      BY <1>0, Zeros, NewOpTypes
    <3>2. QED  BY <1>2, <3>1, SendQuiet DEF Reopen, Send
  <2>2. TabOK(tab')
    <3> DEFINE n == Len(ops) + 1
               i == tab.inst + 1
               e == tab.early \/ Saving
    <3>1. tab' = [tab EXCEPT !.load = n, !.reopening = TRUE, !.inst = i, !.early = e]
      BY <1>2 DEF Reopen
    <3>2. n \in Nat /\ i \in Nat /\ e \in BOOLEAN
      BY <1>0 DEF Tabs
    <3> HIDE DEF n, i, e
    <3>3. tab' \in Tabs /\ tab'.op = tab.op /\ tab'.save = tab.save
      BY <1>0, <3>1, <3>2 DEF Tabs
    <3>4. QED  BY <1>0, <3>3 DEF TabOK
  <2>3. QED  BY <1>0, <1>2, <2>1, <2>2, UserFrame DEF Reopen
<1>3. CASE Edit
  <2>1. Quiet
    BY <1>3, OpsQuiet DEF Edit
  <2>2. fresh \in Contents /\ fresh' \in 1 .. MaxContent + 1
    BY <1>0, <1>3, Bounds DEF Edit, Contents
  <2>3. TabOK(tab')
    <3>1. tab.ver + 1 \in Nat
      BY <1>0 DEF Tabs
    <3>2. tab' \in Tabs /\ tab'.op = tab.op /\ tab'.save = tab.save
      BY <1>0, <1>3, <2>2, <3>1 DEF Edit, Tabs
    <3>3. QED  BY <1>0, <3>2 DEF TabOK
  <2>4. QED  BY <1>3, <2>1, <2>2, <2>3, UserFrame DEF Edit
<1>4. CASE Undo
  <2>1. Quiet
    BY <1>4, OpsQuiet DEF Undo
  <2>2. TabOK(tab')
    <3>1. tab.ver + 1 \in Nat /\ tab.orig \in Contents
      BY <1>0 DEF Tabs
    <3>2. tab' \in Tabs /\ tab'.op = tab.op /\ tab'.save = tab.save
      BY <1>0, <1>4, <3>1 DEF Undo, Tabs
    <3>3. QED  BY <1>0, <3>2 DEF TabOK
  <2>3. QED  BY <1>0, <1>4, <2>1, <2>2, UserFrame DEF Undo, server
<1>5. CASE Save
  <2>1. Quiet
    BY <1>0, <1>5, SaveOpTypes, SendQuiet DEF Save, Send
  <2>2. TabOK(tab')
    BY <1>0, <1>5, BeginSaveTypes DEF Save
  <2>3. QED  BY <1>0, <1>5, <2>1, <2>2, UserFrame DEF Save, server
<1>6. CASE Overwrite
  <2>1. Quiet
    BY <1>0, <1>6, SaveOpTypes, SendQuiet DEF Overwrite, Send
  <2>2. TabOK(tab')
    BY <1>0, <1>6, BeginSaveTypes DEF Overwrite
  <2>3. QED  BY <1>0, <1>6, <2>1, <2>2, UserFrame DEF Overwrite, server
<1>7. CASE KeepMine
  <2>1. Quiet
    BY <1>7, OpsQuiet DEF KeepMine
  <2>2. TabOK(tab')
    <3>1. tab' \in Tabs /\ tab'.op = tab.op /\ tab'.save = "idle" /\ tab.save = "conflict"
      BY <1>0, <1>7 DEF KeepMine, Tabs
    <3>2. QED  BY <1>0, <3>1 DEF TabOK
  <2>3. QED  BY <1>0, <1>7, <2>1, <2>2, UserFrame DEF KeepMine, server
<1>8. CASE CloseClean \/ Discard
  <2>1. Quiet /\ TabOK(tab')
    BY <1>0, <1>8, OpsQuiet, TabOps, Zeros DEF CloseClean, Discard
  <2>2. QED  BY <1>0, <1>8, <2>1, UserFrame DEF CloseClean, Discard, server
<1>9. CASE SaveAndClose
  <2>1. CASE Saving
    <3>1. Quiet
      BY <1>9, <2>1, OpsQuiet DEF SaveAndClose
    <3>2. tab' \in Tabs /\ tab'.op = tab.op /\ tab'.save = tab.save
      <4> DEFINE yes == TRUE
      <4>1. tab' = [tab EXCEPT !.close = yes] /\ yes \in BOOLEAN
        BY <1>9, <2>1 DEF SaveAndClose
      <4> HIDE DEF yes
      <4>2. QED  BY <1>0, <4>1 DEF Tabs
    <3>3. TabOK(tab')
      BY <1>0, <3>2 DEF TabOK
    <3>4. QED  BY <1>0, <1>9, <3>1, <3>3, UserFrame DEF SaveAndClose, server
  <2>2. CASE ~Saving
    <3>1. Quiet
      BY <1>0, <1>9, <2>2, SaveOpTypes, SendQuiet DEF SaveAndClose, Send
    <3>2. TabOK(tab')
      BY <1>0, <1>9, <2>2, BeginSaveTypes DEF SaveAndClose
    <3>3. QED  BY <1>0, <1>9, <3>1, <3>2, UserFrame DEF SaveAndClose, server
  <2>3. QED  BY <2>1, <2>2
<1>10. CASE SaveTimesOut
  <2>1. Quiet /\ TabOK(tab')
    BY <1>0, <1>10, OpsQuiet, TabOps, Zeros DEF SaveTimesOut
  <2>2. QED  BY <1>0, <1>10, <2>1, UserFrame DEF SaveTimesOut, server
<1>11. QED  BY <1>1, <1>2, <1>3, <1>4, <1>5, <1>6, <1>7, <1>8, <1>9, <1>10

LEMMA ForeignEditStep ==
  ASSUME IInv, ForeignEdit
  PROVE  IInv'
<1>1. PICK now \in 1 .. MaxClock :
        At(now) /\ target' = File(fresh, now, Others(now, fresh))
  BY DEF ForeignEdit
<1>2. fresh \in Contents /\ now \in Times /\ clock' = now /\ fresh' \in 1 .. MaxContent + 1
  <2>1. fresh \in 1 .. MaxContent + 1 /\ fresh <= MaxContent /\ fresh' = fresh + 1
    BY DEF IInv, ForeignEdit
  <2>2. QED  BY <1>1, <2>1, Bounds DEF At, Contents, Times
<1>3. FileInv' /\ target' # NoFile
  <2> DEFINE by == Others(now, fresh)
  <2>1. by \in Hands /\ target' = File(fresh, now, by)
    BY <1>1 DEF Hands, Others
  <2> HIDE DEF by
  <2>2. QED  BY <1>2, <2>1, NewFile DEF FileInv
<1>4. Quiet
  BY OpsQuiet DEF ForeignEdit
<1>5. EventsInv' /\ CallsInv'
  BY <1>4, EventsKept, CallsKept DEF Quiet, ForeignEdit
<1>6. Safe' /\ TabOK(tab)'
  BY <1>3, <1>4, SafeKept DEF ForeignEdit, user, IInv
<1>7. QED  BY <1>2, <1>3, <1>4, <1>5, <1>6 DEF IInv, Quiet, Kept, ForeignEdit

----------------------------------------------------------------------------
(* Draining the answers keeps the invariant *)

\* The first answer is the outcome of its operation.
LEMMA FirstAnswer ==
  ASSUME IInv, events # <<>>
  PROVE  /\ Head(events) \in Events /\ Head(events).op \in DOMAIN ops
         /\ Head(events).m \in Times /\ Head(events).kind \in Ends
         /\ ops[Head(events).op].end = Head(events).kind
<1>1. events \in Seq(Events)
  BY DEF IInv, EventsInv
<1>2. Head(events) = events[1] /\ 1 \in DOMAIN events /\ Head(events) \in Events
  BY <1>1
<1>3. QED  BY <1>2 DEF IInv, EventsInv, Events

LEMMA OneChanged ==
  ASSUME IInv, NEW p \in DOMAIN ops, NEW x \in Ops
  PROVE  LET d == [ops EXCEPT ![p] = x]
         IN /\ d \in Seq(Ops) /\ DOMAIN d = DOMAIN ops
            /\ d[p] = x /\ \A o \in DOMAIN ops : o # p => d[o] = ops[o]
<1>1. ops \in Seq(Ops)
  BY DEF IInv, OpsInv
<1>2. QED  BY <1>1

LEMMA HeardQuiet ==
  ASSUME IInv, NEW p \in DOMAIN ops, NEW d, d = [ops EXCEPT ![p].heard = TRUE]
  PROVE  /\ d \in Seq(Ops) /\ DOMAIN d = DOMAIN ops
         /\ \A o \in DOMAIN ops : /\ OpOK(d[o]) /\ d[o].end = ops[o].end
                                  /\ Held(ops[o]) => Held(d[o])
<1>1. ops \in Seq(Ops) /\ \A o \in DOMAIN ops : ops[o] \in Ops /\ OpOK(ops[o])
  BY DEF IInv, OpsInv
<1> DEFINE h == TRUE
           x == [ops[p] EXCEPT !.heard = h]
<1>2. d = [ops EXCEPT ![p] = x] /\ h \in BOOLEAN
  OBVIOUS
<1> HIDE DEF h
<1>3. /\ x \in Ops /\ x.st = ops[p].st /\ x.kind = ops[p].kind
      /\ x.bak = ops[p].bak /\ x.end = ops[p].end
  BY <1>1, <1>2 DEF Ops
<1> HIDE DEF x
<1>4. /\ d \in Seq(Ops) /\ DOMAIN d = DOMAIN ops
      /\ d[p] = x /\ \A o \in DOMAIN ops : o # p => d[o] = ops[o]
  <2>1. LET f == [ops EXCEPT ![p] = x]
        IN /\ f \in Seq(Ops) /\ DOMAIN f = DOMAIN ops
           /\ f[p] = x /\ \A o \in DOMAIN ops : o # p => f[o] = ops[o]
    BY <1>3, OneChanged
  <2>2. QED  BY <1>2, <2>1, Zenon
<1>5. OpOK(x)
  BY <1>1, <1>3 DEF OpOK
<1>6. Held(ops[p]) => Held(x)
  BY <1>3 DEF Held
<1>7. QED  BY <1>1, <1>3, <1>4, <1>5, <1>6

LEMMA TabSavedStep ==
  ASSUME IInv, NEW e \in Events, e.op \in DOMAIN ops, TabSaved(e)
  PROVE  Quiet /\ TabOK(tab')
<1>0. /\ tab \in Tabs /\ TabOK(tab) /\ e.m \in Times /\ TRUE \in BOOLEAN
  BY DEF IInv, TabOK, Events
<1> DEFINE t == NoteMtime(tab, e.m)
           d == [ops EXCEPT ![e.op].heard = TRUE]
<1>1. t \in Tabs
  BY <1>0, TabOps
<1>2. TabOK(SavedNow(e))
  <2>1. TabOK(Removed(t)) /\ NoteDiverged(t) \in Tabs /\ MarkSaved(t) \in Tabs
    BY <1>0, <1>1, TabOps
  <2>2. TabOK(StopSaving(MarkSaved(t))) /\ TabOK(StopSaving(NoteDiverged(t)))
    BY <1>0, <2>1, TabOps
  <2>3. TabOK(BeginSave(NoteDiverged(t), TRUE))
    BY <1>0, <2>1, BeginSaveTypes
  <2> HIDE DEF t
  <2>4. SavedNow(e) = IF Unchanged
           THEN IF tab.close THEN Removed(t) ELSE StopSaving(MarkSaved(t))
           ELSE IF tab.close THEN BeginSave(NoteDiverged(t), TRUE)
           ELSE StopSaving(NoteDiverged(t))
    BY DEF SavedNow, t
  <2>5. QED  BY <2>1, <2>2, <2>3, <2>4
<1>3. TabOK(LateSaved(e))
  BY <1>0, TabOps DEF LateSaved
<1>4. TabOK(tab')
  BY <1>0, <1>2, <1>3 DEF TabSaved
<1>5. /\ d \in Seq(Ops) /\ DOMAIN d = DOMAIN ops
      /\ \A o \in DOMAIN ops : /\ OpOK(d[o]) /\ d[o].end = ops[o].end
                               /\ Held(ops[o]) => Held(d[o])
  BY HeardQuiet
<1>6. ops' = d \/ ops' = Append(d, SaveOp(t, FALSE))
  BY DEF TabSaved
<1>7. SaveOp(t, FALSE) \in Ops /\ OpOK(SaveOp(t, FALSE))
  BY <1>1, SaveOpTypes
<1> DEFINE s == SaveOp(t, FALSE)
<1> HIDE DEF d, t, s
<1>8. CASE ops' = d
  <2>1. OpsInv'
    BY <1>5, <1>8 DEF OpsInv
  <2>2. Kept
    BY <1>5, <1>8, <2>1 DEF Kept
  <2>3. QED  BY <1>4, <1>5, <1>8, <2>2 DEF Quiet
<1>9. CASE ops' = Append(d, s)
  <2>1. s \in Ops /\ OpOK(s)
    BY <1>7 DEF s
  <2>2. /\ ops' \in Seq(Ops) /\ DOMAIN d = 1 .. Len(d) /\ Len(d) \in Nat
        /\ DOMAIN ops' = 1 .. Len(d) + 1
        /\ \A o \in 1 .. Len(d) : ops'[o] = d[o]
        /\ ops'[Len(d) + 1] = s
    BY <1>5, <1>9, <2>1
  <2>3. ASSUME NEW o \in DOMAIN ops' PROVE OpOK(ops'[o])
    <3>1. o \in 1 .. Len(d) \/ o = Len(d) + 1
      BY <2>2
    <3>2. QED  BY <1>5, <2>1, <2>2, <3>1
  <2>4. DOMAIN ops \subseteq DOMAIN ops' /\ \A o \in DOMAIN ops : ops'[o] = d[o]
    BY <1>5, <2>2
  <2>5. OpsInv'
    BY <2>2, <2>3 DEF OpsInv
  <2>6. Kept
    BY <1>5, <2>4, <2>5 DEF Kept
  <2>7. QED  BY <1>4, <1>5, <2>4, <2>6 DEF Quiet
<1>10. QED  BY <1>4, <1>6, <1>8, <1>9 DEF s

LEMMA TabAnswerStep ==
  ASSUME IInv, NEW e \in Events, e.op \in DOMAIN ops, TabAnswer(e)
  PROVE  Quiet /\ TabOK(tab')
<1>0. /\ tab \in Tabs /\ TabOK(tab) /\ e.m \in Times /\ 0 \in Times
      /\ ops[e.op].c \in Contents
  BY OpTypes, Zeros DEF IInv, TabOK, Events
<1>1. CASE TabSaved(e)
  BY <1>1, TabSavedStep
<1>2. TabOK(StopSaving(tab)) /\ TabOK(Removed(tab))
  BY <1>0, TabOps
<1>3. ASSUME tab' = IF ForSave(e) /\ e.op \notin tombs
                    THEN [StopSaving(tab) EXCEPT !.save = "conflict"] ELSE tab
      PROVE  TabOK(tab')
  <2> DEFINE t == StopSaving(tab)
             u == [t EXCEPT !.save = "conflict"]
  <2>1. t \in Tabs /\ t.op = 0
    BY <1>0, <1>2 DEF TabOK, StopSaving, Tabs
  <2> HIDE DEF t
  <2>2. u \in Tabs /\ u.op = 0 /\ u.save = "conflict"
    BY <2>1 DEF Tabs
  <2>3. TabOK(u)
    BY <2>2 DEF TabOK
  <2>4. tab' = u \/ tab' = tab
    BY <1>3 DEF t
  <2>5. QED  BY <1>0, <2>3, <2>4
<1>4. ASSUME tab' = Opened(e)
      PROVE  TabOK(tab')
  <2> DEFINE c == ops[e.op].c
             k == e.m # 0
             y == tab.early \/ Saving
             no == FALSE
             u == [tab EXCEPT !.c = c, !.orig = c, !.div = no,
                     !.ver = 0, !.mtime = e.m, !.load = 0, !.reopening = no,
                     !.base = c, !.knows = k, !.early = y]
             v == [tab EXCEPT !.c = c, !.orig = c, !.base = c, !.mtime = e.m]
             w == [v EXCEPT !.ver = 0, !.load = 0, !.div = no]
  <2>1. tab' = u \/ tab' = tab
    BY <1>4 DEF Opened
  <2>2. /\ k \in BOOLEAN /\ y \in BOOLEAN /\ no \in BOOLEAN /\ c \in Contents /\ 0 \in Nat
        /\ e.m \in Times
    BY <1>0 DEF Tabs
  <2> HIDE DEF c, k, y, no
  <2>6. u = [w EXCEPT !.reopening = no, !.knows = k, !.early = y]
    BY <1>0 DEF Tabs
  <2>7. v \in Tabs /\ v.op = tab.op /\ v.save = tab.save
    BY <1>0, <2>2 DEF Tabs
  <2> HIDE DEF v, u
  <2>8. w \in Tabs /\ w.op = tab.op /\ w.save = tab.save
    BY <2>2, <2>7 DEF Tabs
  <2> HIDE DEF w
  <2>3. u \in Tabs /\ u.op = tab.op /\ u.save = tab.save
    BY <2>2, <2>6, <2>8 DEF Tabs
  <2>4. TabOK(u)
    BY <1>0, <2>3 DEF TabOK
  <2>5. QED  BY <1>0, <2>1, <2>4
<1>5. ASSUME tab' = LoadFailed(e)
      PROVE  TabOK(tab')
  <2> DEFINE u == [tab EXCEPT !.load = 0, !.reopening = FALSE]
  <2>1. u \in Tabs /\ u.op = tab.op /\ u.save = tab.save
    BY <1>0, <1>5 DEF Tabs
  <2>2. TabOK(u)
    BY <1>0, <2>1 DEF TabOK
  <2>3. tab' = u \/ tab' = Removed(tab) \/ tab' = tab
    BY <1>5 DEF LoadFailed
  <2>4. QED  BY <1>0, <1>2, <2>2, <2>3
<1>6. CASE UNCHANGED ops /\ ~TabSaved(e)
  <2>1. Quiet
    BY <1>6, OpsQuiet
  <2>2. \/ tab' = IF ForSave(e) /\ e.op \notin tombs
                  THEN [StopSaving(tab) EXCEPT !.save = "conflict"] ELSE tab
        \/ tab' = IF ForSave(e) /\ e.op \notin tombs THEN StopSaving(tab) ELSE tab
        \/ tab' = Opened(e)
        \/ tab' = LoadFailed(e)
    BY <1>6 DEF TabAnswer
  <2>3. QED  BY <1>0, <1>2, <1>3, <1>4, <1>5, <2>1, <2>2
<1>7. QED  BY <1>1, <1>6 DEF TabAnswer

\* A call is told the outcome of its own operation.
LEMMA TakeAnswerStep ==
  ASSUME IInv, TakeAnswer
  PROVE  IInv'
<1> DEFINE e == Head(events)
<1>1. /\ e \in Events /\ e.op \in DOMAIN ops /\ e.kind \in Ends
      /\ ops[e.op].end = e.kind
  BY FirstAnswer DEF TakeAnswer
<1>2. /\ events # <<>> /\ events' = Tail(events)
      /\ IF e.op \in aiTombs \/ Resolves(e) # {}
         THEN /\ calls' = calls \ Resolves(e)
              /\ told' = [o \in DOMAIN told |->
                             IF o \in Resolves(e) THEN e.kind ELSE told[o]]
              /\ UNCHANGED <<tab, ops>>
         ELSE IF IsTabOp(e)
         THEN TabAnswer(e) /\ UNCHANGED <<calls, told>>
         ELSE UNCHANGED <<tab, ops, calls, told>>
      /\ UNCHANGED <<server, aiTombs, link>>
  BY DEF TakeAnswer
<1> HIDE DEF e
<1>3. TabOK(tab) /\ CallsInv
  BY DEF IInv
<1>4. Quiet /\ TabOK(tab')
  <2>1. CASE UNCHANGED <<tab, ops>>
    BY <1>3, <2>1, OpsQuiet
  <2>2. CASE TabAnswer(e)
    BY <1>1, <2>2, TabAnswerStep
  <2>3. QED  BY <1>2, <2>1, <2>2
<1>5. CallsInv'
  <2>1. CASE UNCHANGED ai
    BY <1>4, <2>1, CallsKept DEF Quiet
  <2>2. CASE /\ calls' = calls \ Resolves(e)
             /\ told' = [o \in DOMAIN told |->
                           IF o \in Resolves(e) THEN e.kind ELSE told[o]]
             /\ UNCHANGED <<tab, ops>>
    <3>1. /\ DOMAIN told' = DOMAIN told
          /\ \A o \in DOMAIN told : told'[o] = IF o \in calls /\ o = e.op THEN e.kind ELSE told[o]
          /\ calls' = calls \ {e.op} /\ ops' = ops /\ aiTombs' = aiTombs
      BY <1>2, <2>2 DEF Resolves
    <3>2. ASSUME NEW o \in DOMAIN told, told'[o] \in Ends
          PROVE  told'[o] = ops[o].end
      BY <1>1, <1>3, <3>1, <3>2 DEF CallsInv, AnswerIsOwn, Ends
    <3>3. AnswerIsOwn'
      BY <3>1, <3>2 DEF AnswerIsOwn, Ends
    <3>4. QED  BY <1>3, <3>1, <3>3 DEF CallsInv
  <2>3. QED  BY <1>2, <2>1, <2>2 DEF ai
<1>6. EventsInv'
  <2>1. events \in Seq(Events)
    BY DEF IInv, EventsInv
  <2>2. /\ events' \in Seq(Events) /\ DOMAIN events = 1 .. Len(events)
        /\ DOMAIN events' = 1 .. Len(events) - 1 /\ Len(events) \in Nat
        /\ \A i \in 1 .. Len(events) - 1 : events'[i] = events[i + 1]
    BY <1>2, <2>1
  <2>3. ASSUME NEW i \in DOMAIN events'
        PROVE  events'[i].op \in DOMAIN ops' /\ ops'[events'[i].op].end = events'[i].kind
    <3>1. i + 1 \in DOMAIN events /\ events'[i] = events[i + 1]
      BY <2>2
    <3>2. /\ events[i + 1] \in Events /\ events[i + 1].op \in DOMAIN ops
          /\ ops[events[i + 1].op].end = events[i + 1].kind
      BY <2>1, <3>1 DEF IInv, EventsInv
    <3>3. ops[events[i + 1].op].end # "none"
      BY <3>2 DEF Events, Ends
    <3>4. QED  BY <1>4, <3>1, <3>2, <3>3 DEF Quiet, Kept
  <2>4. QED  BY <2>2, <2>3 DEF EventsInv
<1>7. /\ target' = target /\ clock' = clock /\ fresh' \in 1 .. MaxContent + 1
      /\ link' \in [up : BOOLEAN, seen : BOOLEAN, drops : Nat]
  BY <1>2 DEF IInv, server
<1>8. QED  BY <1>4, <1>5, <1>6, <1>7, Frame

----------------------------------------------------------------------------
(* The calls and the connection keep the invariant *)

LEMMA CallFileStep ==
  ASSUME IInv, NEW k \in {"read", "write"}, CallFile(k)
  PROVE  IInv'
<1> DEFINE n == Len(ops) + 1
           f == k = "write"
           c == IF k = "write" THEN fresh ELSE 0
           x == NewOp("ai", k, c, f)
<1>1. ops' = Append(ops, x) /\ f \in BOOLEAN
  BY DEF CallFile, Send
<1>2. /\ UNCHANGED <<target, clock, events, tab, aiTombs, link>>
      /\ calls' = calls \union {n}
      /\ told' = [o \in DOMAIN told \union {n} |->
                    IF o \in DOMAIN told THEN told[o] ELSE "waits"]
  BY DEF CallFile, user
<1>3. c \in Contents /\ fresh' \in 1 .. MaxContent + 1
  <2>1. /\ fresh \in 1 .. MaxContent + 1
        /\ k = "write" => fresh <= MaxContent
        /\ fresh' = IF k = "write" THEN fresh + 1 ELSE fresh
    BY DEF IInv, CallFile
  <2>2. QED  BY <2>1, Bounds DEF Contents
<1>4. x \in Ops /\ OpOK(x)
  <2> HIDE DEF c, f
  <2>1. QED  BY <1>1, <1>3, NewOpTypes
<1> HIDE DEF x
<1>5. Quiet /\ n \in DOMAIN ops' /\ n \notin DOMAIN ops
  BY <1>1, <1>4, SendQuiet
<1> HIDE DEF n
<1>6. EventsInv' /\ TabOK(tab')
  BY <1>2, <1>5, EventsKept DEF Quiet, IInv
<1>7. CallsInv'
  <2>1. CallsInv /\ DOMAIN ops \subseteq DOMAIN ops'
        /\ \A o \in DOMAIN ops : ops[o].end # "none" => ops'[o].end = ops[o].end
    BY <1>5 DEF IInv, Quiet, Kept
  <2>2. /\ DOMAIN told' = DOMAIN told \union {n}
        /\ \A o \in DOMAIN told : told'[o] = told[o]
        /\ told'[n] = "waits"
    BY <1>2, <1>5, <2>1 DEF CallsInv
  <2>3. ASSUME NEW o \in DOMAIN told', told'[o] \in Ends
        PROVE  told'[o] = ops'[o].end
    <3>1. o \in DOMAIN told /\ told'[o] = told[o]
      BY <2>2, <2>3 DEF Ends
    <3>2. o \in DOMAIN ops /\ told[o] = ops[o].end
      BY <2>1, <2>3, <3>1 DEF CallsInv, AnswerIsOwn, Ends
    <3>3. QED  BY <2>1, <2>3, <3>1, <3>2 DEF Ends
  <2>4. AnswerIsOwn'
    BY <2>3 DEF AnswerIsOwn, Ends
  <2>5. /\ calls' \intersect aiTombs' = {} /\ aiTombs' \subseteq DOMAIN ops'
        /\ DOMAIN told' \subseteq DOMAIN ops'
    BY <1>2, <1>5, <2>1, <2>2 DEF CallsInv
  <2>6. calls' \subseteq {o \in DOMAIN told' : told'[o] = "waits"}
    BY <1>2, <2>1, <2>2 DEF CallsInv
  <2>7. QED  BY <2>4, <2>5, <2>6 DEF CallsInv
<1>8. link' \in [up : BOOLEAN, seen : BOOLEAN, drops : Nat]
  BY <1>2 DEF IInv
<1>9. QED  BY <1>2, <1>3, <1>5, <1>6, <1>7, <1>8, Frame

LEMMA CallTimesOutStep ==
  ASSUME IInv, CallTimesOut
  PROVE  IInv'
<1>1. PICK o \in calls :
         /\ calls' = calls \ {o}
         /\ aiTombs' = aiTombs \union {o}
         /\ told' = [told EXCEPT ![o] = "timeout"]
  BY DEF CallTimesOut
<1>2. UNCHANGED <<target, clock, fresh, ops, events, tab, link>>
  BY DEF CallTimesOut, server, user
<1>3. Quiet
  BY <1>2, OpsQuiet
<1>4. EventsInv'
  BY <1>2, <1>3, EventsKept DEF Quiet
<1>5. CallsInv'
  <2>1. CallsInv
    BY DEF IInv
  <2>2. /\ o \in DOMAIN told /\ DOMAIN told' = DOMAIN told /\ told'[o] = "timeout"
        /\ \A p \in DOMAIN told : p # o => told'[p] = told[p]
    BY <1>1, <2>1 DEF CallsInv
  <2>3. AnswerIsOwn'
    BY <1>2, <2>1, <2>2 DEF CallsInv, AnswerIsOwn
  <2>4. calls' \subseteq {p \in DOMAIN told' : told'[p] = "waits"}
    BY <1>1, <2>1, <2>2 DEF CallsInv
  <2>5. QED  BY <1>1, <1>2, <2>1, <2>2, <2>3, <2>4 DEF CallsInv
<1>6. QED  BY <1>2, <1>3, <1>4, <1>5, Frame DEF IInv

LEMMA LinkDiesStep ==
  ASSUME IInv, LinkDies
  PROVE  IInv'
<1>1. /\ ops' = [o \in DOMAIN ops |-> [ops[o] EXCEPT !.dead = Live(o)]]
      /\ link' = [link EXCEPT !.up = FALSE]
      /\ UNCHANGED <<target, clock, fresh, events, tab, ai>>
  BY DEF LinkDies, server, user
<1>2. ops \in Seq(Ops) /\ \A o \in DOMAIN ops : ops[o] \in Ops /\ OpOK(ops[o])
  BY DEF IInv, OpsInv
<1>3. ASSUME NEW o \in DOMAIN ops
      PROVE  /\ ops'[o] \in Ops /\ OpOK(ops'[o])
             /\ ops'[o].end = ops[o].end /\ (Held(ops[o]) => Held(ops'[o]))
  <2> DEFINE d == Live(o)
             x == [ops[o] EXCEPT !.dead = d]
  <2>1. ops'[o] = x
    BY <1>1
  <2>2. d \in BOOLEAN
    BY DEF Live
  <2> HIDE DEF d
  <2>3. /\ x \in Ops /\ x.st = ops[o].st /\ x.kind = ops[o].kind
        /\ x.bak = ops[o].bak /\ x.end = ops[o].end
    <3>1. PICK u \in Ops : u = ops[o]
      BY <1>2
    <3>2. x = [u EXCEPT !.dead = d]
      BY <3>1
    <3> HIDE DEF x
    <3>3. x \in Ops /\ x.st = u.st /\ x.kind = u.kind /\ x.bak = u.bak /\ x.end = u.end
      BY <2>2, <3>2 DEF Ops
    <3>4. QED  BY <3>1, <3>3
  <2> HIDE DEF x
  <2>4. QED  BY <1>2, <2>1, <2>3 DEF OpOK, Held
<1>4. DOMAIN ops' = DOMAIN ops /\ ops' \in Seq(Ops)
  <2>1. DOMAIN ops' = DOMAIN ops
    BY <1>1
  <2>2. DOMAIN ops = 1 .. Len(ops) /\ Len(ops) \in Nat
    BY <1>2
  <2>3. ops' = [o \in 1 .. Len(ops) |-> ops'[o]]
    BY <1>1, <2>1, <2>2, Zenon
  <2>4. ops' \in [1 .. Len(ops) -> Ops]
    BY <1>3, <2>2, <2>3
  <2>5. QED  BY <2>1, <2>2, <2>4
<1>5. Kept
  BY <1>3, <1>4 DEF Kept, OpsInv
<1>6. Quiet
  BY <1>3, <1>5 DEF Quiet
<1>7. EventsInv' /\ CallsInv'
  BY <1>1, <1>5, EventsKept, CallsKept
<1>8. link' \in [up : BOOLEAN, seen : BOOLEAN, drops : Nat]
  <2> DEFINE b == FALSE
  <2>1. link' = [link EXCEPT !.up = b] /\ b \in BOOLEAN
    BY <1>1
  <2> HIDE DEF b
  <2>2. QED  BY <2>1 DEF IInv
<1>9. QED  BY <1>1, <1>6, <1>7, <1>8, Frame DEF IInv

LEMMA DisconnectedSteps ==
  ASSUME IInv, SeeDisconnected \/ Reconnect
  PROVE  IInv'
<1>1. /\ UNCHANGED <<target, clock, fresh, ops, tab, aiTombs>>
      /\ calls' = {} /\ (told' = told \/
            told' = [o \in DOMAIN told |-> IF o \in calls THEN "lost" ELSE told[o]])
  BY DEF SeeDisconnected, Reconnect, server, user
<1>2. Quiet
  BY <1>1, OpsQuiet
<1>3. EventsInv'
  <2>1. CASE UNCHANGED events
    BY <1>2, <2>1, EventsKept DEF Quiet
  <2>2. CASE events' = <<>>
    BY <2>2 DEF EventsInv
  <2>3. QED  BY <2>1, <2>2 DEF SeeDisconnected, Reconnect
<1>4. CallsInv'
  <2>1. CallsInv
    BY DEF IInv
  <2>2. /\ DOMAIN told' = DOMAIN told
        /\ \A o \in DOMAIN told : told'[o] = told[o] \/ told'[o] = "lost"
    BY <1>1
  <2>3. AnswerIsOwn'
    BY <1>1, <2>1, <2>2 DEF CallsInv, AnswerIsOwn
  <2>4. QED  BY <1>1, <2>1, <2>2, <2>3 DEF CallsInv
<1>5. link' \in [up : BOOLEAN, seen : BOOLEAN, drops : Nat]
  <2>0. link \in [up : BOOLEAN, seen : BOOLEAN, drops : Nat]
    BY DEF IInv
  <2>1. CASE SeeDisconnected
    <3> DEFINE b == FALSE
    <3>1. link' = [link EXCEPT !.seen = b] /\ b \in BOOLEAN
      BY <2>1 DEF SeeDisconnected
    <3> HIDE DEF b
    <3>2. QED  BY <2>0, <3>1
  <2>2. CASE Reconnect
    <3> DEFINE n == link.drops + 1
    <3>1. link' = [up |-> TRUE, seen |-> TRUE, drops |-> n]
      BY <2>2 DEF Reconnect
    <3>2. n \in Nat /\ TRUE \in BOOLEAN
      BY <2>0
    <3> HIDE DEF n
    <3>3. QED  BY <3>1, <3>2
  <2>3. QED  BY <2>1, <2>2
<1>6. QED  BY <1>1, <1>2, <1>3, <1>4, <1>5, Frame DEF IInv

----------------------------------------------------------------------------
(* Types, the file and the answers *)

LEMMA StepIInv ==
  ASSUME IInv, [Next]_vars
  PROVE  IInv'
<1>1. CASE Worker
  <2>1. PICK o \in DOMAIN ops : \E x : Becomes(o, x)
    BY <1>1, WorkerStep
  <2>2. PICK x : Becomes(o, x)
    BY <2>1
  <2>3. UNCHANGED <<user, ai, link>>
    BY <1>1 DEF Worker
  <2>4. QED  BY <2>2, <2>3, BecomesInv
<1>2. CASE UNCHANGED vars
  <2>1. Quiet /\ UNCHANGED <<target, clock, fresh, events, tab, ai, link>>
    BY <1>2, OpsQuiet DEF vars, ai
  <2>2. EventsInv' /\ CallsInv'
    BY <2>1, EventsKept, CallsKept DEF Quiet
  <2>3. QED  BY <2>1, <2>2, Frame DEF IInv
<1>3. CASE \E k \in {"read", "write"} : CallFile(k)
  BY <1>3, CallFileStep
<1>4. QED
  BY <1>1, <1>2, <1>3, UserSteps, ForeignEditStep, TakeAnswerStep, CallTimesOutStep,
     LinkDiesStep, DisconnectedSteps DEF Next

\* The inductive invariant holds in every behaviour: the file is safe, and the
\* records of operations, events, tab and calls fit one another.
THEOREM Invariance == Spec => []IInv
<1>1. Init => IInv
  BY InitIInv
<1>2. IInv /\ [Next]_vars => IInv'
  BY StepIInv
<1>3. QED  BY <1>1, <1>2, PTL DEF Spec

\* The variables have their types; exactly the operations that have ended have
\* an outcome, the tab knows the number of the save it waits for and of no
\* other, and a call of the AI that waits was neither answered nor given up.
THEOREM TypeCorrect == Spec => []TypeOK
<1>1. ASSUME IInv PROVE TypeOK
  <2>1. target \in [c : -2 .. MaxContent, m : 0 .. MaxClock,
                    by : {"tab", "others", "unnoticed"}]
    BY <1>1 DEF IInv, FileInv, Files, Times, Hands
  <2>2. ASSUME NEW o \in DOMAIN ops
        PROVE  /\ ops[o].end \in {"none", "saved", "conflict", "failed", "opened"}
               /\ Live(o) <=> ops[o].end = "none"
    <3>1. ops[o] \in Ops /\ OpOK(ops[o])
      BY <1>1, OpTypes
    <3>2. QED  BY <3>1 DEF Ops, Ends, OpOK, Live
  <2>3. tab.save \in {"idle", "saving", "conflict"} /\ ((tab.op # 0) <=> Saving)
    BY <1>1 DEF IInv, TabOK, Tabs, Saving
  <2>4. QED  BY <1>1, <2>1, <2>2, <2>3 DEF TypeOK, IInv, CallsInv
<1>2. QED  BY <1>1, Invariance, PTL

\* Nobody deletes the file, so it is there or in the backup of a write at every
\* moment, however many writes of the tab and of the AI run side by side,
\* whichever of their requests fail, take effect without an answer or die with
\* the connection (sftp_write_atomic).
THEOREM FileNeverLost == Spec => []TargetOrBackup
<1>1. ASSUME IInv PROVE TargetOrBackup
  <2>1. CASE target # NoFile
    BY <2>1 DEF TargetOrBackup, Exists
  <2>2. CASE target = NoFile
    <3>1. PICK o \in DOMAIN ops : Held(ops[o])
      BY <1>1, <2>2 DEF IInv, Safe
    <3>2. o \in Writes /\ ops[o].bak # NoFile
      BY <1>1, <3>1, OpTypes DEF Held, OpOK, Writes
    <3>3. QED  BY <3>2 DEF TargetOrBackup
  <2>3. QED  BY <2>1, <2>2
<1>2. QED  BY <1>1, Invariance, PTL

\* A call of the AI is told what became of its own operation, though the tab
\* and other calls read and write the same path at the same time
\* (resolve_file_op).
THEOREM AnswersAreOwn == Spec => []AnswerIsOwn
<1>1. IInv => AnswerIsOwn
  BY DEF IInv, CallsInv
<1>2. QED  BY <1>1, Invariance, PTL

----------------------------------------------------------------------------
(* What others wrote is noticed *)

\* The tab takes the file for its own, or knows second m for another content.
Aware(m, c) == Window \/ Taken(m, c)
SaveStages == {"verify", "unbackup", "cut", "stat"}

\* The seconds an operation has to do with were read from a clock.
Dated(r) ==
    /\ r.bak.by # "tab" => r.bak.m # 0
    /\ r.st \in {"backup", "swap"} => r.m # 0
    /\ r.ask.knows => r.ask.expect # 0

\* While the file holds what others wrote, the tab knows its second for no
\* other content: not now, not from an answer on its way, not in a save that
\* has yet to be checked; and no save of it is about to read the mtime.
NoticeInv ==
    /\ target.by = "others" => ~Aware(target.m, target.c)
    /\ target.by # "tab" => target.m # 0
    /\ \A o \in DOMAIN ops : Dated(ops[o])
    /\ tab.knows => tab.mtime # 0
    /\ NoSilentOverwrite

\* What a request of operation o does beside Becomes.  It stays the same
\* operation;
Fixed(x, y) ==
    /\ x.who = y.who /\ x.kind = y.kind /\ x.inst = y.inst
    /\ x.crossed = y.crossed /\ x.heard = y.heard
    /\ x.c = y.c \/ y.kind = "read"
    /\ x.ask = y.ask \/ x.ask = NoAsk
\* the file is left alone, but for a read that finds what it holds, or is
\* changed by the hand of o, and by others only unseen where the tab is aware;
Touches(o) ==
    \/ UNCHANGED <<target, disturbed>>
    \/ /\ target' = target /\ disturbed' = (disturbed /\ o # tab.load)
       /\ ops'[o].end = "opened" /\ ops'[o].c = target.c
    \/ /\ disturbed' = (disturbed \/ o \notin Mine) /\ ops[o].kind = "write"
       /\ target'.by = "tab" \/ target'.m # 0
       /\ target'.by = "others" => ~Aware(target'.m, target'.c)
\* a write is past its renames with its own content in place, or cuts what it
\* tore;
Put(r) == r.st \in {"verify", "unbackup", "stat"} \/ r.end = "saved"
Places(o) ==
    /\ o \in TabWrites /\ ops'[o].st \in SaveStages =>
         ops[o].st \in SaveStages \/ target'.by = "tab"
    /\ Put(ops'[o]) =>
         \/ Put(ops[o]) /\ target' = target
         \/ target'.c = ops[o].c
         \/ ops[o].st = "cut" /\ (target.c = Torn => target'.c = ops[o].c)
    /\ ops'[o].st = "cut" => target'.c = Torn
\* an answer tells of no second, of the one read before a content, or of the
\* one a write ends with.
Tells(o) ==
    \/ UNCHANGED events
    \/ /\ ops'[o].st = "ended"
       /\ \E m \in Times :
            /\ events' = Append(events, [kind |-> ops'[o].end, op |-> o, m |-> m])
            /\ \/ m = 0 /\ ops'[o].end # "opened"
               \/ ops'[o].end = "opened" /\ ops'[o].c = target.c /\ target' = target
               \/ ops'[o].end = "saved" /\ ops[o].st = "stat" /\ target' = target
Acts(o) ==
    /\ Fixed(ops'[o], ops[o]) /\ Dated(ops'[o])
    /\ o \in TabWrites => ~ops'[o].sneaked
    /\ Touches(o) /\ Places(o) /\ Tells(o)

LEMMA OthersNotAware ==
  ASSUME NEW m, NEW c
  PROVE  /\ Others(m, c) \in {"others", "unnoticed"}
         /\ Others(m, c) = "others" => ~Aware(m, c)
BY DEF Others, Aware

LEMMA KeptTouches ==
  ASSUME NEW o, UNCHANGED server
  PROVE  Touches(o) /\ target' = target
BY DEF Touches, server

LEMMA GoneTouches ==
  ASSUME NEW o, ops[o].kind = "write", PutFile(o, NoFile)
  PROVE  Touches(o)
BY DEF PutFile, Touches, NoFile

LEMMA NewTouches ==
  ASSUME NEW o, ops[o].kind = "write", NEW c, NEW m, m # 0, PutNew(o, c, m)
  PROVE  Touches(o) /\ target'.c = c /\ (o \in TabWrites => target'.by = "tab")
<1> DEFINE by == IF o \in TabWrites THEN "tab" ELSE Others(m, c)
<1>1. target' = File(c, m, by) /\ disturbed' = (disturbed \/ o \notin Mine)
  BY DEF PutNew, PutFile
<1>2. by = "tab" \/ ~(by = "others") \/ ~Aware(m, c)
  BY OthersNotAware
<1>3. o \in TabWrites => by = "tab"
  OBVIOUS
<1> HIDE DEF by
<1>4. target'.c = c /\ target'.m = m /\ target'.by = by
  BY <1>1 DEF File
<1>5. target'.by = "others" => ~Aware(target'.m, target'.c)
  BY <1>2, <1>4
<1>6. Touches(o)
  BY <1>1, <1>4, <1>5 DEF Touches
<1>7. QED  BY <1>3, <1>4, <1>6

LEMMA OldTouches ==
  ASSUME NEW o, ops[o].kind = "write", ops[o].bak \in Files, Dated(ops[o]), PutBack(o)
  PROVE  Touches(o)
<1> DEFINE f == ops[o].bak
           by == IF f.by = "tab" THEN f.by ELSE Others(f.m, f.c)
           g == [f EXCEPT !.by = by]
<1>1. target' = g /\ disturbed' = (disturbed \/ o \notin Mine)
  BY DEF PutBack, PutFile
<1>2. /\ by = "tab" \/ by \in {"others", "unnoticed"}
      /\ by = "others" => ~Aware(f.m, f.c)
      /\ by # "tab" => f.m # 0
      /\ f \in Files
  BY OthersNotAware, Zenon DEF Dated
<1> HIDE DEF f, by
<1>3. g.c = f.c /\ g.m = f.m /\ g.by = by
  BY <1>2 DEF Files
<1> HIDE DEF g
<1>4. target'.by = "others" => ~Aware(target'.m, target'.c)
  BY <1>1, <1>2, <1>3
<1>5. QED  BY <1>1, <1>2, <1>3, <1>4 DEF Touches

\* What is known of the operation that makes a request.
LEMMA ActTypes ==
  ASSUME IInv, NoticeInv, NEW o \in DOMAIN ops
  PROVE  /\ ops \in Seq(Ops) /\ ops[o] \in Ops /\ OpOK(ops[o]) /\ Dated(ops[o])
         /\ ops[o].bak \in Files /\ ops[o].c \in Contents /\ ops[o].m \in Times
         /\ ops[o].st \in WriteStages => ops[o].kind = "write"
         /\ o \in TabWrites => ~ops[o].sneaked
         /\ NoAsk.knows = FALSE /\ NoAsk.expect = 0
<1>1. ops \in Seq(Ops)
  BY DEF IInv, OpsInv
<1>2. Dated(ops[o]) /\ (o \in TabWrites => ~ops[o].sneaked)
  BY DEF NoticeInv, NoSilentOverwrite
<1>3. QED  BY <1>1, <1>2, OpTypes DEF NoAsk

LEMMA FailActs ==
  ASSUME IInv, NoticeInv, NEW o \in DOMAIN ops, ops[o].st # "ended",
         NEW n, Fail(o, n), Touches(o)
  PROVE  Acts(o)
<1> DEFINE s == TmpLeft(o)
           x == [ops[o] EXCEPT !.st = "ended", !.end = "failed", !.names = n,
                               !.ask = NoAsk, !.tmp = s, !.m = 0]
<1>1. ops' = [ops EXCEPT ![o] = x] /\ Answer(o, "failed", 0)
  BY DEF Fail, End
<1>2. ops'[o] = x
  BY <1>1, ActTypes
<1> HIDE DEF s
<1>3. /\ x.who = ops[o].who /\ x.kind = ops[o].kind /\ x.inst = ops[o].inst
      /\ x.crossed = ops[o].crossed /\ x.heard = ops[o].heard /\ x.c = ops[o].c
      /\ x.ask = NoAsk /\ x.bak = ops[o].bak /\ x.st = "ended" /\ x.end = "failed"
      /\ x.sneaked = ops[o].sneaked
  BY ActTypes DEF Ops
<1> HIDE DEF x
<1>4. Fixed(ops'[o], ops[o])
  BY <1>2, <1>3 DEF Fixed
<1>5. Dated(ops'[o]) /\ (o \in TabWrites => ~ops'[o].sneaked)
  BY <1>2, <1>3, ActTypes DEF Dated
<1>6. Places(o)
  BY <1>2, <1>3 DEF Places, Put, SaveStages
<1>7. Tells(o)
  BY <1>1, <1>2, <1>3, Zeros DEF Tells, Answer
<1>8. QED  BY <1>4, <1>5, <1>6, <1>7 DEF Acts

LEMMA StepActs ==
  ASSUME IInv, NoticeInv, NEW o \in DOMAIN ops, ops[o].st # "ended",
         NEW st \in WriteStages \ {"backup"}, Step(o, st), UNCHANGED events, Touches(o),
         st = "swap" => ops[o].st = "backup",
         st \in SaveStages => \/ ops[o].st \in {"verify", "unbackup"} /\ target' = target
                                 /\ st \in {"unbackup", "stat"}
                              \/ st = "cut" /\ target'.c = Torn
                                 /\ (o \in TabWrites => target'.by = "tab")
                              \/ ops[o].st = "cut" /\ st = "stat"
                                 /\ (target.c = Torn => target'.c = ops[o].c)
  PROVE  Acts(o)
<1> DEFINE x == [ops[o] EXCEPT !.st = st]
<1>1. ops' = [ops EXCEPT ![o] = x]
  BY DEF Step
<1>2. ops'[o] = x
  BY <1>1, ActTypes
<1>3. /\ x.who = ops[o].who /\ x.kind = ops[o].kind /\ x.inst = ops[o].inst
      /\ x.crossed = ops[o].crossed /\ x.heard = ops[o].heard /\ x.c = ops[o].c
      /\ x.ask = ops[o].ask /\ x.bak = ops[o].bak /\ x.st = st /\ x.end = ops[o].end
      /\ x.sneaked = ops[o].sneaked /\ x.m = ops[o].m
  BY ActTypes DEF Ops
<1> HIDE DEF x
<1>4. Fixed(ops'[o], ops[o])
  BY <1>2, <1>3 DEF Fixed
<1>a. Dated(ops[o]) /\ (o \in TabWrites => ~ops[o].sneaked)
  BY ActTypes
<1>b. st \in {"backup", "swap"} => ops[o].st = "backup"
  OBVIOUS
<1>5. Dated(ops'[o]) /\ (o \in TabWrites => ~ops'[o].sneaked)
  BY <1>2, <1>3, <1>a, <1>b DEF Dated
<1>6. ops[o].end = "none"
  BY ActTypes DEF OpOK
<1>7. Places(o)
  BY <1>2, <1>3, <1>6 DEF Places, Put, SaveStages, WriteStages
<1>8. QED  BY <1>4, <1>5, <1>7 DEF Acts, Tells

LEMMA StatForReadActs ==
  ASSUME IInv, NoticeInv, NEW o \in DOMAIN ops, StatForRead(o)
  PROVE  Acts(o)
<1>1. PICK r : ops' = [ops EXCEPT ![o].st = "content",
                                  ![o].m = IF r = "ok" THEN target.m ELSE 0]
  BY DEF StatForRead
<1> DEFINE m == IF r = "ok" THEN target.m ELSE 0
           x == [ops[o] EXCEPT !.st = "content", !.m = m]
<1>2. ops[o].st = "queued" /\ UNCHANGED <<server, events>> /\ ops[o].end = "none"
  BY ActTypes DEF StatForRead, OpOK
<1>3. ops'[o] = x
  BY <1>1, ActTypes
<1> HIDE DEF m
<1>4. /\ x.who = ops[o].who /\ x.kind = ops[o].kind /\ x.inst = ops[o].inst
      /\ x.crossed = ops[o].crossed /\ x.heard = ops[o].heard /\ x.c = ops[o].c
      /\ x.ask = ops[o].ask /\ x.bak = ops[o].bak /\ x.st = "content"
      /\ x.end = ops[o].end /\ x.sneaked = ops[o].sneaked
  BY ActTypes DEF Ops
<1> HIDE DEF x
<1>5. Dated(ops[o]) /\ (o \in TabWrites => ~ops[o].sneaked)
  BY ActTypes
<1>6. Fixed(ops'[o], ops[o]) /\ Dated(ops'[o]) /\ (o \in TabWrites => ~ops'[o].sneaked)
  BY <1>3, <1>4, <1>5 DEF Fixed, Dated
<1>7. Places(o)
  BY <1>2, <1>3, <1>4 DEF Places, Put, SaveStages
<1>8. Touches(o) /\ Tells(o)
  BY <1>2, KeptTouches DEF Tells
<1>9. QED  BY <1>6, <1>7, <1>8 DEF Acts

LEMMA ReadContentActs ==
  ASSUME IInv, NoticeInv, NEW o \in DOMAIN ops, ReadContent(o)
  PROVE  Acts(o)
<1>1. PICK r :
        IF r = "ok" /\ Exists
        THEN /\ ops' = [ops EXCEPT ![o].st = "ended", ![o].end = "opened",
                                   ![o].c = target.c, ![o].m = 0]
             /\ Answer(o, "opened", ops[o].m)
             /\ disturbed' = (disturbed /\ o # tab.load)
        ELSE Fail(o, "none") /\ UNCHANGED disturbed
  BY DEF ReadContent
<1>2. /\ ops[o].st = "content" /\ ops[o].kind = "read" /\ target' = target
  BY DEF ReadContent
<1>3. CASE r = "ok" /\ Exists
  <2> DEFINE x == [ops[o] EXCEPT !.st = "ended", !.end = "opened", !.c = target.c, !.m = 0]
  <2>1. ops' = [ops EXCEPT ![o] = x] /\ Answer(o, "opened", ops[o].m)
    BY <1>1, <1>3
  <2>2. ops'[o] = x
    BY <2>1, ActTypes
  <2>3. /\ x.who = ops[o].who /\ x.kind = ops[o].kind /\ x.inst = ops[o].inst
        /\ x.crossed = ops[o].crossed /\ x.heard = ops[o].heard /\ x.c = target.c
        /\ x.ask = ops[o].ask /\ x.bak = ops[o].bak /\ x.st = "ended"
        /\ x.end = "opened" /\ x.sneaked = ops[o].sneaked
    BY ActTypes DEF Ops
  <2> HIDE DEF x
  <2>4. Dated(ops[o]) /\ (o \in TabWrites => ~ops[o].sneaked) /\ ops[o].m \in Times
    BY ActTypes
  <2>5. Fixed(ops'[o], ops[o]) /\ Dated(ops'[o]) /\ (o \in TabWrites => ~ops'[o].sneaked)
    BY <1>2, <2>2, <2>3, <2>4 DEF Fixed, Dated
  <2>6. Places(o)
    BY <2>2, <2>3 DEF Places, Put, SaveStages
  <2>7. Touches(o)
    BY <1>1, <1>2, <1>3, <2>2, <2>3 DEF Touches
  <2>8. Tells(o)
    BY <1>2, <2>1, <2>2, <2>3, <2>4 DEF Tells, Answer
  <2>9. QED  BY <2>5, <2>6, <2>7, <2>8 DEF Acts
<1>4. CASE ~(r = "ok" /\ Exists)
  <2>1. Fail(o, "none") /\ Touches(o)
    BY <1>1, <1>2, <1>4 DEF Touches
  <2>2. QED  BY <1>2, <2>1, FailActs
<1>5. QED  BY <1>3, <1>4

\* A check that is passed over what others wrote knew its second.
LEMMA CheckActs ==
  ASSUME IInv, NoticeInv, NEW o \in DOMAIN ops, Check(o)
  PROVE  Acts(o)
<1>1. PICK r :
        IF Conflicts(o, r)
        THEN End(o, "conflict", "none") /\ Answer(o, "conflict", 0)
        ELSE /\ ops' = [ops EXCEPT ![o].st = "tmp", ![o].ask = NoAsk,
                                   ![o].sneaked = r = "ok" /\ Unseen(o)]
             /\ UNCHANGED events
  BY DEF Check
<1>2. ops[o].st = "queued" /\ UNCHANGED server /\ ops[o].end = "none"
  BY ActTypes DEF Check, OpOK
<1>3. Touches(o)
  BY <1>2, KeptTouches
<1>4. CASE Conflicts(o, r)
  <2> DEFINE s == TmpLeft(o)
             x == [ops[o] EXCEPT !.st = "ended", !.end = "conflict", !.names = "none",
                                 !.ask = NoAsk, !.tmp = s, !.m = 0]
  <2>1. ops' = [ops EXCEPT ![o] = x] /\ Answer(o, "conflict", 0)
    BY <1>1, <1>4 DEF End
  <2>2. ops'[o] = x
    BY <2>1, ActTypes
  <2> HIDE DEF s
  <2>3. /\ x.who = ops[o].who /\ x.kind = ops[o].kind /\ x.inst = ops[o].inst
        /\ x.crossed = ops[o].crossed /\ x.heard = ops[o].heard /\ x.c = ops[o].c
        /\ x.ask = NoAsk /\ x.bak = ops[o].bak /\ x.st = "ended"
        /\ x.end = "conflict" /\ x.sneaked = ops[o].sneaked
    BY ActTypes DEF Ops
  <2> HIDE DEF x
  <2>4. Fixed(ops'[o], ops[o]) /\ Dated(ops'[o]) /\ (o \in TabWrites => ~ops'[o].sneaked)
    BY <2>2, <2>3, ActTypes DEF Fixed, Dated
  <2>5. Places(o)
    BY <2>2, <2>3 DEF Places, Put, SaveStages
  <2>6. Tells(o)
    BY <2>1, <2>2, <2>3, Zeros DEF Tells, Answer
  <2>7. QED  BY <1>3, <2>4, <2>5, <2>6 DEF Acts
<1>5. CASE ~Conflicts(o, r)
  <2> DEFINE s == r = "ok" /\ Unseen(o)
             x == [ops[o] EXCEPT !.st = "tmp", !.ask = NoAsk, !.sneaked = s]
  <2>1. ops' = [ops EXCEPT ![o] = x] /\ UNCHANGED events
    BY <1>1, <1>5
  <2>2. ops'[o] = x
    BY <2>1, ActTypes
  <2>3. ASSUME o \in TabWrites, s PROVE FALSE
    <3>1. /\ ~ops[o].ask.force /\ ops[o].ask.knows /\ r = "ok"
          /\ target.by = "others" /\ target.c # ops[o].ask.base
      BY <2>3 DEF Unseen
    <3>2. Exists
      BY <3>1 DEF Exists, NoFile
    <3>3. ops[o].ask.expect # 0
      BY <3>1, ActTypes DEF Dated
    <3>4. target.m = ops[o].ask.expect
      BY <1>5, <3>1, <3>2, <3>3 DEF Conflicts
    <3>5. Aware(target.m, target.c)
      BY <2>3, <3>1, <3>4 DEF Aware, Taken
    <3>6. QED  BY <3>1, <3>5 DEF NoticeInv
  <2>4. s \in BOOLEAN
    OBVIOUS
  <2> HIDE DEF s
  <2>5. /\ x.who = ops[o].who /\ x.kind = ops[o].kind /\ x.inst = ops[o].inst
        /\ x.crossed = ops[o].crossed /\ x.heard = ops[o].heard /\ x.c = ops[o].c
        /\ x.ask = NoAsk /\ x.bak = ops[o].bak /\ x.st = "tmp"
        /\ x.end = ops[o].end /\ x.sneaked = s
    BY ActTypes DEF Ops
  <2> HIDE DEF x
  <2>6. Fixed(ops'[o], ops[o]) /\ Dated(ops'[o])
    BY <2>2, <2>5, ActTypes DEF Fixed, Dated
  <2>7. o \in TabWrites => ~ops'[o].sneaked
    BY <2>2, <2>3, <2>5
  <2>8. Places(o) /\ Tells(o)
    BY <1>2, <2>1, <2>2, <2>5 DEF Places, Put, SaveStages, Tells
  <2>9. QED  BY <1>3, <2>6, <2>7, <2>8 DEF Acts
<1>6. QED  BY <1>4, <1>5

LEMMA WriteTmpActs ==
  ASSUME IInv, NoticeInv, NEW o \in DOMAIN ops, WriteTmp(o)
  PROVE  Acts(o)
<1>1. PICK r \in Replies(o) :
        IF writable /\ r = "ok"
        THEN /\ \E now \in 1 .. MaxClock :
                  /\ At(now)
                  /\ ops' = [ops EXCEPT ![o].st = "backup", ![o].tmp = TRUE,
                                        ![o].m = now]
             /\ UNCHANGED events
        ELSE IF r = "ok" THEN Step(o, "inplace") /\ UNCHANGED events
                         ELSE Fail(o, "none")
  BY DEF WriteTmp
<1>2. /\ ops[o].st = "tmp" /\ ops[o].end = "none" /\ Touches(o)
  BY ActTypes DEF WriteTmp, OpOK, Touches
<1>3. CASE writable /\ r = "ok"
  <2>1. PICK now \in 1 .. MaxClock :
          ops' = [ops EXCEPT ![o].st = "backup", ![o].tmp = TRUE, ![o].m = now]
    BY <1>1, <1>3
  <2> DEFINE x == [ops[o] EXCEPT !.st = "backup", !.tmp = TRUE, !.m = now]
  <2>2. ops'[o] = x /\ UNCHANGED events
    BY <1>1, <1>3, <2>1, ActTypes
  <2>3. /\ x.who = ops[o].who /\ x.kind = ops[o].kind /\ x.inst = ops[o].inst
        /\ x.crossed = ops[o].crossed /\ x.heard = ops[o].heard /\ x.c = ops[o].c
        /\ x.ask = ops[o].ask /\ x.bak = ops[o].bak /\ x.st = "backup" /\ x.m = now
        /\ x.end = ops[o].end /\ x.sneaked = ops[o].sneaked
    BY ActTypes DEF Ops
  <2> HIDE DEF x
  <2>4. Dated(ops[o]) /\ (o \in TabWrites => ~ops[o].sneaked)
    BY ActTypes
  <2>a. now # 0
    BY Bounds
  <2>5. Fixed(ops'[o], ops[o]) /\ Dated(ops'[o]) /\ (o \in TabWrites => ~ops'[o].sneaked)
    BY <2>2, <2>3, <2>4, <2>a DEF Fixed, Dated
  <2>6. Places(o) /\ Tells(o)
    BY <1>2, <2>2, <2>3 DEF Places, Put, SaveStages, Tells
  <2>7. QED  BY <1>2, <2>5, <2>6 DEF Acts
<1>4. CASE ~(writable /\ r = "ok") /\ r = "ok"
  <2>1. Step(o, "inplace") /\ UNCHANGED events
    BY <1>1, <1>4
  <2>2. "inplace" \in WriteStages \ {"backup"} /\ "inplace" \notin SaveStages
    BY DEF WriteStages, SaveStages
  <2>3. QED  BY <1>2, <2>1, <2>2, StepActs
<1>5. CASE r # "ok"
  BY <1>1, <1>2, <1>5, FailActs
<1>6. QED  BY <1>3, <1>4, <1>5

LEMMA BackupActs ==
  ASSUME IInv, NoticeInv, NEW o \in DOMAIN ops, Backup(o)
  PROVE  Acts(o)
<1>1. PICK r \in Replies(o) :
         IF Exists /\ Done(r)
         THEN /\ PutFile(o, NoFile)
              /\ IF r = "ok"
                 THEN /\ ops' = [ops EXCEPT ![o].st = "swap", ![o].bak = target]
                      /\ UNCHANGED events
                 ELSE /\ ops' = [ops EXCEPT ![o].st = "ended", ![o].tmp = TmpLeft(o),
                           ![o].end = "failed",
                           ![o].bak = target]
                      /\ Answer(o, "failed", 0)
         ELSE /\ IF ~Exists /\ r = "ok"
                 THEN Step(o, "swap") /\ UNCHANGED events
                 ELSE Fail(o, "none")
              /\ UNCHANGED <<target, fresh, disturbed>>
  BY DEF Backup
<1>2. ops[o].st = "backup" /\ ops[o].kind = "write" /\ ops[o].end = "none"
  BY ActTypes DEF Backup, OpOK, WriteStages
<1>3. Touches(o)
  <2>1. CASE Exists /\ Done(r)
    BY <1>1, <1>2, <2>1, GoneTouches
  <2>2. CASE ~(Exists /\ Done(r))
    BY <1>1, <2>2 DEF Touches
  <2>3. QED  BY <2>1, <2>2
<1>4. /\ Dated(ops[o]) /\ (o \in TabWrites => ~ops[o].sneaked)
      /\ target.by # "tab" => target.m # 0
  BY ActTypes DEF NoticeInv
<1>5. CASE Exists /\ Done(r) /\ r = "ok"
  <2> DEFINE x == [ops[o] EXCEPT !.st = "swap", !.bak = target]
  <2>1. ops' = [ops EXCEPT ![o] = x] /\ UNCHANGED events
    BY <1>1, <1>5
  <2>2. ops'[o] = x
    BY <2>1, ActTypes
  <2>3. /\ x.who = ops[o].who /\ x.kind = ops[o].kind /\ x.inst = ops[o].inst
        /\ x.crossed = ops[o].crossed /\ x.heard = ops[o].heard /\ x.c = ops[o].c
        /\ x.ask = ops[o].ask /\ x.bak = target /\ x.st = "swap" /\ x.m = ops[o].m
        /\ x.end = ops[o].end /\ x.sneaked = ops[o].sneaked
    BY ActTypes DEF Ops
  <2> HIDE DEF x
  <2>4. Fixed(ops'[o], ops[o]) /\ Dated(ops'[o]) /\ (o \in TabWrites => ~ops'[o].sneaked)
    BY <1>2, <1>4, <2>2, <2>3 DEF Fixed, Dated
  <2>5. Places(o) /\ Tells(o)
    BY <1>2, <2>1, <2>2, <2>3 DEF Places, Put, SaveStages, Tells
  <2>6. QED  BY <1>3, <2>4, <2>5 DEF Acts
<1>6. CASE Exists /\ Done(r) /\ r # "ok"
  <2> DEFINE s == TmpLeft(o)
             x == [ops[o] EXCEPT !.st = "ended", !.tmp = s, !.end = "failed", !.bak = target]
  <2>1. ops' = [ops EXCEPT ![o] = x] /\ Answer(o, "failed", 0)
    BY <1>1, <1>6
  <2>2. ops'[o] = x
    BY <2>1, ActTypes
  <2> HIDE DEF s
  <2>3. /\ x.who = ops[o].who /\ x.kind = ops[o].kind /\ x.inst = ops[o].inst
        /\ x.crossed = ops[o].crossed /\ x.heard = ops[o].heard /\ x.c = ops[o].c
        /\ x.ask = ops[o].ask /\ x.bak = target /\ x.st = "ended"
        /\ x.end = "failed" /\ x.sneaked = ops[o].sneaked
    BY ActTypes DEF Ops
  <2> HIDE DEF x
  <2>4. Fixed(ops'[o], ops[o]) /\ Dated(ops'[o]) /\ (o \in TabWrites => ~ops'[o].sneaked)
    BY <1>2, <1>4, <2>2, <2>3 DEF Fixed, Dated
  <2>5. Places(o)
    BY <1>2, <2>2, <2>3 DEF Places, Put, SaveStages
  <2>6. Tells(o)
    BY <2>1, <2>2, <2>3, Zeros DEF Tells, Answer
  <2>7. QED  BY <1>3, <2>4, <2>5, <2>6 DEF Acts
<1>7. CASE ~(Exists /\ Done(r)) /\ ~Exists /\ r = "ok"
  <2>1. Step(o, "swap") /\ UNCHANGED events
    BY <1>1, <1>7
  <2>2. "swap" \in WriteStages \ {"backup"} /\ "swap" \notin SaveStages
    BY DEF WriteStages, SaveStages
  <2>3. QED  BY <1>2, <1>3, <2>1, <2>2, StepActs
<1>8. CASE ~(Exists /\ Done(r)) /\ ~(~Exists /\ r = "ok")
  <2>1. Fail(o, "none")
    BY <1>1, <1>8
  <2>2. QED  BY <1>2, <1>3, <2>1, FailActs
<1>9. QED  BY <1>5, <1>6, <1>7, <1>8

LEMMA SwapActs ==
  ASSUME IInv, NoticeInv, NEW o \in DOMAIN ops, Swap(o)
  PROVE  Acts(o)
<1>1. PICK r \in Replies(o) :
        /\ IF Done(r) /\ ~Exists
           THEN PutNew(o, ops[o].c, ops[o].m) /\ UNCHANGED clock
           ELSE UNCHANGED server
        /\ IF Done(r) /\ ~Exists /\ r = "ok"
           THEN ops' = [ops EXCEPT ![o].st = "verify", ![o].tmp = FALSE]
                /\ UNCHANGED events
           ELSE IF HasBackup(o)
           THEN ops' = [ops EXCEPT ![o].st = "restore", ![o].tmp = TmpLeft(o)]
                /\ UNCHANGED events
           ELSE Fail(o, "tmp")
  BY DEF Swap
<1>2. /\ ops[o].st = "swap" /\ ops[o].kind = "write" /\ ops[o].end = "none"
      /\ Dated(ops[o]) /\ (o \in TabWrites => ~ops[o].sneaked)
  BY ActTypes DEF Swap, OpOK, WriteStages
<1>3. ops[o].m # 0
  BY <1>2 DEF Dated
<1>4. /\ Touches(o)
      /\ Done(r) /\ ~Exists => target'.c = ops[o].c /\ (o \in TabWrites => target'.by = "tab")
  <2>1. CASE Done(r) /\ ~Exists
    BY <1>1, <1>2, <1>3, <2>1, NewTouches
  <2>2. CASE ~(Done(r) /\ ~Exists)
    BY <1>1, <2>2, KeptTouches
  <2>3. QED  BY <2>1, <2>2
<1>5. CASE Done(r) /\ ~Exists /\ r = "ok"
  <2> DEFINE x == [ops[o] EXCEPT !.st = "verify", !.tmp = FALSE]
  <2>1. ops'[o] = x /\ UNCHANGED events
    BY <1>1, <1>5, ActTypes
  <2>2. /\ x.who = ops[o].who /\ x.kind = ops[o].kind /\ x.inst = ops[o].inst
        /\ x.crossed = ops[o].crossed /\ x.heard = ops[o].heard /\ x.c = ops[o].c
        /\ x.ask = ops[o].ask /\ x.bak = ops[o].bak /\ x.st = "verify"
        /\ x.end = ops[o].end /\ x.sneaked = ops[o].sneaked
    BY ActTypes DEF Ops
  <2> HIDE DEF x
  <2>3. Fixed(ops'[o], ops[o]) /\ Dated(ops'[o]) /\ (o \in TabWrites => ~ops'[o].sneaked)
    BY <1>2, <2>1, <2>2 DEF Fixed, Dated
  <2>4. Places(o) /\ Tells(o)
    BY <1>4, <1>5, <2>1, <2>2 DEF Places, Tells
  <2>5. QED  BY <1>4, <2>3, <2>4 DEF Acts
<1>6. CASE ~(Done(r) /\ ~Exists /\ r = "ok") /\ HasBackup(o)
  <2> DEFINE s == TmpLeft(o)
             x == [ops[o] EXCEPT !.st = "restore", !.tmp = s]
  <2>1. ops'[o] = x /\ UNCHANGED events
    BY <1>1, <1>6, ActTypes
  <2> HIDE DEF s
  <2>2. /\ x.who = ops[o].who /\ x.kind = ops[o].kind /\ x.inst = ops[o].inst
        /\ x.crossed = ops[o].crossed /\ x.heard = ops[o].heard /\ x.c = ops[o].c
        /\ x.ask = ops[o].ask /\ x.bak = ops[o].bak /\ x.st = "restore"
        /\ x.end = ops[o].end /\ x.sneaked = ops[o].sneaked
    BY ActTypes DEF Ops
  <2> HIDE DEF x
  <2>3. Fixed(ops'[o], ops[o]) /\ Dated(ops'[o]) /\ (o \in TabWrites => ~ops'[o].sneaked)
    BY <1>2, <2>1, <2>2 DEF Fixed, Dated
  <2>4. Places(o) /\ Tells(o)
    BY <1>2, <2>1, <2>2 DEF Places, Put, SaveStages, Tells
  <2>5. QED  BY <1>4, <2>3, <2>4 DEF Acts
<1>7. CASE ~(Done(r) /\ ~Exists /\ r = "ok") /\ ~HasBackup(o)
  <2>1. Fail(o, "tmp")
    BY <1>1, <1>7
  <2>2. QED  BY <1>2, <1>4, <2>1, FailActs
<1>8. QED  BY <1>5, <1>6, <1>7

LEMMA VerifyActs ==
  ASSUME IInv, NoticeInv, NEW o \in DOMAIN ops, Verify(o)
  PROVE  Acts(o)
<1>1. PICK r \in Replies(o), same \in BOOLEAN :
        IF r = "ok" /\ same
        THEN Step(o, IF HasBackup(o) THEN "unbackup" ELSE "stat")
             /\ UNCHANGED events
        ELSE IF HasBackup(o)
        THEN Step(o, "unwrite") /\ UNCHANGED events
        ELSE Fail(o, "none")
  BY DEF Verify
<1>2. ops[o].st = "verify" /\ Touches(o) /\ target' = target
  BY KeptTouches DEF Verify
<1>3. CASE r = "ok" /\ same
  <2> DEFINE st == IF HasBackup(o) THEN "unbackup" ELSE "stat"
  <2>1. /\ Step(o, st) /\ UNCHANGED events /\ st \in {"unbackup", "stat"}
        /\ st \in WriteStages \ {"backup"}
    BY <1>1, <1>3 DEF WriteStages
  <2> HIDE DEF st
  <2>2. QED  BY <1>2, <2>1, StepActs
<1>4. CASE ~(r = "ok" /\ same) /\ HasBackup(o)
  <2>1. Step(o, "unwrite") /\ UNCHANGED events
    BY <1>1, <1>4
  <2>2. "unwrite" \in WriteStages \ {"backup"} /\ "unwrite" \notin SaveStages
    BY DEF WriteStages, SaveStages
  <2>3. QED  BY <1>2, <2>1, <2>2, StepActs
<1>5. CASE ~(r = "ok" /\ same) /\ ~HasBackup(o)
  <2>1. Fail(o, "none")
    BY <1>1, <1>5
  <2>2. QED  BY <1>2, <2>1, FailActs
<1>6. QED  BY <1>3, <1>4, <1>5

LEMMA UnwriteActs ==
  ASSUME IInv, NoticeInv, NEW o \in DOMAIN ops, Unwrite(o)
  PROVE  Acts(o)
<1>1. PICK r \in Replies(o) :
        IF Done(r) /\ Exists
        THEN PutFile(o, NoFile) /\ UNCHANGED clock
        ELSE UNCHANGED server
  BY DEF Unwrite
<1>2. /\ ops[o].st = "unwrite" /\ ops[o].kind = "write"
      /\ Step(o, "restore") /\ UNCHANGED events
  BY ActTypes DEF Unwrite, WriteStages
<1>3. Touches(o)
  BY <1>1, <1>2, GoneTouches, KeptTouches
<1>4. "restore" \in WriteStages \ {"backup"} /\ "restore" \notin SaveStages
  BY DEF WriteStages, SaveStages
<1>5. QED  BY <1>2, <1>3, <1>4, StepActs

LEMMA RestoreActs ==
  ASSUME IInv, NoticeInv, NEW o \in DOMAIN ops, Restore(o)
  PROVE  Acts(o)
<1>1. PICK r \in Replies(o) :
        /\ IF Done(r) /\ ~Exists
           THEN PutBack(o) /\ UNCHANGED clock
           ELSE UNCHANGED server
        /\ ops' = [ops EXCEPT ![o].st = "ended", ![o].end = "failed",
                     ![o].names = IF Done(r) /\ ~Exists /\ r = "ok" THEN "none" ELSE "bak",
                     ![o].bak = IF Done(r) /\ ~Exists THEN NoFile ELSE @]
        /\ Answer(o, "failed", 0)
  BY DEF Restore
<1>2. /\ ops[o].st = "restore" /\ ops[o].kind = "write" /\ ops[o].bak \in Files
      /\ Dated(ops[o]) /\ (o \in TabWrites => ~ops[o].sneaked)
  BY ActTypes DEF Restore, WriteStages
<1> DEFINE n == IF Done(r) /\ ~Exists /\ r = "ok" THEN "none" ELSE "bak"
           b == IF Done(r) /\ ~Exists THEN NoFile ELSE ops[o].bak
           x == [ops[o] EXCEPT !.st = "ended", !.end = "failed", !.names = n, !.bak = b]
<1>3. ops'[o] = x /\ Answer(o, "failed", 0)
  BY <1>1, ActTypes
<1>4. Touches(o)
  BY <1>1, <1>2, OldTouches, KeptTouches
<1>5. b = ops[o].bak \/ b.by = "tab"
  BY DEF NoFile
<1> HIDE DEF n, b
<1>6. /\ x.who = ops[o].who /\ x.kind = ops[o].kind /\ x.inst = ops[o].inst
      /\ x.crossed = ops[o].crossed /\ x.heard = ops[o].heard /\ x.c = ops[o].c
      /\ x.ask = ops[o].ask /\ x.bak = b /\ x.st = "ended"
      /\ x.end = "failed" /\ x.sneaked = ops[o].sneaked
  BY ActTypes DEF Ops
<1> HIDE DEF x
<1>7. Fixed(ops'[o], ops[o]) /\ Dated(ops'[o]) /\ (o \in TabWrites => ~ops'[o].sneaked)
  BY <1>2, <1>3, <1>5, <1>6 DEF Fixed, Dated
<1>8. Places(o)
  BY <1>3, <1>6 DEF Places, Put, SaveStages
<1>9. Tells(o)
  BY <1>3, <1>6, Zeros DEF Tells, Answer
<1>10. QED  BY <1>4, <1>7, <1>8, <1>9 DEF Acts

LEMMA RemoveBackupActs ==
  ASSUME IInv, NoticeInv, NEW o \in DOMAIN ops, RemoveBackup(o)
  PROVE  Acts(o)
<1>1. PICK r \in Replies(o) :
        ops' = [ops EXCEPT ![o].st = "stat",
                           ![o].bak = IF Done(r) THEN NoFile ELSE @]
  BY DEF RemoveBackup
<1>2. /\ ops[o].st = "unbackup" /\ UNCHANGED <<server, events>>
      /\ Dated(ops[o]) /\ (o \in TabWrites => ~ops[o].sneaked)
  BY ActTypes DEF RemoveBackup
<1> DEFINE b == IF Done(r) THEN NoFile ELSE ops[o].bak
           x == [ops[o] EXCEPT !.st = "stat", !.bak = b]
<1>3. ops'[o] = x
  BY <1>1, ActTypes
<1>4. b = ops[o].bak \/ b.by = "tab"
  BY DEF NoFile
<1> HIDE DEF b
<1>5. /\ x.who = ops[o].who /\ x.kind = ops[o].kind /\ x.inst = ops[o].inst
      /\ x.crossed = ops[o].crossed /\ x.heard = ops[o].heard /\ x.c = ops[o].c
      /\ x.ask = ops[o].ask /\ x.bak = b /\ x.st = "stat"
      /\ x.end = ops[o].end /\ x.sneaked = ops[o].sneaked
  BY ActTypes DEF Ops
<1> HIDE DEF x
<1>6. Fixed(ops'[o], ops[o]) /\ Dated(ops'[o]) /\ (o \in TabWrites => ~ops'[o].sneaked)
  BY <1>2, <1>3, <1>4, <1>5 DEF Fixed, Dated
<1>7. Touches(o) /\ target' = target
  BY <1>2, KeptTouches
<1>8. Places(o) /\ Tells(o)
  BY <1>2, <1>3, <1>5, <1>7 DEF Places, Put, SaveStages, Tells
<1>9. QED  BY <1>6, <1>7, <1>8 DEF Acts

LEMMA WriteInPlaceActs ==
  ASSUME IInv, NoticeInv, NEW o \in DOMAIN ops, WriteInPlace(o)
  PROVE  Acts(o)
<1>1. PICK r \in Replies(o) :
        /\ IF Exists /\ Done(r)
           THEN \E now \in 1 .. MaxClock : At(now) /\ PutNew(o, Torn, now)
           ELSE UNCHANGED server
        /\ IF Exists /\ r = "ok"
           THEN Step(o, "cut") /\ UNCHANGED events
           ELSE Fail(o, "none")
  BY DEF WriteInPlace
<1>2. ops[o].st = "inplace" /\ ops[o].kind = "write"
  BY ActTypes DEF WriteInPlace, WriteStages
<1>3. /\ Touches(o)
      /\ Exists /\ Done(r) => target'.c = Torn /\ (o \in TabWrites => target'.by = "tab")
  <2>1. CASE Exists /\ Done(r)
    <3>1. PICK now \in 1 .. MaxClock : PutNew(o, Torn, now)
      BY <1>1, <2>1
    <3>2. now # 0
      BY Bounds
    <3>3. QED  BY <1>2, <3>1, <3>2, NewTouches
  <2>2. CASE ~(Exists /\ Done(r))
    BY <1>1, <2>2, KeptTouches
  <2>3. QED  BY <2>1, <2>2
<1>4. CASE Exists /\ r = "ok"
  <2>1. Step(o, "cut") /\ UNCHANGED events /\ "cut" \in WriteStages \ {"backup"} /\ Done(r)
    BY <1>1, <1>4 DEF WriteStages, Done
  <2>2. QED  BY <1>2, <1>3, <1>4, <2>1, StepActs
<1>5. CASE ~(Exists /\ r = "ok")
  <2>1. Fail(o, "none")
    BY <1>1, <1>5
  <2>2. QED  BY <1>2, <1>3, <2>1, FailActs
<1>6. QED  BY <1>4, <1>5

LEMMA CutActs ==
  ASSUME IInv, NoticeInv, NEW o \in DOMAIN ops, Cut(o)
  PROVE  Acts(o)
<1>1. PICK r \in Replies(o) :
        /\ IF Exists /\ Done(r)
           THEN \E now \in 1 .. MaxClock :
                   /\ At(now)
                   /\ PutNew(o, IF target.c = Torn THEN ops[o].c ELSE Torn, now)
           ELSE UNCHANGED server
        /\ IF Exists /\ r = "ok" THEN Step(o, "stat") /\ UNCHANGED events
                                 ELSE Fail(o, "none")
  BY DEF Cut
<1>2. ops[o].st = "cut" /\ ops[o].kind = "write"
  BY ActTypes DEF Cut, WriteStages
<1>3. /\ Touches(o)
      /\ Exists /\ Done(r) => (target.c = Torn => target'.c = ops[o].c)
  <2>1. CASE Exists /\ Done(r)
    <3> DEFINE c == IF target.c = Torn THEN ops[o].c ELSE Torn
    <3>1. PICK now \in 1 .. MaxClock : PutNew(o, c, now)
      BY <1>1, <2>1
    <3>2. now # 0
      BY Bounds
    <3> HIDE DEF c
    <3>3. Touches(o) /\ target'.c = c
      BY <1>2, <3>1, <3>2, NewTouches
    <3>4. QED  BY <3>3 DEF c
  <2>2. CASE ~(Exists /\ Done(r))
    BY <1>1, <2>2, KeptTouches
  <2>3. QED  BY <2>1, <2>2
<1>4. CASE Exists /\ r = "ok"
  <2>1. Step(o, "stat") /\ UNCHANGED events /\ "stat" \in WriteStages \ {"backup"} /\ Done(r)
    BY <1>1, <1>4 DEF WriteStages, Done
  <2>2. QED  BY <1>2, <1>3, <1>4, <2>1, StepActs
<1>5. CASE ~(Exists /\ r = "ok")
  <2>1. Fail(o, "none")
    BY <1>1, <1>5
  <2>2. QED  BY <1>2, <1>3, <2>1, FailActs
<1>6. QED  BY <1>4, <1>5

LEMMA StatAfterActs ==
  ASSUME IInv, NoticeInv, NEW o \in DOMAIN ops, StatAfter(o)
  PROVE  Acts(o)
<1>1. PICK r \in Replies(o) :
        /\ End(o, "saved", "none")
        /\ Answer(o, "saved", IF r = "ok" THEN target.m ELSE 0)
  BY DEF StatAfter
<1>2. /\ ops[o].st = "stat" /\ UNCHANGED server
      /\ Dated(ops[o]) /\ (o \in TabWrites => ~ops[o].sneaked)
  BY ActTypes DEF StatAfter
<1> DEFINE s == TmpLeft(o)
           m == IF r = "ok" THEN target.m ELSE 0
           x == [ops[o] EXCEPT !.st = "ended", !.end = "saved", !.names = "none",
                               !.ask = NoAsk, !.tmp = s, !.m = 0]
<1>3. ops'[o] = x /\ Answer(o, "saved", m)
  BY <1>1, ActTypes DEF End
<1>4. m \in Times
  BY TargetTypes, Zeros
<1> HIDE DEF s, m
<1>5. /\ x.who = ops[o].who /\ x.kind = ops[o].kind /\ x.inst = ops[o].inst
      /\ x.crossed = ops[o].crossed /\ x.heard = ops[o].heard /\ x.c = ops[o].c
      /\ x.ask = NoAsk /\ x.bak = ops[o].bak /\ x.st = "ended"
      /\ x.end = "saved" /\ x.sneaked = ops[o].sneaked
  BY ActTypes DEF Ops
<1> HIDE DEF x
<1>6. Fixed(ops'[o], ops[o]) /\ Dated(ops'[o]) /\ (o \in TabWrites => ~ops'[o].sneaked)
  BY <1>2, <1>3, <1>5, ActTypes DEF Fixed, Dated
<1>7. Touches(o) /\ target' = target
  BY <1>2, KeptTouches
<1>8. Places(o)
  BY <1>2, <1>3, <1>5, <1>7 DEF Places, Put, SaveStages
<1>9. Tells(o)
  BY <1>2, <1>3, <1>4, <1>5, <1>7 DEF Tells, Answer
<1>10. QED  BY <1>6, <1>7, <1>8, <1>9 DEF Acts

LEMMA NoSftpActs ==
  ASSUME IInv, NoticeInv, NEW o \in DOMAIN ops, NoSftp(o)
  PROVE  Acts(o)
<1>1. ops[o].st = "queued" /\ Fail(o, "none") /\ Touches(o)
  BY KeptTouches DEF NoSftp
<1>2. QED  BY <1>1, FailActs

\* Every request of the worker, with both descriptions.
LEMMA WorkerActs ==
  ASSUME IInv, NoticeInv, Worker
  PROVE  \E o \in DOMAIN ops : Acts(o) /\ \E x : Becomes(o, x)
<1>1. PICK o \in DOMAIN ops :
        \/ StatForRead(o) \/ ReadContent(o)
        \/ Check(o) \/ WriteTmp(o) \/ Backup(o) \/ Swap(o) \/ Verify(o)
        \/ Unwrite(o) \/ Restore(o) \/ RemoveBackup(o)
        \/ WriteInPlace(o) \/ Cut(o) \/ StatAfter(o) \/ NoSftp(o)
  BY DEF Worker
<1>2. \E x : Becomes(o, x)
  BY <1>1, StatForReadStep, ReadContentStep, CheckStep, WriteTmpStep, BackupStep,
     SwapStep, VerifyStep, UnwriteStep, RestoreStep, RemoveBackupStep,
     WriteInPlaceStep, CutStep, StatAfterStep, NoSftpStep
<1>3. Acts(o)
  BY <1>1, StatForReadActs, ReadContentActs, CheckActs, WriteTmpActs, BackupActs,
     SwapActs, VerifyActs, UnwriteActs, RestoreActs, RemoveBackupActs,
     WriteInPlaceActs, CutActs, StatAfterActs, NoSftpActs
<1>4. QED  BY <1>2, <1>3

\* What the step of the worker leaves of the list of operations.
LEMMA ActFrame ==
  ASSUME IInv, NEW o \in DOMAIN ops, NEW y, Becomes(o, y), Acts(o)
  PROVE  /\ DOMAIN ops' = DOMAIN ops /\ ops[o].st # "ended" /\ ops[o].end = "none"
         /\ \A p \in DOMAIN ops : p # o => ops'[p] = ops[p]
         /\ \A p \in DOMAIN ops : /\ ops'[p].who = ops[p].who /\ ops'[p].kind = ops[p].kind
                                  /\ ops'[p].inst = ops[p].inst
                                  /\ ops'[p].crossed = ops[p].crossed
                                  /\ ops'[p].heard = ops[p].heard
         /\ TabWrites' = TabWrites /\ OpOK(ops'[o])
         /\ \A i \in DOMAIN events : /\ events[i].op \in DOMAIN ops /\ events[i].op # o
                                     /\ ops[events[i].op].end = events[i].kind
<1>1. ops \in Seq(Ops) /\ ops' = [ops EXCEPT ![o] = y] /\ OpOK(y) /\ ops[o].st # "ended"
  BY DEF IInv, OpsInv, Becomes
<1>2. DOMAIN ops' = DOMAIN ops /\ ops'[o] = y /\ \A p \in DOMAIN ops : p # o => ops'[p] = ops[p]
  BY <1>1
<1>3. ops[o].end = "none"
  BY <1>1, OpTypes DEF OpOK
<1>4. \A p \in DOMAIN ops : /\ ops'[p].who = ops[p].who /\ ops'[p].kind = ops[p].kind
                            /\ ops'[p].inst = ops[p].inst
                            /\ ops'[p].crossed = ops[p].crossed
                            /\ ops'[p].heard = ops[p].heard
  BY <1>2 DEF Acts, Fixed
<1>5. TabWrites' = TabWrites
  BY <1>2, <1>4 DEF TabWrites, Writes
<1>6. ASSUME NEW i \in DOMAIN events
      PROVE  /\ events[i].op \in DOMAIN ops /\ events[i].op # o
             /\ ops[events[i].op].end = events[i].kind
  <2>1. events[i] \in Events /\ events[i].op \in DOMAIN ops
        /\ ops[events[i].op].end = events[i].kind
    BY DEF IInv, EventsInv
  <2>2. QED  BY <1>3, <2>1 DEF Events, Ends
<1>7. QED  BY <1>1, <1>2, <1>3, <1>4, <1>5, <1>6

\* The event a request adds comes last.
LEMMA ActEvents ==
  ASSUME IInv, NEW o \in DOMAIN ops, NEW y, Becomes(o, y), Acts(o), NEW i \in DOMAIN events'
  PROVE  \/ i \in DOMAIN events /\ events'[i] = events[i]
         \/ /\ i = Len(events) + 1 /\ ops'[o].st = "ended"
            /\ events'[i].op = o /\ events'[i].kind = ops'[o].end
            /\ \/ events'[i].m = 0 /\ ops'[o].end # "opened"
               \/ ops'[o].end = "opened" /\ ops'[o].c = target.c /\ target' = target
               \/ ops'[o].end = "saved" /\ ops[o].st = "stat" /\ target' = target
<1>1. events \in Seq(Events)
  BY DEF IInv, EventsInv
<1>2. CASE UNCHANGED events
  BY <1>2
<1>3. ASSUME ~UNCHANGED events
      PROVE  /\ i \in DOMAIN events => events'[i] = events[i]
             /\ i \notin DOMAIN events =>
                  /\ i = Len(events) + 1 /\ ops'[o].st = "ended"
                  /\ events'[i].op = o /\ events'[i].kind = ops'[o].end
                  /\ \/ events'[i].m = 0 /\ ops'[o].end # "opened"
                     \/ ops'[o].end = "opened" /\ ops'[o].c = target.c /\ target' = target
                     \/ ops'[o].end = "saved" /\ ops[o].st = "stat" /\ target' = target
  <2>1. Tells(o)
    BY DEF Acts
  <2>2. PICK m \in Times :
            /\ events' = Append(events, [kind |-> ops'[o].end, op |-> o, m |-> m])
            /\ \/ m = 0 /\ ops'[o].end # "opened"
               \/ ops'[o].end = "opened" /\ ops'[o].c = target.c /\ target' = target
               \/ ops'[o].end = "saved" /\ ops[o].st = "stat" /\ target' = target
    BY <1>3, <2>1 DEF Tells
  <2> DEFINE e == [kind |-> ops'[o].end, op |-> o, m |-> m]
  <2>3. events' = Append(events, e) /\ e.m = m /\ e.op = o /\ e.kind = ops'[o].end
    BY <2>2
  <2> HIDE DEF e
  <2>4. /\ DOMAIN events = 1 .. Len(events) /\ Len(events) \in Nat
        /\ DOMAIN events' = 1 .. Len(events) + 1
        /\ \A j \in 1 .. Len(events) : events'[j] = events[j]
        /\ events'[Len(events) + 1] = e
    BY <1>1, <2>3
  <2>5. i \notin DOMAIN events => i = Len(events) + 1 /\ events'[i] = e
    BY <2>4
  <2>6. QED  BY <1>3, <2>1, <2>2, <2>3, <2>4, <2>5 DEF Tells
<1>4. QED  BY <1>2, <1>3

LEMMA NoticeWorker ==
  ASSUME IInv, NoticeInv, NEW o \in DOMAIN ops, NEW y, Becomes(o, y), Acts(o),
         UNCHANGED tab
  PROVE  NoticeInv'
<1>1. /\ DOMAIN ops' = DOMAIN ops /\ ops[o].st # "ended" /\ ops[o].end = "none"
      /\ \A p \in DOMAIN ops : p # o => ops'[p] = ops[p]
      /\ \A p \in DOMAIN ops : ops'[p].who = ops[p].who /\ ops'[p].kind = ops[p].kind
      /\ TabWrites' = TabWrites
      /\ \A i \in DOMAIN events : /\ events[i].op \in DOMAIN ops /\ events[i].op # o
                                  /\ ops[events[i].op].end = events[i].kind
  BY ActFrame
<1>2. /\ target'.by # "tab" => target'.m # 0
      /\ target'.by = "others" => ~Aware(target'.m, target'.c)
  BY DEF Acts, Touches, NoticeInv
<1>3. ASSUME target'.by = "others", Window' PROVE FALSE
  <2>1. PICK p \in TabWrites : ops'[p].st \in SaveStages
    BY <1>1, <1>3 DEF Window, SaveStages
  <2>2. ops[p].st \in SaveStages
    BY <1>1, <1>3, <2>1 DEF Acts, Places, TabWrites, Writes
  <2>3. Window
    BY <2>1, <2>2 DEF Window, SaveStages
  <2>4. QED  BY <1>2, <1>3, <2>3 DEF Aware
<1>4. ASSUME target'.by = "others", NEW p \in TabWrites,
             ops'[p].ask.expect = target'.m, ops'[p].ask.base # target'.c
      PROVE  FALSE
  <2>1. p \in DOMAIN ops /\ (p # o => ops'[p] = ops[p])
    BY <1>1 DEF TabWrites, Writes
  <2>2. ops'[p].ask = ops[p].ask \/ ops'[p].ask = NoAsk
    BY <2>1 DEF Acts, Fixed
  <2>3. ops'[p].ask = ops[p].ask
    BY <1>2, <1>4, <2>2 DEF NoAsk
  <2>4. QED  BY <1>2, <1>4, <2>3 DEF Aware, Taken
<1>5. ASSUME target'.by = "others", NEW i \in DOMAIN events',
             events'[i].m = target'.m, ops'[events'[i].op].who = "tab",
             events'[i].kind = "saved" \/ ops'[events'[i].op].c # target'.c
      PROVE  FALSE
  <2>1. CASE i \in DOMAIN events /\ events'[i] = events[i]
    <3>1. ops'[events[i].op] = ops[events[i].op]
      BY <1>1, <2>1
    <3>2. Taken(target'.m, target'.c)
      BY <1>5, <2>1, <3>1 DEF Taken
    <3>3. QED  BY <1>2, <1>5, <3>2 DEF Aware
  <2>2. ASSUME events'[i].op = o, events'[i].kind = ops'[o].end,
               \/ events'[i].m = 0 /\ ops'[o].end # "opened"
               \/ ops'[o].end = "opened" /\ ops'[o].c = target.c /\ target' = target
               \/ ops'[o].end = "saved" /\ ops[o].st = "stat" /\ target' = target
        PROVE  FALSE
    <3>1. events'[i].m # 0
      BY <1>2, <1>5
    <3>2. ops[o].st = "stat"
      BY <1>5, <2>2, <3>1
    <3>3. o \in TabWrites
      BY <1>1, <1>5, <2>2, <3>2, OpTypes DEF TabWrites, Writes, WriteStages
    <3>4. Window
      BY <3>2, <3>3 DEF Window
    <3>5. QED  BY <1>2, <1>5, <3>4 DEF Aware
  <2>3. QED  BY <2>1, <2>2, ActEvents
<1>6. target'.by = "others" => ~Aware(target.m, target.c)'
  <2>1. SUFFICES ASSUME target'.by = "others", Taken(target.m, target.c)'
                 PROVE  FALSE
    BY <1>3 DEF Aware
  <2>2. ~(tab.mtime = target'.m /\ tab.base # target'.c)
    BY <1>2, <2>1 DEF Aware, Taken
  <2>3. QED  BY <1>1, <1>4, <1>5, <2>1, <2>2 DEF Taken
<1>7. \A p \in DOMAIN ops' : Dated(ops'[p])
  BY <1>1 DEF NoticeInv, Acts
<1>8. NoSilentOverwrite'
  BY <1>1 DEF NoticeInv, Acts, NoSilentOverwrite, TabWrites, Writes
<1>9. QED  BY <1>2, <1>6, <1>7, <1>8 DEF NoticeInv

\* The other steps leave an operation as it is but for what is known of it.
OpSame(x, y) ==
    /\ x.who = y.who /\ x.kind = y.kind /\ x.c = y.c /\ x.ask = y.ask /\ x.inst = y.inst
    /\ x.crossed = y.crossed /\ x.st = y.st /\ x.m = y.m /\ x.bak = y.bak
    /\ x.sneaked = y.sneaked /\ x.end = y.end
\* The mtime a tab knows is that of its content, where others wrote.
Sees(t) ==
    /\ t.knows => t.mtime # 0
    /\ target.by = "others" /\ t.mtime = target.m => t.base = target.c
\* A new operation has done nothing, and expects no more than the tab knows.
Starts(x) ==
    /\ x.st = "queued" /\ ~x.sneaked /\ Dated(x)
    /\ target.by = "others" /\ x.ask.expect = target.m => x.ask.base = target.c

LEMMA NoticeSteady ==
  ASSUME IInv, NoticeInv, target' = target, DOMAIN ops \subseteq DOMAIN ops',
         \A p \in DOMAIN ops : OpSame(ops'[p], ops[p]),
         \A p \in DOMAIN ops' : p \in DOMAIN ops \/ Starts(ops'[p]),
         Sees(tab'),
         \A i \in DOMAIN events' : \E j \in DOMAIN events : events'[i] = events[j]
  PROVE  NoticeInv'
<1>1. /\ target.by = "others" => ~Aware(target.m, target.c)
      /\ target.by # "tab" => target.m # 0
  BY DEF NoticeInv
<1>2. ASSUME NEW p \in TabWrites', p \in DOMAIN ops
      PROVE  p \in TabWrites /\ OpSame(ops'[p], ops[p])
  BY <1>2 DEF TabWrites, Writes, OpSame
<1>3. Window' => Window
  <2>1. ASSUME NEW p \in TabWrites', ops'[p].st \in SaveStages
        PROVE  p \in TabWrites /\ ops[p].st \in SaveStages
    <3>1. p \in DOMAIN ops
      BY <2>1 DEF TabWrites, Writes, Starts, SaveStages
    <3>2. QED  BY <1>2, <2>1, <3>1 DEF OpSame
  <2>2. QED  BY <2>1 DEF Window, SaveStages
<1>4. ASSUME target.by = "others", NEW p \in TabWrites', ops'[p].ask.expect = target.m
      PROVE  ops'[p].ask.base = target.c
  <2>1. CASE p \in DOMAIN ops
    <3>1. p \in TabWrites /\ ops'[p].ask = ops[p].ask
      BY <1>2, <2>1 DEF OpSame
    <3>2. QED  BY <1>1, <1>4, <3>1 DEF Aware, Taken
  <2>2. CASE p \notin DOMAIN ops
    BY <1>4, <2>2 DEF Starts, TabWrites, Writes
  <2>3. QED  BY <2>1, <2>2
<1>5. ASSUME target.by = "others", NEW i \in DOMAIN events', events'[i].m = target.m,
             ops'[events'[i].op].who = "tab"
      PROVE  ~(events'[i].kind = "saved" \/ ops'[events'[i].op].c # target.c)
  <2>1. PICK j \in DOMAIN events : events'[i] = events[j]
    OBVIOUS
  <2>2. events[j].op \in DOMAIN ops
    BY DEF IInv, EventsInv
  <2>3. OpSame(ops'[events[j].op], ops[events[j].op])
    BY <2>2
  <2>4. QED  BY <1>1, <1>5, <2>1, <2>3 DEF OpSame, Aware, Taken
<1>6. target'.by = "others" => ~Aware(target.m, target.c)'
  <2>1. SUFFICES ASSUME target.by = "others", Taken(target.m, target.c)'
                 PROVE  FALSE
    BY <1>1, <1>3 DEF Aware
  <2>2. tab'.mtime = target.m => tab'.base = target.c
    BY <2>1 DEF Sees
  <2>3. QED  BY <1>4, <1>5, <2>1, <2>2 DEF Taken
<1>7. ASSUME NEW p \in DOMAIN ops'
      PROVE  Dated(ops'[p]) /\ (p \in TabWrites' => ~ops'[p].sneaked)
  <2>1. CASE p \in DOMAIN ops
    <3>1. Dated(ops[p]) /\ (p \in TabWrites => ~ops[p].sneaked) /\ OpSame(ops'[p], ops[p])
      BY <2>1 DEF NoticeInv, NoSilentOverwrite
    <3>2. Dated(ops'[p])
      BY <3>1 DEF Dated, OpSame
    <3>3. QED  BY <1>2, <2>1, <3>1, <3>2 DEF OpSame
  <2>2. CASE p \notin DOMAIN ops
    BY <2>2 DEF Starts
  <2>3. QED  BY <2>1, <2>2
<1>8. NoSilentOverwrite'
  BY <1>7 DEF NoSilentOverwrite, TabWrites, Writes
<1>9. tab'.knows => tab'.mtime # 0
  BY DEF Sees
<1>10. QED  BY <1>1, <1>6, <1>7, <1>8, <1>9 DEF NoticeInv

LEMMA TabSees ==
  ASSUME NoticeInv
  PROVE  /\ Sees(tab) /\ (target.by = "others" => target.m # 0)
         /\ \A t : t.mtime = tab.mtime /\ t.base = tab.base /\ t.knows = tab.knows => Sees(t)
BY DEF NoticeInv, Sees, Aware, Taken

LEMMA RemovedSees ==
  ASSUME NoticeInv, NEW t
  PROVE  Sees(Removed(t)) /\ Sees(NoTab)
<1>1. /\ Removed(t).mtime = 0 /\ Removed(t).knows = FALSE
      /\ NoTab.mtime = 0 /\ NoTab.knows = FALSE
  BY DEF Removed, NoTab
<1>2. QED  BY <1>1, TabSees DEF Sees

LEMMA SameOps ==
  ASSUME UNCHANGED ops
  PROVE  /\ DOMAIN ops \subseteq DOMAIN ops'
         /\ \A p \in DOMAIN ops : OpSame(ops'[p], ops[p])
         /\ \A p \in DOMAIN ops' : p \in DOMAIN ops \/ Starts(ops'[p])
BY DEF OpSame

LEMMA Appended ==
  ASSUME IInv, NEW x, ops' = Append(ops, x)
  PROVE  /\ DOMAIN ops' = DOMAIN ops \union {Len(ops) + 1}
         /\ Len(ops) + 1 \notin DOMAIN ops /\ ops'[Len(ops) + 1] = x
         /\ \A p \in DOMAIN ops : ops'[p] = ops[p] /\ p < Len(ops) + 1 /\ p \in Nat
         /\ Len(ops) + 1 # 0
<1>1. ops \in Seq(Ops)
  BY DEF IInv, OpsInv
<1>2. QED  BY <1>1

LEMMA SentOps ==
  ASSUME IInv, NEW x, Starts(x), ops' = Append(ops, x)
  PROVE  /\ DOMAIN ops \subseteq DOMAIN ops'
         /\ \A p \in DOMAIN ops : OpSame(ops'[p], ops[p])
         /\ \A p \in DOMAIN ops' : p \in DOMAIN ops \/ Starts(ops'[p])
BY Appended DEF OpSame

LEMMA NewOpStarts ==
  ASSUME NoticeInv, NEW who, NEW kind, NEW c, NEW force
  PROVE  Starts(NewOp(who, kind, c, force))
<1> DEFINE x == NewOp(who, kind, c, force)
           a == [NoAsk EXCEPT !.force = force]
<1>1. /\ x.st = "queued" /\ x.sneaked = FALSE /\ x.bak = NoFile /\ x.ask = a
  BY DEF NewOp
<1>2. a.expect = 0 /\ a.knows = FALSE
  BY DEF NoAsk
<1> HIDE DEF x, a
<1>3. Dated(x)
  BY <1>1, <1>2 DEF Dated, NoFile
<1>4. Starts(x)
  BY <1>1, <1>2, <1>3, TabSees DEF Starts
<1>5. QED  BY <1>4 DEF x

LEMMA SaveOpStarts ==
  ASSUME NoticeInv, NEW t, Sees(t), NEW force
  PROVE  Starts(SaveOp(t, force))
<1> DEFINE x == SaveOp(t, force)
<1>1. /\ x.st = "queued" /\ x.sneaked = FALSE /\ x.bak = NoFile
      /\ x.ask.expect = t.mtime /\ x.ask.base = t.base /\ x.ask.knows = t.knows
  BY DEF SaveOp, NewOp
<1> HIDE DEF x
<1>2. Dated(x)
  BY <1>1 DEF Dated, Sees, NoFile
<1>3. Starts(x)
  BY <1>1, <1>2 DEF Starts, Sees
<1>4. QED  BY <1>3 DEF x

LEMMA NoticeUser ==
  ASSUME IInv, NoticeInv,
         OpenTab \/ Reopen \/ Edit \/ Undo \/ Save \/ Overwrite \/ KeepMine
           \/ CloseClean \/ SaveAndClose \/ Discard \/ SaveTimesOut
  PROVE  NoticeInv'
<1>1. target' = target /\ UNCHANGED events
  BY DEF OpenTab, Reopen, Edit, Undo, Save, Overwrite, KeepMine, CloseClean,
     SaveAndClose, Discard, SaveTimesOut, server
<1>2. \A i \in DOMAIN events' : \E j \in DOMAIN events : events'[i] = events[j]
  BY <1>1
<1>3. tab \in Tabs
  BY DEF IInv, TabOK
<1>4. \/ tab' = Removed(tab)
      \/ tab'.mtime = 0 /\ tab'.knows = FALSE
      \/ tab'.mtime = tab.mtime /\ tab'.base = tab.base /\ tab'.knows = tab.knows
  <2>1. CASE OpenTab
    BY <2>1 DEF OpenTab, NoTab
  <2>2. CASE Reopen \/ Edit \/ Undo \/ KeepMine
    BY <1>3, <2>2 DEF Reopen, Edit, Undo, KeepMine, Tabs
  <2>3. CASE Save \/ Overwrite \/ SaveAndClose
    BY <1>3, <2>3 DEF Save, Overwrite, SaveAndClose, BeginSave, Tabs
  <2>4. CASE CloseClean \/ Discard
    BY <2>4 DEF CloseClean, Discard
  <2>5. CASE SaveTimesOut
    BY <1>3, <2>5 DEF SaveTimesOut, StopSaving, Tabs
  <2>6. QED  BY <2>1, <2>2, <2>3, <2>4, <2>5
<1>5. Sees(tab')
  BY <1>4, TabSees, RemovedSees DEF Sees
<1>6. \/ UNCHANGED ops
      \/ ops' = Append(ops, NewOp("tab", "read", 0, FALSE))
      \/ ops' = Append(ops, SaveOp(tab, FALSE))
      \/ ops' = Append(ops, SaveOp(tab, TRUE))
  BY DEF OpenTab, Reopen, Edit, Undo, Save, Overwrite, KeepMine, CloseClean,
     SaveAndClose, Discard, SaveTimesOut, Send
<1>7. /\ Starts(NewOp("tab", "read", 0, FALSE))
      /\ Starts(SaveOp(tab, FALSE)) /\ Starts(SaveOp(tab, TRUE))
  BY TabSees, NewOpStarts, SaveOpStarts
<1>8. /\ DOMAIN ops \subseteq DOMAIN ops'
      /\ \A p \in DOMAIN ops : OpSame(ops'[p], ops[p])
      /\ \A p \in DOMAIN ops' : p \in DOMAIN ops \/ Starts(ops'[p])
  BY <1>6, <1>7, SameOps, SentOps
<1>9. QED  BY <1>1, <1>2, <1>5, <1>8, NoticeSteady

LEMMA NoticeForeign ==
  ASSUME IInv, NoticeInv, ForeignEdit
  PROVE  NoticeInv'
<1>1. PICK now \in 1 .. MaxClock : target' = File(fresh, now, Others(now, fresh))
  BY DEF ForeignEdit
<1>2. UNCHANGED <<ops, events, tab>>
  BY DEF ForeignEdit, user
<1> DEFINE by == Others(now, fresh)
<1>3. by = "others" => ~Aware(now, fresh)
  BY OthersNotAware
<1>4. target' = File(fresh, now, by) /\ now # 0
  BY <1>1, Bounds
<1> HIDE DEF by
<1>5. target'.c = fresh /\ target'.m = now /\ target'.by = by
  BY <1>4 DEF File
<1>6. target'.by = "others" => ~Aware(target'.m, target'.c)
  BY <1>3, <1>5
<1>7. target'.by = "others" => ~Aware(target.m, target.c)'
  BY <1>2, <1>6 DEF Aware, Window, Taken, TabWrites, Writes
<1>8. QED
  BY <1>2, <1>4, <1>5, <1>7 DEF NoticeInv, NoSilentOverwrite, TabWrites, Writes

\* What the tab learns from an answer it knew to be on its way.

\* An operation is heard of.
LEMMA HeardSame ==
  ASSUME IInv, NEW p \in DOMAIN ops, NEW d, d = [ops EXCEPT ![p].heard = TRUE]
  PROVE  /\ d \in Seq(Ops) /\ DOMAIN d = DOMAIN ops /\ d[p].heard
         /\ \A o \in DOMAIN ops : OpSame(d[o], ops[o])
         /\ \A o \in DOMAIN ops : o # p => d[o] = ops[o]
<1>1. ops \in Seq(Ops) /\ \A o \in DOMAIN ops : ops[o] \in Ops
  BY DEF IInv, OpsInv
<1>2. /\ DOMAIN d = DOMAIN ops /\ \A o \in DOMAIN ops : o # p => d[o] = ops[o]
      /\ d[p] = [ops[p] EXCEPT !.heard = TRUE]
  BY <1>1
<1>3. OpSame(d[p], ops[p]) /\ d[p].heard
  BY <1>1, <1>2 DEF OpSame, Ops
<1>4. d \in Seq(Ops)
  BY HeardQuiet
<1>5. \A o \in DOMAIN ops : OpSame(d[o], ops[o])
  BY <1>2, <1>3 DEF OpSame
<1>6. QED  BY <1>2, <1>3, <1>4, <1>5

LEMMA NoticeAnswer ==
  ASSUME IInv, NoticeInv, TakeAnswer
  PROVE  NoticeInv'
<1> DEFINE e == Head(events)
<1>1. /\ e \in Events /\ e.op \in DOMAIN ops /\ e.kind \in Ends
      /\ e.m \in Times /\ ops[e.op].end = e.kind
  BY FirstAnswer DEF TakeAnswer
<1>2. /\ events # <<>> /\ events' = Tail(events)
      /\ UNCHANGED <<tab, ops>> \/ (IsTabOp(e) /\ TabAnswer(e))
      /\ target' = target
  BY DEF TakeAnswer, server
<1>3. events \in Seq(Events) /\ e = events[1]
  BY DEF IInv, EventsInv
<1>4. 1 \in DOMAIN events /\ \A i \in DOMAIN events' : \E j \in DOMAIN events : events'[i] = events[j]
  <2>1. /\ Len(events) \in Nat \ {0} /\ DOMAIN events = 1 .. Len(events)
        /\ DOMAIN events' = 1 .. Len(events) - 1
        /\ \A i \in 1 .. Len(events) - 1 : events'[i] = events[i + 1]
    BY <1>2, <1>3
  <2>2. QED  BY <2>1
<1> HIDE DEF e
<1>5. CASE UNCHANGED <<tab, ops>>
  BY <1>2, <1>4, <1>5, TabSees, SameOps, NoticeSteady
<1>6. ASSUME IsTabOp(e), TabAnswer(e)
      PROVE  NoticeInv'
  <2>0. tab \in Tabs
    BY DEF IInv, TabOK
  <2>1. target.by = "others" /\ e.m = target.m => e.kind # "saved" /\ ops[e.op].c = target.c
    <3>1. target.by = "others" => ~Taken(target.m, target.c)
      BY DEF NoticeInv, Aware
    <3>2. QED  BY <1>3, <1>4, <1>6, <3>1 DEF Taken, IsTabOp
  <2>2. ASSUME TabSaved(e), e.kind = "saved" PROVE NoticeInv'
    <3> DEFINE t == NoteMtime(tab, e.m)
               d == [ops EXCEPT ![e.op].heard = TRUE]
    <3>1. /\ t.mtime = IF e.m # 0 THEN e.m ELSE tab.mtime
          /\ t.knows = (tab.knows \/ e.m # 0) /\ t.base = tab.base
      BY <2>0 DEF NoteMtime, Tabs
    <3>2. t \in Tabs
      BY <1>1, <2>0, TabOps
    <3>a. target.by = "others" => target.m # 0
      BY TabSees
    <3>b. Sees(tab)
      BY TabSees
    <3> HIDE DEF t
    <3>3. Sees(t)
      BY <2>1, <2>2, <3>1, <3>b DEF Sees
    <3>4. \A u : u.mtime = t.mtime /\ u.base = t.base /\ u.knows = t.knows => Sees(u)
      BY <3>3 DEF Sees
    <3>5. /\ NoteDiverged(t) \in Tabs /\ MarkSaved(t) \in Tabs
          /\ \A u \in {t, NoteDiverged(t), MarkSaved(t)} :
                u.mtime = t.mtime /\ u.base = t.base /\ u.knows = t.knows /\ u \in Tabs
      <4> DEFINE yes == TRUE
                 no == FALSE
                 nd == [t EXCEPT !.div = yes]
                 g == [t EXCEPT !.orig = t.c, !.div = no]
      <4>1. NoteDiverged(t) = nd /\ MarkSaved(t) = g /\ yes \in BOOLEAN /\ no \in BOOLEAN
        BY DEF NoteDiverged, MarkSaved
      <4> HIDE DEF yes, no
      <4>2. nd \in Tabs /\ nd.mtime = t.mtime /\ nd.base = t.base /\ nd.knows = t.knows
        BY <3>2, <4>1 DEF Tabs
      <4>3. g \in Tabs /\ g.mtime = t.mtime /\ g.base = t.base /\ g.knows = t.knows
        BY <3>2, <4>1 DEF Tabs
      <4> HIDE DEF nd, g
      <4>4. QED  BY <3>2, <4>1, <4>2, <4>3
    <3>6. \A u \in Tabs : /\ StopSaving(u).mtime = u.mtime /\ StopSaving(u).base = u.base
                          /\ StopSaving(u).knows = u.knows
                          /\ BeginSave(u, TRUE).mtime = u.mtime
                          /\ BeginSave(u, TRUE).base = u.base
                          /\ BeginSave(u, TRUE).knows = u.knows
      BY DEF StopSaving, BeginSave, Tabs
    <3>7. \/ tab' = tab \/ tab' = NoteDiverged(t) \/ tab' = Removed(t)
          \/ tab' = StopSaving(MarkSaved(t)) \/ tab' = BeginSave(NoteDiverged(t), TRUE)
          \/ tab' = StopSaving(NoteDiverged(t))
      BY <2>2 DEF TabSaved, SavedNow, LateSaved, NoteLateSave, t
    <3>8. Sees(tab')
      BY <3>4, <3>5, <3>6, <3>7, <3>b, RemovedSees
    <3>9. ops' = d \/ ops' = Append(d, SaveOp(t, FALSE))
      BY <2>2 DEF TabSaved, t
    <3>10. Starts(SaveOp(t, FALSE))
      BY <3>3, SaveOpStarts
    <3>11. /\ d \in Seq(Ops) /\ DOMAIN d = DOMAIN ops
           /\ \A p \in DOMAIN ops : OpSame(d[p], ops[p])
      BY <1>1, HeardSame
    <3> DEFINE s == SaveOp(t, FALSE)
    <3> HIDE DEF d, s
    <3>12. /\ DOMAIN ops \subseteq DOMAIN ops'
           /\ \A p \in DOMAIN ops : OpSame(ops'[p], ops[p])
           /\ \A p \in DOMAIN ops' : p \in DOMAIN ops \/ Starts(ops'[p])
      <4>1. CASE ops' = d
        BY <3>11, <4>1
      <4>2. CASE ops' = Append(d, s)
        <5>1. /\ DOMAIN d = 1 .. Len(d) /\ Len(d) \in Nat
              /\ DOMAIN ops' = 1 .. Len(d) + 1
              /\ \A p \in 1 .. Len(d) : ops'[p] = d[p]
              /\ ops'[Len(d) + 1] = s
          BY <3>11, <4>2
        <5>2. Starts(s)
          BY <3>10 DEF s
        <5>3. \A p \in DOMAIN ops' : p \in DOMAIN ops \/ ops'[p] = s
          BY <3>11, <5>1
        <5>4. QED  BY <3>11, <5>1, <5>2, <5>3
      <4>3. QED  BY <3>9, <4>1, <4>2 DEF s
    <3>13. QED  BY <1>2, <1>4, <3>8, <3>12, NoticeSteady
  <2>3. ASSUME UNCHANGED ops, Sees(tab') PROVE NoticeInv'
    BY <1>2, <1>4, <2>3, SameOps, NoticeSteady
  <2>4. ASSUME \/ tab' = IF ForSave(e) /\ e.op \notin tombs
                         THEN [StopSaving(tab) EXCEPT !.save = "conflict"] ELSE tab
               \/ tab' = IF ForSave(e) /\ e.op \notin tombs THEN StopSaving(tab) ELSE tab
               \/ tab' = LoadFailed(e)
        PROVE  Sees(tab')
    <3>1. \/ tab' = Removed(tab)
          \/ tab'.mtime = tab.mtime /\ tab'.base = tab.base /\ tab'.knows = tab.knows
      BY <2>0, <2>4 DEF StopSaving, LoadFailed, Tabs
    <3>2. QED  BY <3>1, TabSees, RemovedSees
  <2>5. ASSUME tab' = Opened(e)
        PROVE  Sees(tab')
    <3>1. \/ tab' = tab
          \/ tab'.mtime = e.m /\ tab'.base = ops[e.op].c /\ tab'.knows = (e.m # 0)
      BY <2>0, <2>5 DEF Opened, Tabs
    <3>2. QED  BY <2>1, <3>1, TabSees DEF Sees
  <2>6. QED  BY <1>6, <2>2, <2>3, <2>4, <2>5 DEF TabAnswer
<1>7. QED  BY <1>2, <1>5, <1>6

LEMMA NoticeCalls ==
  ASSUME IInv, NoticeInv,
         \/ \E k \in {"read", "write"} : CallFile(k)
         \/ CallTimesOut \/ LinkDies \/ SeeDisconnected \/ Reconnect \/ UNCHANGED vars
  PROVE  NoticeInv'
<1>1. target' = target /\ tab' = tab /\ (events' = events \/ events' = <<>>)
  BY DEF CallFile, CallTimesOut, LinkDies, SeeDisconnected, Reconnect, vars, user, server
<1>2. \A i \in DOMAIN events' : \E j \in DOMAIN events : events'[i] = events[j]
  BY <1>1
<1>3. /\ DOMAIN ops \subseteq DOMAIN ops'
      /\ \A p \in DOMAIN ops : OpSame(ops'[p], ops[p])
      /\ \A p \in DOMAIN ops' : p \in DOMAIN ops \/ Starts(ops'[p])
  <2>1. CASE \E k \in {"read", "write"} : CallFile(k)
    <3>1. PICK k \in {"read", "write"} : CallFile(k)
      BY <2>1
    <3> DEFINE f == k = "write"
               c == IF k = "write" THEN fresh ELSE 0
    <3>2. ops' = Append(ops, NewOp("ai", k, c, f))
      BY <3>1 DEF CallFile, Send
    <3> HIDE DEF f, c
    <3>3. QED  BY <3>2, NewOpStarts, SentOps
  <2>2. CASE LinkDies
    <3>1. ops' = [o \in DOMAIN ops |-> [ops[o] EXCEPT !.dead = Live(o)]]
      BY <2>2 DEF LinkDies
    <3>2. ASSUME NEW p \in DOMAIN ops PROVE OpSame(ops'[p], ops[p])
      <4>1. ops[p] \in Ops /\ ops'[p] = [ops[p] EXCEPT !.dead = Live(p)]
        BY <3>1, OpTypes
      <4>2. QED  BY <4>1 DEF OpSame, Ops
    <3>3. QED  BY <3>1, <3>2
  <2>3. CASE CallTimesOut \/ SeeDisconnected \/ Reconnect \/ UNCHANGED vars
    BY <2>3, SameOps DEF CallTimesOut, SeeDisconnected, Reconnect, vars
  <2>4. QED  BY <2>1, <2>2, <2>3
<1>4. QED  BY <1>1, <1>2, <1>3, TabSees, NoticeSteady

LEMMA NoticeStep ==
  ASSUME IInv, NoticeInv, [Next]_vars
  PROVE  NoticeInv'
<1>1. CASE Worker
  <2>1. PICK o \in DOMAIN ops : Acts(o) /\ \E x : Becomes(o, x)
    BY <1>1, WorkerActs
  <2>2. PICK x : Becomes(o, x)
    BY <2>1
  <2>3. UNCHANGED tab
    BY <1>1 DEF Worker, user
  <2>4. QED  BY <2>1, <2>2, <2>3, NoticeWorker
<1>2. QED
  BY <1>1, NoticeUser, NoticeForeign, NoticeAnswer, NoticeCalls DEF Next

LEMMA InitNotice == Init => NoticeInv
<1> SUFFICES ASSUME Init PROVE NoticeInv
  OBVIOUS
<1>1. target.by = "tab" /\ DOMAIN ops = {}
  BY DEF Init, File
<1>2. tab.mtime = 1
  BY DEF Init, OpenedTab, NoTab
<1>3. QED  BY <1>1, <1>2 DEF NoticeInv, NoSilentOverwrite, TabWrites, Writes

\* A save that was not forced never passes its check over a content by others
\* that the tab has not read, where the tab could have told: whatever runs
\* beside it, is answered late, is given up or fails (handle_fs_op's comparison
\* of the mtime, and every way the tab learns an mtime).
THEOREM NothingOverwrittenUnseen == Spec => []NoSilentOverwrite
<1>1. Init => NoticeInv
  BY InitNotice
<1>2. IInv /\ NoticeInv /\ [Next]_vars => NoticeInv'
  BY NoticeStep
<1>3. NoticeInv => NoSilentOverwrite
  BY DEF NoticeInv
<1>4. QED  BY <1>1, <1>2, <1>3, Invariance, PTL DEF Spec

----------------------------------------------------------------------------
(* A clean tab shows what the file holds *)

\* Of every write since the content was read the tab knows what to think.
Accounted(o) ==
    o \in tombs \/ tab.op = o \/ ops[o].heard \/ ops[o].end \in {"conflict", "failed"}
\* The save under way is the last of them, and what the tab showed when it was
\* sent.
Current ==
    /\ tab.op \in Mine /\ ~ops[tab.op].heard /\ \A o \in Mine : o <= tab.op
    /\ tab.rev <= tab.ver /\ (tab.ver = tab.rev => tab.c = ops[tab.op].c)
SavesInv ==
    /\ \A o \in TabWrites : /\ ops[o].inst <= tab.inst
                            /\ ops[o].heard => ops[o].end = "saved"
    /\ \A o, p \in TabWrites :
         p < o /\ ops[p].inst = ops[o].inst /\ ~ops[o].crossed => ~Live(p)
    /\ tombs \subseteq DOMAIN ops /\ tab.op \notin tombs
    /\ Saving => tab.op \in TabWrites
    /\ ~tab.open => tab.save = "idle" /\ tab.load = 0
    /\ tab.load # 0 => tab.load \in DOMAIN ops /\ ops[tab.load].kind = "read"
    /\ tab.open => \A o \in Mine : Accounted(o)
    /\ tab.open /\ ~tab.early /\ Saving => Current

Calm == tab.open /\ ~disturbed /\ ~tab.early
\* The file holds what the tab counts as stored,
Stored ==
    Calm /\ tab.load = 0 /\ ~tab.div /\ (\A o \in Mine : ops[o].heard /\ ~ops[o].crossed)
      => target.c = tab.orig
\* what the save under way has put in place,
Storing ==
    Calm /\ tab.load = 0 /\ Saving /\ ~ops[tab.op].crossed
      => /\ Put(ops[tab.op]) => target.c = ops[tab.op].c
         /\ ops[tab.op].st = "cut" => target.c = Torn
\* and what the tab has read and not yet shown, unless the answer of a write is
\* still to be heard first.
Before(i, o) == ops[o].heard \/ \E j \in DOMAIN events : j < i /\ events[j].op = o
Reading ==
    \A i \in DOMAIN events :
        events[i].op = tab.load /\ events[i].kind = "opened" /\ tab.open /\ ~disturbed
          /\ (\A o \in Mine : Before(i, o))
        => target.c = ops[events[i].op].c
\* A tab that reads again shows the old content until it has the new one.
Rereading ==
    tab.open /\ tab.reopening /\ tab.load # 0 /\ ops[tab.load].end # "opened" => disturbed
StoreInv == Stored /\ Storing /\ Reading /\ Rereading

LEMMA InitClean == Init => SavesInv /\ StoreInv
<1> SUFFICES ASSUME Init PROVE SavesInv /\ StoreInv
  OBVIOUS
<1>1. /\ DOMAIN ops = {} /\ DOMAIN events = {} /\ tombs = {} /\ target.c = 0
      /\ TabWrites = {} /\ Mine = {}
  BY DEF Init, File, TabWrites, Writes, Mine
<1>2. /\ tab.op = 0 /\ tab.save = "idle" /\ tab.open = TRUE /\ tab.load = 0
      /\ tab.orig = 0 /\ tab.reopening = FALSE
  BY DEF Init, OpenedTab, NoTab
<1>3. SavesInv
  BY <1>1, <1>2 DEF SavesInv, Saving
<1>4. StoreInv
  BY <1>1, <1>2 DEF StoreInv, Stored, Storing, Reading, Rereading, Saving
<1>5. QED  BY <1>3, <1>4

\* The numbers of operations.
LEMMA OpNumbers ==
  ASSUME IInv
  PROVE  /\ 0 \notin DOMAIN ops /\ DOMAIN ops \subseteq Nat
         /\ Mine \subseteq TabWrites /\ TabWrites \subseteq DOMAIN ops
         /\ \A o \in Mine : ops[o].inst = tab.inst
         /\ tab \in Tabs /\ (tab.op # 0 <=> Saving)
<1>1. ops \in Seq(Ops) /\ TabOK(tab)
  BY DEF IInv, OpsInv
<1>2. 0 \notin DOMAIN ops /\ DOMAIN ops \subseteq Nat
  BY <1>1
<1>3. QED  BY <1>1, <1>2 DEF Mine, TabWrites, Writes, TabOK, Saving

LEMMA SavesWorker ==
  ASSUME IInv, SavesInv, NEW o \in DOMAIN ops, NEW y, Becomes(o, y), Acts(o),
         UNCHANGED <<tab, tombs>>
  PROVE  SavesInv'
<1>1. /\ DOMAIN ops' = DOMAIN ops /\ ops[o].st # "ended" /\ ops[o].end = "none"
      /\ \A p \in DOMAIN ops : p # o => ops'[p] = ops[p]
      /\ \A p \in DOMAIN ops : /\ ops'[p].kind = ops[p].kind
                               /\ ops'[p].inst = ops[p].inst
                               /\ ops'[p].crossed = ops[p].crossed
                               /\ ops'[p].heard = ops[p].heard
      /\ TabWrites' = TabWrites
  BY ActFrame
<1>2. /\ TabWrites \subseteq DOMAIN ops /\ Mine \subseteq TabWrites /\ Mine' = Mine
      /\ \A p \in TabWrites : ops'[p].c = ops[p].c
  <2>1. TabWrites \subseteq DOMAIN ops /\ Mine \subseteq TabWrites
    BY OpNumbers
  <2>2. Mine' = Mine
    BY <1>1, <2>1 DEF Mine
  <2>3. \A p \in TabWrites : ops'[p].c = ops[p].c
    BY <1>1, <2>1 DEF Acts, Fixed, TabWrites, Writes
  <2>4. QED  BY <2>1, <2>2, <2>3
<1>3. \A p \in TabWrites : /\ ops'[p].inst <= tab.inst
                           /\ ops'[p].heard => ops'[p].end = "saved"
  BY <1>1, <1>2 DEF SavesInv
<1>4. \A q, p \in TabWrites :
         p < q /\ ops'[p].inst = ops'[q].inst /\ ~ops'[q].crossed => ~Live(p)'
  BY <1>1, <1>2 DEF SavesInv, Live
<1>5. tab.open => \A p \in Mine : Accounted(p)'
  BY <1>1, <1>2 DEF SavesInv, Accounted
<1>6. tab.open /\ ~tab.early /\ Saving => Current'
  BY <1>1, <1>2 DEF SavesInv, Current
<1>7. tab.load # 0 => tab.load \in DOMAIN ops' /\ ops'[tab.load].kind = "read"
  BY <1>1 DEF SavesInv
<1>8. QED
  BY <1>1, <1>2, <1>3, <1>4, <1>5, <1>6, <1>7 DEF SavesInv, Saving

LEMMA StoreWorker ==
  ASSUME IInv, SavesInv, StoreInv, NEW o \in DOMAIN ops, NEW y, Becomes(o, y), Acts(o),
         UNCHANGED tab
  PROVE  StoreInv'
<1>1. /\ DOMAIN ops' = DOMAIN ops /\ ops[o].st # "ended" /\ ops[o].end = "none"
      /\ \A p \in DOMAIN ops : p # o => ops'[p] = ops[p]
      /\ \A p \in DOMAIN ops : /\ ops'[p].inst = ops[p].inst
                               /\ ops'[p].crossed = ops[p].crossed
                               /\ ops'[p].heard = ops[p].heard
      /\ TabWrites' = TabWrites
      /\ \A i \in DOMAIN events : events[i].op \in DOMAIN ops /\ events[i].op # o
  BY ActFrame
<1>2. /\ 0 \notin DOMAIN ops /\ DOMAIN ops \subseteq Nat
      /\ Mine \subseteq TabWrites /\ TabWrites \subseteq DOMAIN ops
      /\ \A p \in Mine : ops[p].inst = tab.inst
  BY OpNumbers
<1>3. Mine' = Mine
  BY <1>1, <1>2 DEF Mine
<1>4. o \in Mine => ~ops[o].heard
  BY <1>1, <1>2 DEF SavesInv
\* The file is changed by a write of the tab, or it does not matter.
<1>5. ~disturbed' => \/ target' = target /\ ~disturbed
                     \/ target' = target /\ o = tab.load /\ ops'[o].end = "opened"
                     \/ ~disturbed /\ o \in Mine
  BY DEF Acts, Touches
<1>6. Stored'
  <2>1. SUFFICES ASSUME tab.open, ~disturbed', ~tab.early, tab.load = 0, ~tab.div,
                        \A p \in Mine : ops'[p].heard /\ ~ops'[p].crossed
                 PROVE  target'.c = tab.orig
    BY <1>3 DEF Stored, Calm
  <2>2. \A p \in Mine : ops[p].heard /\ ~ops[p].crossed
    BY <1>1, <1>2, <2>1
  <2>3. target' = target /\ ~disturbed
    BY <1>2, <1>4, <1>5, <2>1, <2>2
  <2>4. QED  BY <2>1, <2>2, <2>3 DEF StoreInv, Stored, Calm
<1>7. Storing'
  <2> DEFINE s == tab.op
  <2>1. SUFFICES ASSUME tab.open, ~disturbed', ~tab.early, tab.load = 0, Saving,
                        ~ops'[s].crossed
                 PROVE  /\ Put(ops'[s]) => target'.c = ops'[s].c
                        /\ ops'[s].st = "cut" => target'.c = Torn
    BY DEF Storing, Calm, Saving
  <2>2. s \in Mine /\ \A p \in Mine : p <= s
    BY <2>1 DEF SavesInv, Current
  <2>3. ~ops[s].crossed /\ s \in DOMAIN ops
    BY <1>1, <1>2, <2>1, <2>2
  <2>4. ~disturbed
    BY <1>2, <1>5, <2>1
  <2>5. /\ Put(ops[s]) => target.c = ops[s].c
        /\ ops[s].st = "cut" => target.c = Torn
    BY <2>1, <2>3, <2>4 DEF StoreInv, Storing, Calm
  <2>6. CASE s = o
    <3>1. ops'[o].c = ops[o].c
      BY <1>2, <2>2, <2>6 DEF Acts, Fixed, TabWrites, Writes
    <3>2. /\ Put(ops'[o]) =>
               \/ Put(ops[o]) /\ target' = target
               \/ target'.c = ops[o].c
               \/ ops[o].st = "cut" /\ (target.c = Torn => target'.c = ops[o].c)
          /\ ops'[o].st = "cut" => target'.c = Torn
      BY DEF Acts, Places
    <3>3. QED  BY <2>5, <2>6, <3>1, <3>2
  <2>7. CASE s # o
    <3>1. o \notin Mine
      <4>1. ASSUME o \in Mine PROVE FALSE
        <5>1. o < s
          BY <1>2, <2>2, <2>7, <4>1
        <5>2. ~Live(o)
          BY <1>2, <2>2, <2>3, <4>1, <5>1 DEF SavesInv
        <5>3. QED  BY <1>1, <5>2 DEF Live
      <4>2. QED  BY <4>1
    <3>2. target' = target
      BY <1>5, <2>1, <3>1
    <3>3. ops'[s] = ops[s]
      BY <1>1, <2>3, <2>7
    <3>4. QED  BY <2>5, <3>2, <3>3
  <2>8. QED  BY <2>6, <2>7
<1>8. Reading'
  <2>1. SUFFICES ASSUME NEW i \in DOMAIN events', events'[i].op = tab.load,
                        events'[i].kind = "opened", tab.open, ~disturbed',
                        \A p \in Mine : Before(i, p)'
                 PROVE  target'.c = ops'[events'[i].op].c
    BY <1>3 DEF Reading
  <2>2. CASE i \in DOMAIN events /\ events'[i] = events[i]
    <3>1. events \in Seq(Events)
      BY DEF IInv, EventsInv
    <3>2. ASSUME NEW j \in DOMAIN events', j < i
          PROVE  j \in DOMAIN events /\ events'[j] = events[j]
      <4>1. DOMAIN events = 1 .. Len(events) /\ Len(events) \in Nat
        BY <3>1
      <4>2. j # Len(events) + 1
        BY <2>2, <3>2, <4>1
      <4>3. QED  BY <4>2, ActEvents
    <3>3. \A p \in Mine : Before(i, p) /\ p # o
      <4>1. TAKE p \in Mine
      <4>2. ops'[p].heard \/ \E j \in DOMAIN events' : j < i /\ events'[j].op = p
        BY <2>1 DEF Before
      <4>3. Before(i, p)
        BY <1>1, <1>2, <3>2, <4>2 DEF Before
      <4>4. p # o
        BY <1>1, <1>4, <3>2, <4>2
      <4>5. QED  BY <4>3, <4>4
    <3>4. target' = target /\ ~disturbed
      BY <1>1, <1>5, <2>1, <2>2, <3>3
    <3>5. ops'[events[i].op] = ops[events[i].op]
      BY <1>1, <2>2
    <3>6. QED  BY <2>1, <2>2, <3>3, <3>4, <3>5 DEF StoreInv, Reading
  <2>3. ASSUME events'[i].op = o, events'[i].kind = ops'[o].end,
               \/ events'[i].m = 0 /\ ops'[o].end # "opened"
               \/ ops'[o].end = "opened" /\ ops'[o].c = target.c /\ target' = target
               \/ ops'[o].end = "saved" /\ ops[o].st = "stat" /\ target' = target
        PROVE  target'.c = ops'[events'[i].op].c
    BY <2>1, <2>3
  <2>4. QED  BY <2>2, <2>3, ActEvents
<1>9. Rereading'
  <2>1. SUFFICES ASSUME tab.open, tab.reopening, tab.load # 0, ops'[tab.load].end # "opened"
                 PROVE  disturbed'
    BY DEF Rereading
  <2>2. ops[tab.load].end # "opened"
    BY <1>1, <2>1 DEF SavesInv
  <2>3. disturbed
    BY <2>1, <2>2 DEF StoreInv, Rereading
  <2>4. QED  BY <1>5, <2>1, <2>3
<1>10. QED  BY <1>6, <1>7, <1>8, <1>9 DEF StoreInv

\* The other steps: an operation may be heard of, the writes of the tab stay;
OpsLike ==
    /\ DOMAIN ops \subseteq DOMAIN ops' /\ TabWrites' = TabWrites
    /\ \A p \in DOMAIN ops : /\ OpSame(ops'[p], ops[p])
                             /\ ops[p].heard => ops'[p].heard
                             /\ ops'[p].heard => ops[p].heard \/ ops[p].end = "saved"
\* what was before an event was before it already.
EventsFit ==
    \A i \in DOMAIN events' : \E k \in DOMAIN events :
        /\ events'[i] = events[k]
        /\ \A o \in DOMAIN ops : Before(i, o)' => Before(k, o)

LEMMA LikeOps ==
  ASSUME IInv, SavesInv, OpsLike
  PROVE  /\ \A o \in TabWrites : /\ ops'[o].inst <= tab.inst
                                 /\ ops'[o].heard => ops'[o].end = "saved"
         /\ \A o, p \in TabWrites :
              p < o /\ ops'[p].inst = ops'[o].inst /\ ~ops'[o].crossed => ~Live(p)'
         /\ tab'.inst = tab.inst => Mine' = Mine
         /\ \A i \in DOMAIN events : events[i].op \in DOMAIN ops
<1>1. TabWrites \subseteq DOMAIN ops
  BY OpNumbers
<1>2. \A o \in TabWrites : /\ ops'[o].inst = ops[o].inst /\ ops'[o].end = ops[o].end
                           /\ ops'[o].st = ops[o].st /\ ops'[o].crossed = ops[o].crossed
                           /\ ops'[o].heard => ops[o].heard \/ ops[o].end = "saved"
  BY <1>1 DEF OpsLike, OpSame
<1>3. \A o \in TabWrites : /\ ops'[o].inst <= tab.inst
                           /\ ops'[o].heard => ops'[o].end = "saved"
  BY <1>2 DEF SavesInv
<1>4. \A o, p \in TabWrites :
         p < o /\ ops'[p].inst = ops'[o].inst /\ ~ops'[o].crossed => ~Live(p)'
  BY <1>2 DEF SavesInv, Live
<1>5. tab'.inst = tab.inst => Mine' = Mine
  BY <1>2 DEF Mine, OpsLike
<1>6. QED  BY <1>3, <1>4, <1>5 DEF IInv, EventsInv

\* The tab goes on as it is, but for edits and what it thinks of its content.
LEMMA SameTab ==
  ASSUME IInv, SavesInv, StoreInv, OpsLike, EventsFit, UNCHANGED tombs,
         target' = target, disturbed' = disturbed,
         tab'.open = tab.open, tab'.early = tab.early, tab'.load = tab.load,
         tab'.orig = tab.orig, tab'.inst = tab.inst, tab'.op = tab.op,
         tab'.reopening = tab.reopening, tab'.rev = tab.rev,
         Saving' <=> Saving, tab'.save # "idle" => tab.save # "idle",
         \/ tab'.c = tab.c /\ tab'.ver = tab.ver
         \/ tab'.ver = tab.ver + 1,
         tab.open /\ ops'[tab.op].heard /\ Saving => ops[tab.op].heard,
         \/ tab'.div
         \/ /\ tab'.div = tab.div
            /\ tab.open /\ ~tab.early /\ (\A p \in Mine : ops'[p].heard)
                 => \A p \in Mine : ops[p].heard
  PROVE  SavesInv' /\ StoreInv'
<1>1. /\ 0 \notin DOMAIN ops /\ DOMAIN ops \subseteq Nat
      /\ Mine \subseteq TabWrites /\ TabWrites \subseteq DOMAIN ops /\ tab \in Tabs
  BY OpNumbers
<1>2. /\ \A o \in TabWrites : /\ ops'[o].inst <= tab.inst
                              /\ ops'[o].heard => ops'[o].end = "saved"
      /\ \A o, p \in TabWrites :
           p < o /\ ops'[p].inst = ops'[o].inst /\ ~ops'[o].crossed => ~Live(p)'
      /\ Mine' = Mine /\ TabWrites' = TabWrites /\ DOMAIN ops \subseteq DOMAIN ops'
      /\ \A i \in DOMAIN events : events[i].op \in DOMAIN ops
  BY LikeOps DEF OpsLike
<1>3. \A p \in DOMAIN ops : /\ OpSame(ops'[p], ops[p])
                            /\ ops[p].heard => ops'[p].heard
  BY DEF OpsLike
<1>4. \A p \in DOMAIN ops : /\ ops'[p].end = ops[p].end /\ ops'[p].kind = ops[p].kind
                            /\ ops'[p].st = ops[p].st /\ ops'[p].c = ops[p].c
                            /\ ops'[p].crossed = ops[p].crossed
  BY <1>3 DEF OpSame
<1>5. tab.open => \A o \in Mine : Accounted(o)'
  BY <1>1, <1>3, <1>4 DEF SavesInv, Accounted
<1>6. tab.open /\ ~tab.early /\ Saving => Current'
  <2>1. SUFFICES ASSUME tab.open, ~tab.early, Saving PROVE Current'
    OBVIOUS
  <2>2. Current
    BY <2>1 DEF SavesInv
  <2>3. tab.rev \in Nat /\ tab.ver \in Nat
    BY <1>1 DEF Tabs
  <2>4. tab.op \in DOMAIN ops /\ ops'[tab.op].c = ops[tab.op].c /\ ~ops'[tab.op].heard
    BY <1>1, <1>4, <2>1, <2>2 DEF Current
  <2>5. tab'.rev <= tab'.ver /\ (tab'.ver = tab'.rev => tab'.c = ops[tab.op].c)
    BY <2>2, <2>3 DEF Current
  <2>6. QED  BY <1>2, <2>2, <2>4, <2>5 DEF Current
<1>7. SavesInv'
  <2>1. tombs' \subseteq DOMAIN ops' /\ tab'.op \notin tombs' /\ (Saving' => tab'.op \in TabWrites')
    BY <1>2 DEF SavesInv
  <2>2. ~tab'.open => tab'.save = "idle" /\ tab'.load = 0
    BY DEF SavesInv
  <2>3. tab'.load # 0 => tab'.load \in DOMAIN ops' /\ ops'[tab'.load].kind = "read"
    BY <1>2, <1>4 DEF SavesInv
  <2>4. QED  BY <1>2, <1>5, <1>6, <2>1, <2>2, <2>3 DEF SavesInv
<1>8. Stored'
  <2>1. SUFFICES ASSUME tab.open, ~disturbed, ~tab.early, tab.load = 0, ~tab'.div,
                        \A p \in Mine : ops'[p].heard /\ ~ops'[p].crossed
                 PROVE  target.c = tab.orig
    BY <1>2 DEF Stored, Calm
  <2>2. ~tab.div /\ \A p \in Mine : ops[p].heard /\ ~ops[p].crossed
    BY <1>1, <1>4, <2>1
  <2>3. QED  BY <2>1, <2>2 DEF StoreInv, Stored, Calm
<1>9. Storing'
  <2>1. SUFFICES ASSUME tab.open, ~disturbed, ~tab.early, tab.load = 0, Saving,
                        ~ops'[tab.op].crossed
                 PROVE  /\ Put(ops'[tab.op]) => target.c = ops'[tab.op].c
                        /\ ops'[tab.op].st = "cut" => target.c = Torn
    BY DEF Storing, Calm
  <2>2. tab.op \in DOMAIN ops
    BY <1>1, <2>1 DEF SavesInv
  <2>3. QED  BY <1>4, <2>1, <2>2 DEF StoreInv, Storing, Calm, Put
<1>10. Reading'
  <2>1. SUFFICES ASSUME NEW i \in DOMAIN events', events'[i].op = tab.load,
                        events'[i].kind = "opened", tab.open, ~disturbed,
                        \A p \in Mine : Before(i, p)'
                 PROVE  target.c = ops'[events'[i].op].c
    BY <1>2 DEF Reading
  <2>2. PICK k \in DOMAIN events : events'[i] = events[k]
                                   /\ \A o \in DOMAIN ops : Before(i, o)' => Before(k, o)
    BY DEF EventsFit
  <2>3. \A p \in Mine : Before(k, p)
    BY <1>1, <2>1, <2>2
  <2>4. QED  BY <1>2, <1>4, <2>1, <2>2, <2>3 DEF StoreInv, Reading
<1>11. Rereading'
  BY <1>4 DEF StoreInv, Rereading, SavesInv
<1>12. QED  BY <1>7, <1>8, <1>9, <1>10, <1>11 DEF StoreInv

\* The tab is gone.
LEMMA NoMoreTab ==
  ASSUME IInv, SavesInv, OpsLike, UNCHANGED tombs, NEW t, t.inst = tab.inst,
         tab' = Removed(t)
  PROVE  SavesInv' /\ StoreInv'
<1>1. /\ tab'.open = FALSE /\ tab'.save = "idle" /\ tab'.op = 0 /\ tab'.load = 0
      /\ tab'.inst = tab.inst
  BY DEF Removed, NoTab
<1>2. 0 \notin tombs /\ tombs \subseteq DOMAIN ops
  BY OpNumbers DEF SavesInv
<1>3. SavesInv'
  BY <1>1, <1>2, LikeOps DEF SavesInv, Saving, OpsLike
<1>4. StoreInv'
  BY <1>1 DEF StoreInv, Stored, Storing, Reading, Rereading, Calm
<1>5. QED  BY <1>3, <1>4

\* The save under way ends for the tab.
LEMMA SaveStops ==
  ASSUME IInv, SavesInv, StoreInv, OpsLike, EventsFit,
         target' = target, disturbed' = disturbed,
         tombs \subseteq tombs', tombs' \subseteq tombs \union {tab.op},
         tab'.open = tab.open, tab'.load = tab.load, tab'.inst = tab.inst,
         tab'.reopening = tab.reopening, tab'.op = 0, tab'.save \in {"idle", "conflict"},
         tab.open, tab.op \in TabWrites,
         \/ tab.op \in tombs' \/ ops'[tab.op].heard
         \/ ops[tab.op].end \in {"conflict", "failed"},
         Stored'
  PROVE  SavesInv' /\ StoreInv'
<1>1. /\ 0 \notin DOMAIN ops /\ Mine \subseteq TabWrites /\ TabWrites \subseteq DOMAIN ops
  BY OpNumbers
<1>2. /\ \A o \in TabWrites : /\ ops'[o].inst <= tab.inst
                              /\ ops'[o].heard => ops'[o].end = "saved"
      /\ \A o, p \in TabWrites :
           p < o /\ ops'[p].inst = ops'[o].inst /\ ~ops'[o].crossed => ~Live(p)'
      /\ Mine' = Mine /\ TabWrites' = TabWrites /\ DOMAIN ops \subseteq DOMAIN ops'
      /\ \A i \in DOMAIN events : events[i].op \in DOMAIN ops
  BY LikeOps DEF OpsLike
<1>3. \A p \in DOMAIN ops : /\ ops'[p].end = ops[p].end /\ ops'[p].kind = ops[p].kind
                            /\ ops'[p].c = ops[p].c
                            /\ ops[p].heard => ops'[p].heard
  BY DEF OpsLike, OpSame
<1>4. \A o \in Mine : Accounted(o)'
  BY <1>1, <1>3 DEF SavesInv, Accounted
<1>5. ~Saving' /\ tombs' \subseteq DOMAIN ops /\ 0 \notin tombs'
  BY <1>1 DEF Saving, SavesInv
<1>6. SavesInv'
  <2>1. tab'.load # 0 => tab'.load \in DOMAIN ops' /\ ops'[tab'.load].kind = "read"
    BY <1>2, <1>3 DEF SavesInv
  <2>2. QED  BY <1>2, <1>4, <1>5, <2>1 DEF SavesInv
<1>7. Reading'
  <2>1. SUFFICES ASSUME NEW i \in DOMAIN events', events'[i].op = tab.load,
                        events'[i].kind = "opened", tab.open, ~disturbed,
                        \A p \in Mine : Before(i, p)'
                 PROVE  target.c = ops'[events'[i].op].c
    BY <1>2 DEF Reading
  <2>2. PICK k \in DOMAIN events : events'[i] = events[k]
                                   /\ \A o \in DOMAIN ops : Before(i, o)' => Before(k, o)
    BY DEF EventsFit
  <2>3. \A p \in Mine : Before(k, p)
    BY <1>1, <2>1, <2>2
  <2>4. QED  BY <1>2, <1>3, <2>1, <2>2, <2>3 DEF StoreInv, Reading
<1>8. Rereading'
  BY <1>3 DEF StoreInv, Rereading, SavesInv
<1>9. Storing'
  BY <1>5 DEF Storing
<1>10. QED  BY <1>6, <1>7, <1>8, <1>9 DEF StoreInv

\* A save is sent.
LEMMA SaveBegins ==
  ASSUME IInv, SavesInv, StoreInv, NEW n \in Nat,
         n \notin DOMAIN ops, \A p \in DOMAIN ops : p < n,
         DOMAIN ops' = DOMAIN ops \union {n},
         \A p \in DOMAIN ops : /\ OpSame(ops'[p], ops[p])
                               /\ ops[p].heard => ops'[p].heard
                               /\ ops'[p].heard => ops[p].heard \/ ops[p].end = "saved",
         ops'[n].who = "tab", ops'[n].kind = "write", ops'[n].inst = tab.inst,
         ops'[n].c = tab.c, ops'[n].st = "queued", ops'[n].end = "none", ~ops'[n].heard,
         ops'[n].crossed \/ \A o \in Mine : ~Live(o),
         \A i \in DOMAIN events' : \E j \in DOMAIN events : events'[i] = events[j],
         UNCHANGED tombs, target' = target, disturbed' = disturbed,
         tab.open, tab'.open = tab.open, tab'.load = tab.load, tab'.inst = tab.inst,
         tab'.reopening = tab.reopening, tab'.op = n, tab'.save = "saving",
         tab'.c = tab.c, tab'.ver = tab.ver, tab'.rev = tab.ver,
         tab.op # 0 => ops'[tab.op].heard
  PROVE  SavesInv' /\ StoreInv'
<1>1. /\ 0 \notin DOMAIN ops /\ DOMAIN ops \subseteq Nat /\ tab \in Tabs
      /\ Mine \subseteq TabWrites /\ TabWrites \subseteq DOMAIN ops
  BY OpNumbers
<1>2. \A p \in DOMAIN ops :
        /\ ops'[p].who = ops[p].who /\ ops'[p].kind = ops[p].kind /\ ops'[p].c = ops[p].c
        /\ ops'[p].inst = ops[p].inst /\ ops'[p].crossed = ops[p].crossed
        /\ ops'[p].st = ops[p].st /\ ops'[p].end = ops[p].end
  BY DEF OpSame
<1>3. TabWrites' = TabWrites \union {n}
  BY <1>2 DEF TabWrites, Writes
<1>4. Mine' = Mine \union {n}
  BY <1>1, <1>2, <1>3 DEF Mine
<1>5. \A o \in TabWrites' : /\ ops'[o].inst <= tab.inst
                            /\ ops'[o].heard => ops'[o].end = "saved"
  <2>1. tab.inst \in Nat
    BY <1>1 DEF Tabs
  <2>2. QED  BY <1>1, <1>2, <1>3, <2>1 DEF SavesInv
<1>6. ASSUME NEW o \in TabWrites', NEW p \in TabWrites', p < o,
             ops'[p].inst = ops'[o].inst, ~ops'[o].crossed
      PROVE  ~Live(p)'
  <2>1. p \in TabWrites
    BY <1>1, <1>3, <1>6
  <2>2. CASE o \in TabWrites
    <3>1. ~Live(p)
      BY <1>1, <1>2, <1>6, <2>1, <2>2 DEF SavesInv
    <3>2. QED  BY <1>1, <1>2, <2>1, <3>1 DEF Live
  <2>3. CASE o = n
    <3>1. p \in Mine
      BY <1>1, <1>2, <1>6, <2>1, <2>3 DEF Mine
    <3>2. ~Live(p)
      BY <1>6, <2>3, <3>1
    <3>3. QED  BY <1>1, <1>2, <2>1, <3>2 DEF Live
  <2>4. QED  BY <1>3, <2>2, <2>3
<1>7. \A o \in Mine' : Accounted(o)'
  <2>1. ASSUME NEW o \in Mine PROVE Accounted(o)'
    <3>1. Accounted(o) /\ o \in DOMAIN ops
      BY <1>1 DEF SavesInv
    <3>2. QED  BY <1>1, <1>2, <3>1 DEF Accounted
  <2>2. Accounted(n)'
    BY DEF Accounted
  <2>3. QED  BY <1>4, <2>1, <2>2
<1>8. Current'
  <2>1. \A o \in Mine' : o <= n
    BY <1>1, <1>4
  <2>2. tab.ver \in Nat
    BY <1>1 DEF Tabs
  <2>3. QED  BY <1>4, <2>1, <2>2 DEF Current
<1>9. SavesInv'
  <2>1. tombs' \subseteq DOMAIN ops' /\ n \notin tombs' /\ n \in TabWrites'
    BY <1>3 DEF SavesInv
  <2>2. tab'.load # 0 => tab'.load \in DOMAIN ops' /\ ops'[tab'.load].kind = "read"
    BY <1>2 DEF SavesInv
  <2>3. QED  BY <1>5, <1>6, <1>7, <1>8, <2>1, <2>2 DEF SavesInv
<1>10. Stored'
  BY <1>4 DEF Stored
<1>11. Storing'
  BY DEF Storing, Put
<1>12. Reading'
  <2>1. ASSUME NEW i \in DOMAIN events' PROVE ~Before(i, n)'
    <3>1. \A j \in DOMAIN events' : events'[j].op \in DOMAIN ops
      BY DEF IInv, EventsInv
    <3>2. QED  BY <3>1 DEF Before
  <2>2. QED  BY <1>4, <2>1 DEF Reading
<1>13. Rereading'
  BY <1>2 DEF StoreInv, Rereading, SavesInv
<1>14. QED  BY <1>9, <1>10, <1>11, <1>12, <1>13 DEF StoreInv

LEMMA OpsStay ==
  ASSUME IInv, UNCHANGED ops
  PROVE  OpsLike /\ (UNCHANGED events \/ events' = <<>> => EventsFit)
<1>1. OpsLike
  BY DEF OpsLike, OpSame, TabWrites, Writes
<1>2. ASSUME UNCHANGED events PROVE EventsFit
  <2>1. \A i, o : Before(i, o)' <=> Before(i, o)
    BY <1>2 DEF Before
  <2>2. QED  BY <1>2, <2>1 DEF EventsFit
<1>3. events' = <<>> => EventsFit
  BY DEF EventsFit
<1>4. QED  BY <1>1, <1>2, <1>3

LEMMA OtherSent ==
  ASSUME IInv, NEW x, ops' = Append(ops, x), ~(x.who = "tab" /\ x.kind = "write"),
         UNCHANGED events
  PROVE  OpsLike /\ EventsFit
<1>1. /\ DOMAIN ops' = DOMAIN ops \union {Len(ops) + 1}
      /\ Len(ops) + 1 \notin DOMAIN ops /\ ops'[Len(ops) + 1] = x
      /\ \A p \in DOMAIN ops : ops'[p] = ops[p]
  BY Appended
<1>2. TabWrites' = TabWrites
  BY <1>1 DEF TabWrites, Writes
<1>3. OpsLike
  BY <1>1, <1>2 DEF OpsLike, OpSame
<1>4. \A i, o : o \in DOMAIN ops => (Before(i, o)' <=> Before(i, o))
  BY <1>1 DEF Before
<1>5. QED  BY <1>3, <1>4 DEF EventsFit

LEMMA SaveSent ==
  ASSUME IInv, SavesInv, StoreInv, tab.open, ~Saving, NEW force, NEW close,
         ops' = Append(ops, SaveOp(tab, force)), tab' = BeginSave(tab, close),
         UNCHANGED <<server, events, tombs>>
  PROVE  SavesInv' /\ StoreInv'
<1> DEFINE n == Len(ops) + 1
           x == SaveOp(tab, force)
<1>1. /\ x.who = "tab" /\ x.kind = "write" /\ x.inst = tab.inst /\ x.c = tab.c
      /\ x.st = "queued" /\ x.end = "none" /\ ~x.heard
  BY DEF SaveOp, NewOp
<1>2. x.crossed \/ \A o \in Mine : ~Live(o)
  BY DEF SaveOp, NewOp
<1>3. /\ DOMAIN ops' = DOMAIN ops \union {n} /\ n \notin DOMAIN ops /\ ops'[n] = x
      /\ \A p \in DOMAIN ops : ops'[p] = ops[p] /\ p < n
      /\ n \in Nat
  <2>1. ops \in Seq(Ops)
    BY DEF IInv, OpsInv
  <2>2. n \in Nat
    BY <2>1
  <2> HIDE DEF x
  <2>3. QED  BY <2>2, Appended DEF x
<1>4. tab \in Tabs /\ tab.op = 0
  BY OpNumbers
<1>5. /\ tab'.open = tab.open /\ tab'.load = tab.load /\ tab'.inst = tab.inst
      /\ tab'.reopening = tab.reopening /\ tab'.op = n /\ tab'.save = "saving"
      /\ tab'.c = tab.c /\ tab'.ver = tab.ver /\ tab'.rev = tab.ver
  BY <1>4 DEF BeginSave, Tabs
<1> HIDE DEF n, x
<1>6. \A p \in DOMAIN ops : /\ OpSame(ops'[p], ops[p])
                            /\ ops[p].heard => ops'[p].heard
                            /\ ops'[p].heard => ops[p].heard \/ ops[p].end = "saved"
  BY <1>3 DEF OpSame
<1>7. /\ target' = target /\ disturbed' = disturbed /\ UNCHANGED tombs
      /\ \A i \in DOMAIN events' : \E j \in DOMAIN events : events'[i] = events[j]
  BY DEF server
<1>8. QED  BY <1>1, <1>2, <1>3, <1>4, <1>5, <1>6, <1>7, SaveBegins

LEMMA CleanUser ==
  ASSUME IInv, SavesInv, StoreInv,
         OpenTab \/ Reopen \/ Edit \/ Undo \/ Save \/ Overwrite \/ KeepMine
           \/ CloseClean \/ SaveAndClose \/ Discard \/ SaveTimesOut
  PROVE  SavesInv' /\ StoreInv'
<1>1. /\ 0 \notin DOMAIN ops /\ DOMAIN ops \subseteq Nat /\ tab \in Tabs
      /\ TabWrites \subseteq DOMAIN ops /\ (tab.op # 0 <=> Saving)
      /\ tombs \subseteq DOMAIN ops /\ 0 \notin tombs /\ tab.inst \in Nat
  <2>1. tab \in Tabs => tab.inst \in Nat
    BY DEF Tabs
  <2>2. QED  BY <2>1, OpNumbers DEF SavesInv
<1>2. ASSUME NEW x, x = NewOp("tab", "read", 0, FALSE), ops' = Append(ops, x)
      PROVE  /\ ~(x.who = "tab" /\ x.kind = "write")
             /\ Len(ops) + 1 \in DOMAIN ops' /\ ops'[Len(ops) + 1].kind = "read"
             /\ Len(ops) + 1 \notin DOMAIN ops
  <2>1. x.kind = "read"
    BY <1>2 DEF NewOp
  <2>2. QED  BY <1>2, <2>1, Appended
<1>3. CASE OpenTab
  <2> DEFINE n == Len(ops) + 1
  <2>1. /\ ops' = Append(ops, NewOp("tab", "read", 0, FALSE))
        /\ UNCHANGED events /\ UNCHANGED tombs
    BY <1>3 DEF OpenTab, Send
  <2>2. /\ OpsLike /\ n \in DOMAIN ops' /\ ops'[n].kind = "read" /\ n \notin DOMAIN ops
    BY <1>2, <2>1, OtherSent
  <2>3. /\ tab'.open /\ tab'.load = n /\ tab'.inst = tab.inst + 1 /\ tab'.op = 0
        /\ tab'.save = "idle" /\ tab'.reopening = FALSE
    BY <1>3 DEF OpenTab, NoTab
  <2> HIDE DEF n
  <2>4. /\ \A o \in TabWrites : /\ ops'[o].inst <= tab.inst
                                /\ ops'[o].heard => ops'[o].end = "saved"
        /\ \A o, p \in TabWrites :
             p < o /\ ops'[p].inst = ops'[o].inst /\ ~ops'[o].crossed => ~Live(p)'
        /\ TabWrites' = TabWrites /\ DOMAIN ops \subseteq DOMAIN ops'
        /\ \A i \in DOMAIN events : events[i].op \in DOMAIN ops
    BY <2>2, LikeOps DEF OpsLike
  <2>5. \A o \in TabWrites : ops'[o].inst <= tab.inst + 1 /\ ops'[o].inst # tab.inst + 1
    <3>1. TAKE o \in TabWrites
    <3>2. ops'[o].inst = ops[o].inst /\ ops[o].inst \in Nat
      BY <1>1, <2>2, OpTypes DEF OpsLike, OpSame, Ops
    <3>3. QED  BY <1>1, <2>4, <3>2
  <2>6. Mine' = {}
    BY <2>3, <2>4, <2>5 DEF Mine
  <2>7. SavesInv'
    BY <1>1, <2>1, <2>2, <2>3, <2>4, <2>5, <2>6 DEF SavesInv, Saving
  <2>8. n # 0
    BY <1>3 DEF OpenTab, n, IInv, OpsInv
  <2>9. StoreInv'
    BY <2>1, <2>2, <2>3, <2>4, <2>8 DEF StoreInv, Stored, Storing, Reading, Rereading
  <2>10. QED  BY <2>7, <2>9
<1>4. CASE Reopen
  <2> DEFINE n == Len(ops) + 1
  <2>1. /\ ops' = Append(ops, NewOp("tab", "read", 0, FALSE))
        /\ UNCHANGED events /\ UNCHANGED tombs /\ disturbed' = TRUE /\ tab.open
    BY <1>4 DEF Reopen, Send, Loaded
  <2>2. /\ OpsLike /\ n \in DOMAIN ops' /\ ops'[n].kind = "read"
    BY <1>2, <2>1, OtherSent
  <2>3. /\ tab'.open = tab.open /\ tab'.load = n /\ tab'.inst = tab.inst + 1 /\ tab'.op = tab.op
        /\ tab'.save = tab.save /\ tab'.early = (tab.early \/ Saving)
    BY <1>1, <1>4 DEF Reopen, Tabs
  <2> HIDE DEF n
  <2>4. /\ \A o \in TabWrites : /\ ops'[o].inst <= tab.inst
                                /\ ops'[o].heard => ops'[o].end = "saved"
        /\ \A o, p \in TabWrites :
             p < o /\ ops'[p].inst = ops'[o].inst /\ ~ops'[o].crossed => ~Live(p)'
        /\ TabWrites' = TabWrites /\ DOMAIN ops \subseteq DOMAIN ops'
    BY <2>2, LikeOps DEF OpsLike
  <2>5. \A o \in TabWrites : ops'[o].inst <= tab.inst + 1 /\ ops'[o].inst # tab.inst + 1
    <3>1. TAKE o \in TabWrites
    <3>2. ops'[o].inst = ops[o].inst /\ ops[o].inst \in Nat
      BY <1>1, <2>2, OpTypes DEF OpsLike, OpSame, Ops
    <3>3. QED  BY <1>1, <2>4, <3>2
  <2>6. Mine' = {}
    BY <2>3, <2>4, <2>5 DEF Mine
  <2>7. SavesInv'
    BY <1>1, <2>1, <2>2, <2>3, <2>4, <2>5, <2>6 DEF SavesInv, Saving
  <2>8. StoreInv'
    BY <2>1 DEF StoreInv, Stored, Storing, Reading, Rereading, Calm
  <2>9. QED  BY <2>7, <2>8
<1>5. CASE Edit \/ Undo \/ KeepMine \/ (SaveAndClose /\ Saving)
  <2>1. /\ UNCHANGED <<ops, events, tombs>> /\ target' = target /\ disturbed' = disturbed
    BY <1>5 DEF Edit, Undo, KeepMine, SaveAndClose, server
  <2>2. /\ tab'.open = tab.open /\ tab'.early = tab.early /\ tab'.load = tab.load
        /\ tab'.orig = tab.orig /\ tab'.inst = tab.inst /\ tab'.op = tab.op
        /\ tab'.reopening = tab.reopening /\ tab'.rev = tab.rev
        /\ (Saving' <=> Saving) /\ (tab'.save # "idle" => tab.save # "idle")
        /\ \/ tab'.c = tab.c /\ tab'.ver = tab.ver
           \/ tab'.ver = tab.ver + 1
        /\ tab'.div = tab.div
    <3>1. CASE Edit \/ Undo
      BY <1>1, <3>1 DEF Edit, Undo, Tabs, Saving
    <3>2. CASE KeepMine
      BY <1>1, <3>2 DEF KeepMine, Tabs, Saving
    <3>3. CASE SaveAndClose /\ Saving
      <4> DEFINE yes == TRUE
      <4>1. tab' = [tab EXCEPT !.close = yes]
        BY <3>3 DEF SaveAndClose
      <4> HIDE DEF yes
      <4>2. QED  BY <1>1, <4>1 DEF Tabs, Saving
    <3>4. QED  BY <1>5, <3>1, <3>2, <3>3
  <2>3. OpsLike /\ EventsFit
    BY <2>1, OpsStay
  <2>4. QED  BY <2>1, <2>2, <2>3, SameTab
<1>6. CASE Save \/ Overwrite \/ (SaveAndClose /\ ~Saving)
  <2>1. /\ tab.open /\ ~Saving /\ UNCHANGED <<server, events, tombs>>
        /\ \E force, close \in BOOLEAN : ops' = Append(ops, SaveOp(tab, force))
                                         /\ tab' = BeginSave(tab, close)
    <3>1. TRUE \in BOOLEAN /\ FALSE \in BOOLEAN
      OBVIOUS
    <3>2. CASE Save
      BY <3>1, <3>2, Zenon DEF Save, Send
    <3>3. CASE Overwrite
      <4>1. tab.open /\ ~Saving
        BY <3>3 DEF Overwrite, Saving, SavesInv
      <4>2. QED  BY <3>1, <3>3, <4>1, Zenon DEF Overwrite, Send
    <3>4. CASE SaveAndClose /\ ~Saving
      BY <3>1, <3>4, Zenon DEF SaveAndClose, Asks, Loaded, Send
    <3>5. QED  BY <1>6, <3>2, <3>3, <3>4
  <2>2. QED  BY <2>1, SaveSent
<1>7. CASE CloseClean \/ Discard
  <2>1. UNCHANGED <<ops, tombs>> /\ tab' = Removed(tab)
    BY <1>7 DEF CloseClean, Discard
  <2>2. QED  BY <2>1, OpsStay, NoMoreTab
<1>8. CASE SaveTimesOut
  <2>1. /\ UNCHANGED <<ops, events>> /\ target' = target /\ disturbed' = disturbed
        /\ Saving /\ tombs' = tombs \union {tab.op} /\ tab' = StopSaving(tab)
    BY <1>8 DEF SaveTimesOut, server
  <2>2. /\ tab'.open = tab.open /\ tab'.load = tab.load /\ tab'.inst = tab.inst
        /\ tab'.reopening = tab.reopening /\ tab'.op = 0 /\ tab'.save = "idle"
        /\ tab'.orig = tab.orig /\ tab'.div = tab.div /\ tab'.early = tab.early
    BY <1>1, <2>1 DEF StopSaving, Tabs
  <2>3. OpsLike /\ EventsFit
    BY <2>1, OpsStay
  <2>4. tab.open /\ tab.op \in TabWrites
    BY <2>1 DEF SavesInv, Saving
  <2>5. Mine' = Mine
    BY <2>2, <2>3, LikeOps
  <2>6. Stored'
    BY <2>1, <2>2, <2>5 DEF StoreInv, Stored, Calm
  <2>7. QED  BY <2>1, <2>2, <2>3, <2>4, <2>6, SaveStops
<1>9. QED  BY <1>3, <1>4, <1>5, <1>6, <1>7, <1>8

LEMMA CleanForeign ==
  ASSUME IInv, SavesInv, ForeignEdit
  PROVE  SavesInv' /\ StoreInv'
<1>1. UNCHANGED <<ops, events, tab, tombs>> /\ disturbed' = TRUE
  BY DEF ForeignEdit, user
<1>2. SavesInv'
  BY <1>1 DEF SavesInv, Saving, Accounted, Current, Mine, TabWrites, Writes, Live
<1>3. StoreInv'
  BY <1>1 DEF StoreInv, Stored, Storing, Reading, Rereading, Calm
<1>4. QED  BY <1>2, <1>3

LEMMA CleanCalls ==
  ASSUME IInv, SavesInv, StoreInv,
         \/ \E k \in {"read", "write"} : CallFile(k)
         \/ CallTimesOut \/ LinkDies \/ SeeDisconnected \/ Reconnect \/ UNCHANGED vars
  PROVE  SavesInv' /\ StoreInv'
<1>1. /\ target' = target /\ disturbed' = disturbed /\ UNCHANGED <<tab, tombs>>
      /\ (events' = events \/ events' = <<>>)
  BY DEF CallFile, CallTimesOut, LinkDies, SeeDisconnected, Reconnect, vars, user, server
<1>2. /\ OpsLike /\ EventsFit
      /\ \A p \in DOMAIN ops : ops'[p].heard = ops[p].heard
  <2>1. CASE \E k \in {"read", "write"} : CallFile(k)
    <3>1. PICK k \in {"read", "write"} : CallFile(k)
      BY <2>1
    <3> DEFINE x == NewOp("ai", k, IF k = "write" THEN fresh ELSE 0, k = "write")
    <3>2. ops' = Append(ops, x) /\ UNCHANGED events
      BY <3>1 DEF CallFile, Send
    <3>3. x.who = "ai"
      BY DEF NewOp
    <3> HIDE DEF x
    <3>4. QED  BY <3>2, <3>3, OtherSent, Appended
  <2>2. CASE LinkDies
    <3>1. /\ ops' = [o \in DOMAIN ops |-> [ops[o] EXCEPT !.dead = Live(o)]]
          /\ UNCHANGED events
      BY <2>2 DEF LinkDies
    <3>2. ASSUME NEW p \in DOMAIN ops
          PROVE  OpSame(ops'[p], ops[p]) /\ ops'[p].heard = ops[p].heard
      <4>1. ops[p] \in Ops /\ ops'[p] = [ops[p] EXCEPT !.dead = Live(p)]
        BY <3>1, OpTypes
      <4>2. QED  BY <4>1 DEF OpSame, Ops
    <3>3. DOMAIN ops' = DOMAIN ops
      BY <3>1
    <3>4. TabWrites' = TabWrites
      BY <3>2, <3>3 DEF TabWrites, Writes, OpSame
    <3>5. \A i, o : o \in DOMAIN ops => (Before(i, o)' <=> Before(i, o))
      BY <3>1, <3>2 DEF Before
    <3>6. QED  BY <3>1, <3>2, <3>3, <3>4, <3>5 DEF OpsLike, EventsFit
  <2>3. CASE CallTimesOut \/ SeeDisconnected \/ Reconnect \/ UNCHANGED vars
    <3>1. UNCHANGED ops
      BY <2>3 DEF CallTimesOut, SeeDisconnected, Reconnect, vars
    <3>2. QED  BY <1>1, <3>1, OpsStay
  <2>4. QED  BY <2>1, <2>2, <2>3
<1>3. /\ \A p \in Mine : ops'[p].heard = ops[p].heard
      /\ Saving => ops'[tab.op].heard = ops[tab.op].heard
  BY <1>2, OpNumbers DEF SavesInv
<1>4. Saving' <=> Saving
  BY <1>1 DEF Saving
<1>5. QED  BY <1>1, <1>2, <1>3, <1>4, SameTab

\* The first answer is drained: whatever was before another one still is.
LEMMA TailFits ==
  ASSUME IInv, events # <<>>, events' = Tail(events),
         \A o \in DOMAIN ops : ops'[o].heard => ops[o].heard \/ o = Head(events).op
  PROVE  EventsFit
<1>1. events \in Seq(Events)
  BY DEF IInv, EventsInv
<1>2. /\ Len(events) \in Nat \ {0} /\ DOMAIN events = 1 .. Len(events)
      /\ DOMAIN events' = 1 .. Len(events) - 1
      /\ \A i \in 1 .. Len(events) - 1 : events'[i] = events[i + 1]
      /\ Head(events) = events[1]
  BY <1>1
<1>3. ASSUME NEW i \in DOMAIN events', NEW o \in DOMAIN ops, Before(i, o)'
      PROVE  Before(i + 1, o)
  <2>1. CASE ops'[o].heard
    <3>1. ops[o].heard \/ o = events[1].op
      BY <1>2, <2>1
    <3>2. 1 \in DOMAIN events /\ 1 < i + 1
      BY <1>2
    <3>3. QED  BY <3>1, <3>2 DEF Before
  <2>2. CASE \E j \in DOMAIN events' : j < i /\ events'[j].op = o
    <3>1. PICK j \in DOMAIN events' : j < i /\ events'[j].op = o
      BY <2>2
    <3>2. j + 1 \in DOMAIN events /\ j + 1 < i + 1 /\ events[j + 1].op = o
      BY <1>2, <3>1
    <3>3. QED  BY <3>2 DEF Before
  <2>3. QED  BY <1>3, <2>1, <2>2 DEF Before
<1>4. \A i \in DOMAIN events' : i + 1 \in DOMAIN events /\ events'[i] = events[i + 1]
  BY <1>2
<1>5. QED  BY <1>3, <1>4 DEF EventsFit

LEMMA HeardLike ==
  ASSUME IInv, events # <<>>, events' = Tail(events), NEW p \in DOMAIN ops,
         p = Head(events).op, ops[p].end = "saved",
         ops' = [ops EXCEPT ![p].heard = TRUE]
  PROVE  OpsLike /\ EventsFit
<1>1. /\ DOMAIN ops' = DOMAIN ops /\ ops'[p].heard
      /\ \A o \in DOMAIN ops : OpSame(ops'[o], ops[o])
      /\ \A o \in DOMAIN ops : o # p => ops'[o] = ops[o]
  <2> DEFINE d == ops'
  <2>1. d = [ops EXCEPT ![p].heard = TRUE]
    OBVIOUS
  <2> HIDE DEF d
  <2>2. /\ DOMAIN d = DOMAIN ops /\ d[p].heard
        /\ \A o \in DOMAIN ops : OpSame(d[o], ops[o])
        /\ \A o \in DOMAIN ops : o # p => d[o] = ops[o]
    BY <2>1, HeardSame
  <2>3. QED  BY <2>2 DEF d
<1>2. TabWrites' = TabWrites
  BY <1>1 DEF TabWrites, Writes, OpSame
<1>3. OpsLike
  BY <1>1, <1>2 DEF OpsLike
<1>4. \A o \in DOMAIN ops : ops'[o].heard => ops[o].heard \/ o = p
  BY <1>1
<1>5. QED  BY <1>3, <1>4, TailFits

\* A save is answered: one given up, the one under way, or one of a tab that is
\* gone or has read again since.
LEMMA CleanSaved ==
  ASSUME IInv, SavesInv, StoreInv, events # <<>>, events' = Tail(events),
         NEW e, e = Head(events), e.op \in DOMAIN ops, e.kind = "saved",
         ops[e.op].end = "saved", TabSaved(e),
         UNCHANGED tombs, target' = target, disturbed' = disturbed
  PROVE  SavesInv' /\ StoreInv'
<1>1. /\ 0 \notin DOMAIN ops /\ DOMAIN ops \subseteq Nat /\ tab \in Tabs
      /\ Mine \subseteq TabWrites /\ TabWrites \subseteq DOMAIN ops
      /\ (tab.op # 0 <=> Saving)
  BY OpNumbers
<1>2. tab.op \notin tombs
  BY DEF SavesInv
<1> DEFINE t == NoteMtime(tab, e.m)
           d == [ops EXCEPT ![e.op].heard = TRUE]
<1>3. /\ t.open = tab.open /\ t.early = tab.early /\ t.load = tab.load /\ t.orig = tab.orig
      /\ t.inst = tab.inst /\ t.op = tab.op /\ t.reopening = tab.reopening
      /\ t.rev = tab.rev /\ t.save = tab.save /\ t.c = tab.c /\ t.ver = tab.ver
      /\ t.div = tab.div /\ DOMAIN t = DOMAIN tab
  BY <1>1 DEF NoteMtime, Tabs
<1>4. DOMAIN tab = DOMAIN NoTab
  BY <1>1 DEF Tabs, NoTab
<1>5. CASE ~(e.op \notin tombs /\ ForSave(e))
  <2>1. ops' = d /\ tab' = IF e.op \in tombs THEN LateSaved(e) ELSE tab
    BY <1>5 DEF TabSaved
  <2>2. OpsLike /\ EventsFit
    BY <2>1, HeardLike
  <2>3. \A o \in DOMAIN ops : o # e.op => ops'[o] = ops[o]
    BY <2>1
  <2>4. tab.open => tab.op # e.op
    BY <1>2, <1>5 DEF ForSave
  <2>5. tab.open /\ ops'[tab.op].heard /\ Saving => ops[tab.op].heard
    BY <1>1, <2>3, <2>4 DEF SavesInv
  <2>6. CASE tab' = tab /\ ~(e.op \in tombs /\ tab.open /\ ~Saving)
    <3>1. ASSUME tab.open, ~tab.early, \A p \in Mine : ops'[p].heard
          PROVE  \A p \in Mine : ops[p].heard
      <4>1. e.op \notin tombs
        <5>1. Saving => tab.op \in Mine /\ ~ops[tab.op].heard
          BY <3>1 DEF SavesInv, Current
        <5>2. QED  BY <1>1, <2>3, <2>4, <2>6, <3>1, <5>1
      <4>2. e.op \in Mine => ops[e.op].heard
        BY <2>4, <3>1, <4>1 DEF SavesInv, Accounted
      <4>3. QED  BY <1>1, <2>3, <3>1, <4>2
    <3>2. Saving' <=> Saving
      BY <2>6 DEF Saving
    <3>3. QED  BY <2>2, <2>5, <2>6, <3>1, <3>2, SameTab
  <2>7. CASE tab' = NoteDiverged(t)
    <3>1. /\ tab'.open = tab.open /\ tab'.early = tab.early /\ tab'.load = tab.load
          /\ tab'.orig = tab.orig /\ tab'.inst = tab.inst /\ tab'.op = tab.op
          /\ tab'.reopening = tab.reopening /\ tab'.rev = tab.rev
          /\ tab'.save = tab.save /\ tab'.c = tab.c /\ tab'.ver = tab.ver
          /\ tab'.div = TRUE
      <4> HIDE DEF t
      <4>1. QED  BY <1>3, <1>4, <2>7 DEF NoteDiverged, NoTab
    <3>2. Saving' <=> Saving
      BY <3>1 DEF Saving
    <3>3. QED  BY <2>2, <2>5, <3>1, <3>2, SameTab
  <2>8. QED  BY <2>1, <2>6, <2>7 DEF LateSaved, NoteLateSave
<1>6. CASE e.op \notin tombs /\ ForSave(e)
  <2>1. tab.op = e.op /\ tab.open /\ Saving /\ tab.op \in TabWrites /\ tab' = SavedNow(e)
    <3>1. tab.op = e.op /\ tab.open
      BY <1>6 DEF ForSave
    <3>2. QED  BY <1>1, <1>6, <3>1 DEF SavesInv, TabSaved
  <2>2. CASE ~Unchanged /\ tab.close
    <3> DEFINE u == NoteDiverged(t)
               s == SaveOp(t, FALSE)
               n == Len(ops) + 1
    <3>1. ops' = Append(d, s) /\ tab' = BeginSave(u, TRUE)
      BY <1>6, <2>1, <2>2 DEF TabSaved, SavesAgain, SavedNow
    <3>2. /\ s.who = "tab" /\ s.kind = "write" /\ s.inst = t.inst /\ s.c = t.c
          /\ s.st = "queued" /\ s.end = "none" /\ ~s.heard
          /\ s.crossed \/ \A o \in Mine : ~Live(o)
      BY DEF SaveOp, NewOp
    <3>3. /\ d \in Seq(Ops) /\ DOMAIN d = DOMAIN ops /\ d[e.op].heard
          /\ \A o \in DOMAIN ops : OpSame(d[o], ops[o])
          /\ \A o \in DOMAIN ops : o # e.op => d[o] = ops[o]
      BY HeardSame
    <3>4. ops \in Seq(Ops)
      BY DEF IInv, OpsInv
    <3>5. /\ u.open = tab.open /\ u.load = tab.load /\ u.inst = tab.inst
          /\ u.reopening = tab.reopening /\ u.c = tab.c /\ u.ver = tab.ver
          /\ DOMAIN u = DOMAIN NoTab
      <4> HIDE DEF t
      <4>1. QED  BY <1>3, <1>4 DEF NoteDiverged, NoTab
    <3> HIDE DEF t, d, s, u
    <3>6. /\ tab'.open = tab.open /\ tab'.load = tab.load /\ tab'.inst = tab.inst
          /\ tab'.reopening = tab.reopening /\ tab'.op = n /\ tab'.save = "saving"
          /\ tab'.c = tab.c /\ tab'.ver = tab.ver /\ tab'.rev = tab.ver
      BY <3>1, <3>5 DEF BeginSave, NoTab
    <3>7. Len(d) = Len(ops) /\ n \in Nat /\ DOMAIN d = 1 .. Len(d)
      BY <3>3, <3>4
    <3>8. /\ DOMAIN ops' = DOMAIN ops \union {n} /\ n \notin DOMAIN ops /\ ops'[n] = s
          /\ \A p \in DOMAIN ops : ops'[p] = d[p] /\ p < n
      BY <3>1, <3>3, <3>7
    <3> HIDE DEF n
    <3>9. \A p \in DOMAIN ops : /\ OpSame(ops'[p], ops[p])
                                /\ ops[p].heard => ops'[p].heard
                                /\ ops'[p].heard => ops[p].heard \/ ops[p].end = "saved"
      BY <3>3, <3>8
    <3>10. \A i \in DOMAIN events' : \E j \in DOMAIN events : events'[i] = events[j]
      <4>1. events \in Seq(Events)
        BY DEF IInv, EventsInv
      <4>2. \A i \in DOMAIN events' : i + 1 \in DOMAIN events /\ events'[i] = events[i + 1]
        BY <4>1
      <4>3. QED  BY <4>2
    <3>11. ops'[tab.op].heard
      BY <2>1, <3>3, <3>8
    <3>12. /\ ops'[n].who = "tab" /\ ops'[n].kind = "write" /\ ops'[n].inst = tab.inst
           /\ ops'[n].c = tab.c /\ ops'[n].st = "queued" /\ ops'[n].end = "none"
           /\ ~ops'[n].heard /\ (ops'[n].crossed \/ \A o \in Mine : ~Live(o))
      BY <1>3, <3>2, <3>8
    <3>13. /\ n \in Nat /\ n \notin DOMAIN ops /\ DOMAIN ops' = DOMAIN ops \union {n}
           /\ \A p \in DOMAIN ops : p < n
      BY <3>7, <3>8
    <3>14. QED
      BY <2>1, <3>6, <3>9, <3>10, <3>11, <3>12, <3>13, SaveBegins
  <2>3. ASSUME ops' = d PROVE OpsLike /\ EventsFit /\ ops'[tab.op].heard
    BY <1>1, <2>1, <2>3, HeardLike, HeardSame
  <2>4. CASE Unchanged /\ tab.close
    <3>1. ops' = d /\ tab' = Removed(t)
      BY <1>6, <2>1, <2>4 DEF TabSaved, SavesAgain, SavedNow
    <3>2. QED  BY <1>3, <2>3, <3>1, NoMoreTab
  <2>5. CASE ~tab.close
    <3> DEFINE u == IF Unchanged THEN MarkSaved(t) ELSE NoteDiverged(t)
    <3>1. ops' = d /\ tab' = StopSaving(u)
      BY <1>6, <2>1, <2>5 DEF TabSaved, SavesAgain, SavedNow
    <3>2. /\ u.open = tab.open /\ u.load = tab.load /\ u.inst = tab.inst
          /\ u.reopening = tab.reopening /\ u.early = tab.early
          /\ u.div \/ (Unchanged /\ u.orig = tab.c)
          /\ DOMAIN u = DOMAIN NoTab
      <4> HIDE DEF t
      <4>1. QED  BY <1>3, <1>4 DEF NoteDiverged, MarkSaved, NoTab
    <3> HIDE DEF u
    <3>3. /\ tab'.open = tab.open /\ tab'.load = tab.load /\ tab'.inst = tab.inst
          /\ tab'.reopening = tab.reopening /\ tab'.op = 0 /\ tab'.save = "idle"
          /\ tab'.early = tab.early /\ (tab'.div \/ (Unchanged /\ tab'.orig = tab.c))
      BY <3>1, <3>2 DEF StopSaving, NoTab
    <3>4. OpsLike /\ EventsFit /\ ops'[tab.op].heard
      BY <2>3, <3>1
    <3>5. Mine' = Mine
      BY <3>3, <3>4, LikeOps
    <3>6. ASSUME tab.open, ~disturbed, ~tab.early, tab.load = 0, Unchanged,
                 \A o \in Mine : ~ops'[o].crossed
          PROVE  target.c = tab.c
      <4>1. Current
        BY <2>1, <3>6 DEF SavesInv
      <4>2. ~ops[tab.op].crossed
        BY <1>1, <3>4, <3>6, <4>1 DEF Current, OpsLike, OpSame
      <4>3. target.c = ops[tab.op].c
        BY <2>1, <3>6, <4>2 DEF StoreInv, Storing, Calm, Put
      <4>4. QED  BY <3>6, <4>1, <4>3 DEF Current, Unchanged
    <3>7. Stored'
      BY <3>3, <3>5, <3>6 DEF Stored, Calm
    <3>8. QED  BY <2>1, <3>3, <3>4, <3>7, SaveStops
  <2>6. QED  BY <2>2, <2>4, <2>5
<1>7. QED  BY <1>5, <1>6

\* The content arrives: the tab shows what it has read.
LEMMA CleanOpened ==
  ASSUME IInv, SavesInv, StoreInv, events # <<>>, events' = Tail(events),
         NEW e, e = Head(events), e.op \in DOMAIN ops, e.kind = "opened",
         tab.open, tab.load = e.op, tab' = Opened(e),
         UNCHANGED <<ops, tombs>>, target' = target, disturbed' = disturbed
  PROVE  SavesInv' /\ StoreInv'
<1>1. /\ 0 \notin DOMAIN ops /\ DOMAIN ops \subseteq Nat /\ tab \in Tabs
      /\ Mine \subseteq TabWrites /\ TabWrites \subseteq DOMAIN ops
  BY OpNumbers
<1>2. /\ tab'.open = tab.open /\ tab'.load = 0 /\ tab'.op = tab.op /\ tab'.inst = tab.inst
      /\ tab'.save = tab.save /\ tab'.early = (tab.early \/ Saving) /\ tab'.div = FALSE
      /\ tab'.orig = ops[e.op].c
  BY <1>1 DEF Opened, Tabs
<1>3. Mine' = Mine /\ TabWrites' = TabWrites /\ (Saving' <=> Saving)
  BY <1>2 DEF Mine, TabWrites, Writes, Saving
<1>4. \A o \in Mine : Accounted(o)'
  BY <1>2 DEF SavesInv, Accounted
<1>5. SavesInv'
  <2>1. \A o, p \in TabWrites' :
           p < o /\ ops'[p].inst = ops'[o].inst /\ ~ops'[o].crossed => ~Live(p)'
    BY <1>3 DEF SavesInv, Live
  <2>2. ~(~tab'.early /\ Saving')
    BY <1>2, <1>3
  <2>3. \A o \in TabWrites' : /\ ops'[o].inst <= tab'.inst
                              /\ ops'[o].heard => ops'[o].end = "saved"
    BY <1>2, <1>3 DEF SavesInv
  <2>4. /\ tombs' \subseteq DOMAIN ops' /\ tab'.op \notin tombs'
        /\ Saving' => tab'.op \in TabWrites'
        /\ tab'.open /\ tab'.load = 0
    BY <1>2, <1>3 DEF SavesInv
  <2>5. QED  BY <1>3, <1>4, <2>1, <2>2, <2>3, <2>4 DEF SavesInv
<1>6. Stored'
  <2>1. SUFFICES ASSUME ~disturbed, \A o \in Mine : ops[o].heard
                 PROVE  target.c = ops[e.op].c
    BY <1>2, <1>3 DEF Stored, Calm
  <2>2. 1 \in DOMAIN events /\ events[1] = e
    BY DEF IInv, EventsInv
  <2>3. \A o \in Mine : Before(1, o)
    BY <2>1 DEF Before
  <2>4. QED  BY <2>1, <2>2, <2>3 DEF StoreInv, Reading
<1>7. Storing'
  BY <1>2, <1>3 DEF Storing, Calm
<1>8. Reading'
  <2>1. events \in Seq(Events)
    BY DEF IInv, EventsInv
  <2>2. \A i \in DOMAIN events' : i + 1 \in DOMAIN events /\ events'[i] = events[i + 1]
    BY <2>1
  <2>3. \A i \in DOMAIN events' : events'[i].op # 0
    BY <1>1, <2>2 DEF IInv, EventsInv
  <2>4. QED  BY <1>2, <2>3 DEF Reading
<1>9. Rereading'
  BY <1>2 DEF Rereading
<1>10. QED  BY <1>5, <1>6, <1>7, <1>8, <1>9 DEF StoreInv

LEMMA CleanAnswer ==
  ASSUME IInv, SavesInv, StoreInv, TakeAnswer
  PROVE  SavesInv' /\ StoreInv'
<1> DEFINE e == Head(events)
<1>1. e.op \in DOMAIN ops /\ ops[e.op].end = e.kind
  BY FirstAnswer DEF TakeAnswer
<1>2. /\ events # <<>> /\ events' = Tail(events)
      /\ UNCHANGED <<tab, ops>> \/ TabAnswer(e)
      /\ UNCHANGED tombs /\ target' = target /\ disturbed' = disturbed
  BY DEF TakeAnswer, server
<1> HIDE DEF e
<1>3. tab \in Tabs /\ (tab.op # 0 <=> Saving) /\ 0 \notin DOMAIN ops
  BY OpNumbers
<1>4. ASSUME UNCHANGED ops PROVE OpsLike /\ EventsFit
  BY <1>2, <1>4, OpsStay, TailFits
<1>5. ASSUME UNCHANGED <<tab, ops>> PROVE SavesInv' /\ StoreInv'
  <2>1. Saving' <=> Saving
    BY <1>5 DEF Saving
  <2>2. QED  BY <1>2, <1>4, <1>5, <2>1, SameTab
<1>6. CASE e.kind = "saved" /\ TabSaved(e)
  BY <1>1, <1>2, <1>6, CleanSaved DEF e
<1>7. ASSUME UNCHANGED ops, ForSave(e), e.op \notin tombs, e.kind \in {"conflict", "failed"},
             \/ tab' = StopSaving(tab)
             \/ tab' = [StopSaving(tab) EXCEPT !.save = "conflict"]
      PROVE  SavesInv' /\ StoreInv'
  <2>1. tab.open /\ tab.op = e.op /\ Saving /\ tab.op \in TabWrites
    BY <1>1, <1>3, <1>7 DEF ForSave, SavesInv
  <2>2. /\ tab'.open = tab.open /\ tab'.load = tab.load /\ tab'.inst = tab.inst
        /\ tab'.reopening = tab.reopening /\ tab'.op = 0 /\ tab'.save \in {"idle", "conflict"}
        /\ tab'.orig = tab.orig /\ tab'.div = tab.div /\ tab'.early = tab.early
    <3> DEFINE no == FALSE
               t == [tab EXCEPT !.save = "idle", !.op = 0, !.close = no]
    <3>1. tab' = t \/ tab' = [t EXCEPT !.save = "conflict"]
      BY <1>7 DEF StopSaving
    <3> HIDE DEF no
    <3>2. /\ t.open = tab.open /\ t.load = tab.load /\ t.inst = tab.inst
          /\ t.reopening = tab.reopening /\ t.op = 0 /\ t.save = "idle"
          /\ t.orig = tab.orig /\ t.div = tab.div /\ t.early = tab.early
      BY <1>3 DEF Tabs
    <3>3. CASE tab' = t
      BY <3>2, <3>3
    <3>4. CASE tab' = [t EXCEPT !.save = "conflict"]
      BY <1>3, <3>4 DEF Tabs
    <3>5. QED  BY <3>1, <3>3, <3>4
  <2>3. OpsLike /\ EventsFit
    BY <1>4, <1>7
  <2>4. Mine' = Mine
    BY <2>2, <2>3, LikeOps
  <2>5. Stored'
    BY <1>2, <1>7, <2>2, <2>4 DEF StoreInv, Stored, Calm
  <2>6. QED  BY <1>1, <1>2, <1>7, <2>1, <2>2, <2>3, <2>5, SaveStops
<1>8. CASE e.kind = "opened" /\ tab' = Opened(e) /\ UNCHANGED ops
  <2>1. CASE tab.open /\ tab.load = e.op
    BY <1>1, <1>2, <1>8, <2>1, CleanOpened DEF e
  <2>2. CASE ~(tab.open /\ tab.load = e.op)
    BY <1>5, <1>8, <2>2 DEF Opened
  <2>3. QED  BY <2>1, <2>2
<1>9. CASE e.kind = "failed" /\ tab' = LoadFailed(e) /\ UNCHANGED ops
  <2>1. OpsLike /\ EventsFit
    BY <1>4, <1>9
  <2>2. CASE tab.open /\ tab.load = e.op /\ tab.reopening
    <3>1. /\ tab'.open = tab.open /\ tab'.load = 0 /\ tab'.op = tab.op /\ tab'.inst = tab.inst
          /\ tab'.save = tab.save /\ tab'.early = tab.early /\ tab'.rev = tab.rev
          /\ tab'.c = tab.c /\ tab'.ver = tab.ver
      BY <1>3, <1>9, <2>2 DEF LoadFailed, Tabs
    <3>2. disturbed
      BY <1>1, <1>3, <1>9, <2>2 DEF StoreInv, Rereading
    <3>3. Mine' = Mine /\ TabWrites' = TabWrites /\ (Saving' <=> Saving)
      BY <1>9, <3>1 DEF Mine, TabWrites, Writes, Saving
    <3>4. /\ \A o \in Mine : Accounted(o)' <=> Accounted(o)
          /\ Current' <=> Current
          /\ \A o : Live(o)' <=> Live(o)
      BY <1>2, <1>9, <3>1, <3>3 DEF Accounted, Current, Live
    <3>5. SavesInv'
      BY <1>2, <1>9, <3>1, <3>3, <3>4 DEF SavesInv
    <3>6. StoreInv'
      BY <1>2, <3>1, <3>2 DEF StoreInv, Stored, Storing, Reading, Rereading, Calm
    <3>7. QED  BY <3>5, <3>6
  <2>3. CASE tab.open /\ tab.load = e.op /\ ~tab.reopening
    <3>1. tab' = Removed(tab)
      BY <1>9, <2>3 DEF LoadFailed
    <3>2. QED  BY <1>2, <2>1, <3>1, NoMoreTab
  <2>4. CASE ~(tab.open /\ tab.load = e.op)
    BY <1>5, <1>9, <2>4 DEF LoadFailed
  <2>5. QED  BY <2>2, <2>3, <2>4
<1>10. CASE /\ e.kind \in {"conflict", "failed"} /\ UNCHANGED ops
            /\ \/ tab' = IF ForSave(e) /\ e.op \notin tombs
                         THEN [StopSaving(tab) EXCEPT !.save = "conflict"] ELSE tab
               \/ tab' = IF ForSave(e) /\ e.op \notin tombs THEN StopSaving(tab) ELSE tab
  BY <1>5, <1>7, <1>10
<1>11. QED  BY <1>2, <1>5, <1>6, <1>8, <1>9, <1>10 DEF TabAnswer

LEMMA CleanStep ==
  ASSUME IInv, NoticeInv, SavesInv, StoreInv, [Next]_vars
  PROVE  SavesInv' /\ StoreInv'
<1>1. CASE Worker
  <2>1. PICK o \in DOMAIN ops : Acts(o) /\ \E x : Becomes(o, x)
    BY <1>1, WorkerActs
  <2>2. PICK x : Becomes(o, x)
    BY <2>1
  <2>3. UNCHANGED <<tab, tombs>>
    BY <1>1 DEF Worker, user
  <2>4. QED  BY <2>1, <2>2, <2>3, SavesWorker, StoreWorker
<1>2. QED
  BY <1>1, CleanUser, CleanForeign, CleanAnswer, CleanCalls DEF Next

\* A loaded tab without unsaved changes shows what the file holds, when the tab
\* has heard of every write it sent since it read the file, none of them ran
\* beside another, and nobody else wrote: however its reads, saves, answers and
\* reconnections were ordered (Editor::dirty, mark_saved and note_remote_diverged,
\* and the answers process_editor_save_events takes for the tab's own).
THEOREM CleanTabsTellTheTruth == Spec => []CleanMeansStored
<1>1. Init => NoticeInv /\ SavesInv /\ StoreInv
  BY InitNotice, InitClean
<1>2. IInv /\ (NoticeInv /\ SavesInv /\ StoreInv) /\ [Next]_vars
        => (NoticeInv /\ SavesInv /\ StoreInv)'
  BY NoticeStep, CleanStep
<1>3. NoticeInv /\ SavesInv /\ StoreInv => CleanMeansStored
  <2>1. SUFFICES ASSUME StoreInv, Loaded, ~Dirty, ~disturbed, ~tab.early,
                        \A o \in Mine : ops[o].heard /\ ~ops[o].crossed
                 PROVE  target.c = tab.c
    BY DEF CleanMeansStored
  <2>2. tab.open /\ tab.load = 0 /\ ~tab.div /\ tab.c = tab.orig
    BY <2>1 DEF Loaded, Dirty
  <2>3. QED  BY <2>1, <2>2 DEF StoreInv, Stored, Calm
<1>4. QED  BY <1>1, <1>2, <1>3, Invariance, PTL DEF Spec
=============================================================================
