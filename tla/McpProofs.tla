------------------------------ MODULE McpProofs -----------------------------
(***************************************************************************)
(* Proofs about what an AI agent asks of the program: CallerCopy, its files *)
(* (for every set of calls, every size of the files and every number of     *)
(* things that go wrong), and McpRuns, its commands (further below).        *)
(*                                                                         *)
(* The inductive invariant of CallerCopy has a part for each call, of what  *)
(* is its own (UpOK, DownOK), and parts for what the calls share: what a    *)
(* download has seen of the remote file (SeesOK), the remote names (DirOK)  *)
(* and the session (UiOK).                                                  *)
(***************************************************************************)
EXTENDS CallerCopy, McpRuns, SequenceTheorems, TLAPS

MaybeObject == Objects \cup {None}
Length == 0..MaxLen
AgentPc == {"idle", "send", "wait", "head", "recv"} \cup Ended
TaskPc == {"none", "cmd", "read", "close", "backup", "swap", "restore", "clean",
           "remove", "open", "tell", "done"}

Agents == [pc : AgentPc, size : Length, n : Length]
Files == [obj : MaybeObject, len : Length]
Message == [kind : {"header", "block", "ok", "err"}, size : Length]
Outs == {<<>>} \cup {<<m>> : m \in Message}
Socks == [in : 0..1, eof : BOOLEAN, out : Outs, closed : BOOLEAN]
ConnPc == {"none", "read", "refused", "ask", "drain", "stream", "verdict", "closed"}
Tasks == [pc : TaskPc, n : Length, size : Length, obj : MaybeObject, backed : BOOLEAN]
Pipes == [sink : {"none", "source", "err"}, n : 0..1, eof : BOOLEAN,
          outcome : {"none", "ok", "err", "lost"}]
Dirs == [file : MaybeObject, replaces : BOOLEAN,
         tmp : [Uploads -> MaybeObject], bak : [Uploads -> MaybeObject]]
Event == [what : {"done", "lost"}, call : Calls \cup {None}, ok : BOOLEAN]
Uis == [connected : BOOLEAN, link : BOOLEAN, evts : Seq(Event)]
Hists == [first : {Old, None}, put : [Uploads -> {None} \cup Length],
          seen : SUBSET (Objects \X Length), gaveUp : SUBSET Calls, refused : SUBSET Calls]

Typed ==
    /\ agent \in [Calls -> Agents]
    /\ local \in [Calls -> Files]
    /\ sock \in [Calls -> Socks]
    /\ conn \in [Calls -> ConnPc]
    /\ op \in [Calls -> {"none", "posted", "pending", "over"}]
    /\ reply \in [Calls -> {"none", "ok", "err"}]
    /\ task \in [Calls -> Tasks]
    /\ pipe \in [Downloads -> Pipes]
    /\ dir \in Dirs
    /\ len \in [Objects -> Length]
    /\ ui \in Uis
    /\ hist \in Hists
    /\ odd \in 0..MaxOdd

Says(c, kind) == sock[c].out # <<>> /\ sock[c].out[1].kind = kind
Put(c) == hist.put[c] # None
LetDown(c) == c \in hist.refused \cup hist.gaveUp

\* A connection speaks only once its call is answered, and its call goes to
\* the worker only once it is taken on.
ConnOK(c) ==
    /\ conn[c] \in {"none", "read", "ask"} => sock[c].out = <<>>
    /\ sock[c].closed => conn[c] = "closed"
    /\ agent[c].pc = "idle" => conn[c] = "none" /\ agent[c].n = 0
    /\ conn[c] \in {"none", "read", "refused"} => op[c] = "none"
    /\ op[c] \in {"none", "posted"} => task[c].pc = "none"
    /\ task[c].pc \in {"none", "cmd", "open"} => task[c].n = 0

\* An agent that still listens finds its answer, or was let down.
HeardOK(c) ==
    /\ (agent[c].pc \in {"send", "wait", "head"}
          /\ conn[c] \in {"refused", "drain", "stream", "verdict", "closed"}) =>
         sock[c].out # <<>> \/ LetDown(c)
    /\ agent[c].pc = "unheard" => LetDown(c)

\* The body on its way, the temporary file, and the verdict.
UpOK(c) ==
    /\ sock[c].out # <<>> => Says(c, "ok") \/ Says(c, "err")
    /\ (reply[c] = "ok" \/ Says(c, "ok") \/ agent[c].pc = "ok" \/ task[c].pc = "clean") =>
         Put(c)
    /\ task[c].pc # "none" => task[c].size = agent[c].size
    /\ task[c].pc \in {"none", "cmd"} => len[c] = 0
    /\ task[c].pc = "read" => len[c] = task[c].n /\ task[c].n <= task[c].size
    /\ task[c].pc \in {"backup", "swap"} => len[c] = task[c].size
    /\ Put(c) => task[c].pc \in {"restore", "clean", "remove", "done"}
    /\ hist.put[c] \in {None, agent[c].size}
    /\ (task[c].pc \in {"close", "backup", "swap", "restore", "clean"} \/ Put(c)) =>
         sock[c].eof /\ sock[c].in = 0
    /\ sock[c].eof => agent[c].pc \notin {"idle", "send"}
    /\ (conn[c] \in {"none", "read"} \/ op[c] = "posted" \/ task[c].pc \in {"cmd", "read"}) =>
         agent[c].n = task[c].n + sock[c].in
    /\ task[c].pc \in {"none", "cmd", "read", "close", "backup"} =>
         dir.bak[c] = None /\ ~task[c].backed
    /\ (task[c].pc = "swap" /\ task[c].backed) \/ task[c].pc = "restore" => dir.bak[c] # None

\* The blocks on their way to the agent.
Moving(c) == agent[c].n + pipe[c].n + (IF Says(c, "block") THEN 1 ELSE 0)
Whole(c) == agent[c].pc \in {"head", "recv"} => <<task[c].obj, task[c].size>> \in hist.seen

DownOK(c) ==
    /\ sock[c].in = 0
    /\ agent[c].pc \notin {"send", "wait"} /\ (sock[c].eof => agent[c].pc \in Ended)
    /\ (agent[c].pc = "recv" \/ Says(c, "header") \/ conn[c] \in {"stream", "verdict"}) =>
         pipe[c].sink = "source"
    /\ pipe[c].sink = "source" => task[c].pc \notin {"none", "cmd"}
    /\ task[c].pc \in {"open", "read", "tell"} => pipe[c].sink = "source"
    /\ agent[c].pc = "recv" => agent[c].size = task[c].size
    /\ Says(c, "header") => sock[c].out[1].size = task[c].size
    /\ Moving(c) <= (IF pipe[c].sink = "source" THEN task[c].size ELSE 0)
    /\ task[c].pc \in {"open", "read"} => Moving(c) <= task[c].n /\ task[c].n <= task[c].size
    /\ pipe[c].outcome # "none" => task[c].pc = "done"
    /\ Says(c, "ok") => pipe[c].outcome = "ok"
    /\ (task[c].pc = "tell" \/ pipe[c].outcome = "ok") => task[c].obj # None /\ Whole(c)
    /\ local[c].obj # None => <<local[c].obj, local[c].len>> \in hist.seen

\* What the remote name shows while a download is under way is recorded.
SeesOK(c) ==
    /\ agent[c].pc \in {"head", "recv"} => Shown \subseteq hist.seen
    /\ task[c].pc = "read" => task[c].obj # None
    /\ task[c].obj \in Uploads => Put(task[c].obj)
    /\ (task[c].pc = "read" /\ agent[c].pc \in {"head", "recv"}) =>
         /\ <<task[c].obj, len[task[c].obj]>> \in hist.seen
         /\ task[c].n = task[c].size =>
              \/ <<task[c].obj, task[c].size>> \in hist.seen
              \/ len[task[c].obj] > task[c].size

DirOK ==
    /\ \A o \in Uploads : o \in {dir.file} \cup {dir.bak[u] : u \in Uploads} => Put(o)
    /\ hist.first = Old =>
         \/ Old \in {dir.file} \cup {dir.bak[u] : u \in Uploads}
         \/ \E u \in Uploads : Put(u)

\* What a queued event says is so.
EventTrue(e) ==
    e.what = "done" => e.call \in Calls /\ (e.ok /\ e.call \in Uploads => Put(e.call))

UiOK ==
    /\ ui.connected /\ ~ui.link => \E i \in DOMAIN ui.evts : ui.evts[i].what = "lost"
    /\ \A i \in DOMAIN ui.evts : EventTrue(ui.evts[i])
    /\ SlotsExplained

IInv ==
    /\ Typed
    /\ \A c \in Calls : ConnOK(c) /\ HeardOK(c)
    /\ \A c \in Uploads : UpOK(c)
    /\ \A c \in Downloads : DownOK(c) /\ SeesOK(c)
    /\ DirOK
    /\ UiOK

-----------------------------------------------------------------------------
(* Frames: what a step that leaves a call alone keeps of the invariant *)

LEMMA Apart ==
  /\ \A c \in Uploads : c \in Calls /\ c \notin Downloads /\ c \in Objects /\ c # None
  /\ \A c \in Downloads : c \in Calls /\ c \notin Uploads
  /\ \A c \in Calls : c \in Uploads \/ c \in Downloads
  /\ Old \in Objects /\ Old \notin Uploads /\ Old # None
  /\ None \notin Objects /\ None \notin Length /\ None \notin Calls
  /\ 0 \in Length /\ MaxLen \in Nat
<1>1. MaxLen \in Nat /\ 0 \in 0..MaxLen
  BY CallerAssumption
<1>2. QED  BY <1>1, CallerAssumption DEF Calls, Objects, Length

LEMMA OutFacts ==
  ASSUME NEW o \in Outs, o # <<>>
  PROVE  o[1] \in Message /\ Head(o) = o[1] /\ Tail(o) = <<>>
<1>1. PICK m \in Message : o = <<m>>
  BY DEF Outs
<1>2. o[1] = m /\ Head(o) = m
  BY <1>1
<1>3. Len(o) = 1 /\ o \in Seq(Message)
  BY <1>1
<1>4. Tail(o) \in Seq(Message) /\ Len(Tail(o)) = 0
  BY <1>3
<1>5. Tail(o) = <<>>
  BY <1>4, EmptySeq
<1>6. QED  BY <1>1, <1>2, <1>5

LEMMA SayFacts ==
  ASSUME NEW m \in Message
  PROVE  /\ Append(<<>>, m) = <<m>> /\ <<m>> \in Outs /\ <<m>> # <<>> /\ <<m>>[1] = m
BY DEF Outs

LEMMA Kinds ==
  /\ \A k \in {"header", "block", "ok", "err"} : Msg(k) \in Message /\ Msg(k).kind = k
  /\ \A n \in Length : Header(n) \in Message /\ Header(n).kind = "header" /\ Header(n).size = n
BY Apart DEF Msg, Header, Message

LEMMA Numbers ==
  ASSUME Typed, NEW c \in Downloads
  PROVE  /\ agent[c].n \in Nat /\ pipe[c].n \in Nat /\ pipe[c].n <= 1
         /\ task[c].n \in Nat /\ task[c].size \in Nat /\ task[c].size <= MaxLen
<1>1. agent[c] \in Agents /\ pipe[c] \in Pipes /\ task[c] \in Tasks
  BY Apart DEF Typed
<1>2. pipe[c].n \in 0..1
  BY <1>1 DEF Pipes
<1>3. agent[c].n \in 0..MaxLen /\ task[c].n \in 0..MaxLen /\ task[c].size \in 0..MaxLen
  BY <1>1 DEF Agents, Tasks, Length
<1>4. QED  BY <1>2, <1>3, Apart

\* A step leaves call d alone.
Kept(d) ==
    /\ agent'[d] = agent[d] /\ local'[d] = local[d] /\ sock'[d] = sock[d]
    /\ conn'[d] = conn[d] /\ op'[d] = op[d] /\ reply'[d] = reply[d] /\ task'[d] = task[d]

\* The history only grows.
Grows ==
    /\ hist.seen \subseteq hist'.seen
    /\ hist.refused \subseteq hist'.refused /\ hist.gaveUp \subseteq hist'.gaveUp
    /\ hist'.first = hist.first
    /\ \A u \in Uploads : Put(u) => Put(u)'

LEMMA ConnFrame ==
  ASSUME NEW d, ConnOK(d), HeardOK(d), Kept(d), Grows
  PROVE  ConnOK(d)' /\ HeardOK(d)'
BY DEF ConnOK, HeardOK, Kept, Grows, LetDown

LEMMA UpFrame ==
  ASSUME NEW d, UpOK(d), Kept(d), len'[d] = len[d], dir'.bak[d] = dir.bak[d],
         hist'.put[d] = hist.put[d]
  PROVE  UpOK(d)'
BY DEF UpOK, Kept, Says, Put

LEMMA DownFrame ==
  ASSUME NEW d, DownOK(d), Kept(d), pipe'[d] = pipe[d], Grows
  PROVE  DownOK(d)'
<1>1. Moving(d)' = Moving(d) /\ (Whole(d) => Whole(d)')
  BY DEF Moving, Whole, Says, Kept, Grows
<1>2. QED  BY <1>1 DEF DownOK, Kept, Says, Grows

LEMMA SeesFrame ==
  ASSUME NEW d, SeesOK(d), agent'[d].pc \in {"head", "recv"} => agent[d].pc \in {"head", "recv"},
         task'[d] = task[d], Shown' \subseteq Shown, len'[task[d].obj] = len[task[d].obj], Grows
  PROVE  SeesOK(d)'
BY DEF SeesOK, Grows

\* A step of one call leaves the other calls alone.
LEMMA OneCall ==
  ASSUME IInv, Typed', NEW c \in Calls, Grows,
         \A d \in Calls : d # c => Kept(d),
         \A d \in Downloads : d # c => pipe'[d] = pipe[d],
         \A u \in Uploads : u # c => /\ len'[u] = len[u] /\ dir'.bak[u] = dir.bak[u]
                                     /\ hist'.put[u] = hist.put[u],
         ConnOK(c)' /\ HeardOK(c)',
         c \in Uploads => UpOK(c)',
         c \in Downloads => DownOK(c)',
         \A d \in Downloads : SeesOK(d)',
         DirOK', UiOK'
  PROVE  IInv'
<1>1. ASSUME NEW d \in Calls PROVE ConnOK(d)' /\ HeardOK(d)'
  BY ConnFrame DEF IInv
<1>2. ASSUME NEW d \in Uploads PROVE UpOK(d)'
  BY UpFrame, Apart DEF IInv
<1>3. ASSUME NEW d \in Downloads PROVE DownOK(d)'
  BY DownFrame, Apart DEF IInv
<1>4. QED  BY <1>1, <1>2, <1>3 DEF IInv

LEMMA DirFrame ==
  ASSUME DirOK, Grows, dir' = dir
  PROVE  DirOK'
BY DEF DirOK, Grows

LEMMA UiFrame ==
  ASSUME UiOK, Grows, ui' = ui,
         \A d \in Calls : op'[d] = "pending" =>
           /\ op[d] = "pending"
           /\ task[d].pc \notin {"none", "done"} => task'[d].pc \notin {"none", "done"}
           /\ d \in Downloads /\ pipe[d].sink = "err" => pipe'[d].sink = "err"
  PROVE  UiOK'
<1>1. \A i \in DOMAIN ui.evts : EventTrue(ui.evts[i])'
  BY DEF UiOK, EventTrue, Grows
<1>2. SlotsExplained'
  BY DEF UiOK, SlotsExplained, Pending
<1>3. QED  BY <1>1, <1>2 DEF UiOK

-----------------------------------------------------------------------------
(* The agent *)

\* A step of the agent: what iShell has is as it was.
LEMMA AgentStep ==
  ASSUME IInv, NEW c \in Calls,
         agent' \in [Calls -> Agents], sock' \in [Calls -> Socks],
         local' \in [Calls -> Files], hist' \in Hists, odd' \in 0..MaxOdd,
         \A d \in Calls : d # c => /\ agent'[d] = agent[d] /\ sock'[d] = sock[d]
                                   /\ local'[d] = local[d],
         UNCHANGED <<conn, op, reply, task, pipe, ui, dir, len>>,
         Grows, hist'.put = hist.put,
         ConnOK(c)', HeardOK(c)', c \in Uploads => UpOK(c)', c \in Downloads => DownOK(c)',
         c \in Downloads => SeesOK(c)'
  PROVE  IInv'
<1>1. Typed'
  BY DEF IInv, Typed
<1>2. \A d \in Calls : d # c => Kept(d)
  BY DEF Kept
<1>3. DirOK'
  BY DirFrame DEF IInv
<1>4. UiOK'
  BY UiFrame DEF IInv
<1>5. ASSUME NEW d \in Downloads PROVE SeesOK(d)'
  <2>1. CASE d # c
    <3>1. Shown' \subseteq Shown /\ agent'[d] = agent[d] /\ SeesOK(d)
      BY <2>1, Apart DEF Shown, IInv
    <3>2. QED  BY <3>1, SeesFrame
  <2>2. QED  BY <2>1
<1>6. QED  BY <1>1, <1>2, <1>3, <1>4, <1>5, OneCall

LEMMA Odds ==
  ASSUME Typed, Odd PROVE odd' \in 0..MaxOdd
<1>1. odd \in 0..MaxOdd /\ MaxOdd \in Nat
  BY CallerAssumption DEF Typed
<1>2. QED  BY <1>1 DEF Odd

LEMMA AskStep ==
  ASSUME IInv, NEW c \in Calls, Ask(c) PROVE IInv'
<1>1. Typed /\ ConnOK(c) /\ HeardOK(c) /\ agent[c].pc = "idle"
      /\ UNCHANGED <<local, sock, conn, op, reply, task, pipe, ui, dir, len, odd>>
  BY DEF IInv, Ask, theShell, theServer
<1> DEFINE p == IF c \in Uploads THEN "send" ELSE "head"
           z == IF c \in Uploads THEN local[c].len ELSE 0
           a == [pc |-> p, size |-> z, n |-> 0]
<1>2. agent' = [agent EXCEPT ![c] = a]
  BY DEF Ask
<1>3. p \in {"send", "head"} /\ (c \in Uploads => p = "send") /\ (c \in Downloads => p = "head")
      /\ z \in Length
  BY <1>1, Apart DEF Typed, Files
<1>4. a \in Agents /\ a.pc = p /\ a.size = z /\ a.n = 0
  BY <1>3, Apart DEF Agents, AgentPc
<1> HIDE DEF a, z, p
<1>5. agent' \in [Calls -> Agents] /\ agent'[c] = a /\ \A d \in Calls : d # c => agent'[d] = agent[d]
  BY <1>1, <1>2, <1>4 DEF Typed
<1>6. Shown \subseteq Objects \X Length
  BY <1>1 DEF Shown, Typed, Dirs, MaybeObject
<1>7. hist' \in Hists /\ Grows /\ hist'.put = hist.put
      /\ (c \in Downloads => Shown \subseteq hist'.seen)
  <2>1. CASE c \in Downloads
    <3>1. hist' = [hist EXCEPT !.seen = @ \cup Shown]
      BY <2>1 DEF Ask
    <3>2. QED  BY <1>1, <1>6, <3>1 DEF Typed, Hists, Grows, Put
  <2>2. CASE c \notin Downloads
    <3>1. hist' = hist
      BY <2>2 DEF Ask
    <3>2. QED  BY <1>1, <2>2, <3>1 DEF Typed, Grows, Put
  <2>3. QED  BY <2>1, <2>2
<1>8. conn[c] = "none" /\ op[c] = "none" /\ task[c].pc = "none" /\ agent[c].n = 0
      /\ sock[c].out = <<>>
  BY <1>1 DEF ConnOK
<1>9. ConnOK(c)' /\ HeardOK(c)'
  BY <1>1, <1>3, <1>4, <1>5, <1>8 DEF ConnOK, HeardOK
<1>10. ASSUME c \in Uploads PROVE UpOK(c)'
  <2>1. UpOK(c)
    BY <1>10 DEF IInv
  <2>2. ~sock[c].eof /\ hist.put[c] = None
    BY <1>1, <1>8, <2>1 DEF UpOK, Put
  <2>3. QED  BY <1>1, <1>3, <1>4, <1>5, <1>7, <1>8, <2>1, <2>2 DEF UpOK, Says, Put
<1>11. ASSUME c \in Downloads PROVE DownOK(c)' /\ SeesOK(c)'
  <2>1. DownOK(c) /\ SeesOK(c)
    BY <1>11 DEF IInv
  <2>2. Moving(c)' = Moving(c)
    BY <1>1, <1>4, <1>5, <1>8 DEF Moving, Says
  <2>3. pipe[c].outcome = "none" /\ ~sock[c].eof
    BY <1>1, <1>8, <2>1 DEF DownOK, Ended
  <2>4. DownOK(c)'
    BY <1>1, <1>3, <1>4, <1>5, <1>7, <1>8, <1>11, <2>1, <2>2, <2>3 DEF DownOK, Says, Grows
  <2>5. Shown' = Shown
    BY <1>1 DEF Shown
  <2>6. SeesOK(c)'
    BY <1>1, <1>5, <1>7, <1>8, <1>11, <2>1, <2>5 DEF SeesOK, Grows
  <2>7. QED  BY <2>4, <2>6
<1>12. QED
  BY <1>1, <1>5, <1>7, <1>9, <1>10, <1>11, AgentStep DEF Typed

LEMMA SendBodyStep ==
  ASSUME IInv, NEW c \in Calls, SendBody(c) PROVE IInv'
<1>1. Typed /\ ConnOK(c) /\ HeardOK(c) /\ UpOK(c) /\ c \in Uploads /\ c \notin Downloads
      /\ agent[c].pc = "send" /\ ~sock[c].closed
      /\ UNCHANGED <<local, conn, op, reply, task, pipe, ui, dir, len, hist, odd>>
  BY Apart DEF IInv, SendBody, theShell, theServer
<1>2. agent[c].n \in Length /\ local[c].len \in Length
  BY <1>1 DEF Typed, Agents, Files
<1>3. Grows
  BY <1>1 DEF Grows, Put
<1>4. CASE /\ agent[c].n < local[c].len /\ sock[c].in = 0
           /\ sock' = [sock EXCEPT ![c].in = 1]
           /\ agent' = [agent EXCEPT ![c].n = @ + 1]
  <2>1. agent[c].n + 1 \in Length
    BY <1>2, <1>4, Apart DEF Length
  <2>2. /\ agent' \in [Calls -> Agents] /\ agent'[c].pc = agent[c].pc
        /\ agent'[c].size = agent[c].size /\ agent'[c].n = agent[c].n + 1
        /\ \A d \in Calls : d # c => agent'[d] = agent[d]
    BY <1>1, <1>4, <2>1 DEF Typed, Agents
  <2>3. /\ sock' \in [Calls -> Socks] /\ sock'[c].in = 1 /\ sock'[c].out = sock[c].out
        /\ sock'[c].eof = sock[c].eof /\ sock'[c].closed = sock[c].closed
        /\ \A d \in Calls : d # c => sock'[d] = sock[d]
    BY <1>1, <1>4 DEF Typed, Socks
  <2>4. ConnOK(c)' /\ HeardOK(c)'
    BY <1>1, <2>2, <2>3 DEF ConnOK, HeardOK, LetDown
  <2>5. UpOK(c)'
    <3>1. ~sock[c].eof /\ ~Put(c) /\ task[c].pc \notin {"close", "backup", "swap", "restore", "clean"}
      BY <1>1 DEF UpOK
    <3>2. (conn[c] \in {"none", "read"} \/ op[c] = "posted" \/ task[c].pc \in {"cmd", "read"})
             => agent'[c].n = task[c].n + sock'[c].in
      <4>1. task[c].n \in Nat /\ agent[c].n \in Nat
        BY <1>1 DEF Typed, Tasks, Agents, Length
      <4>2. QED  BY <1>1, <1>4, <2>2, <2>3, <4>1 DEF UpOK
    <3>3. QED  BY <1>1, <2>2, <2>3, <3>1, <3>2 DEF UpOK, Says, Put
  <2>6. QED  BY <1>1, <1>3, <2>2, <2>3, <2>4, <2>5, AgentStep DEF Typed
<1>5. CASE /\ sock' = [sock EXCEPT ![c].eof = TRUE]
           /\ agent' = [agent EXCEPT ![c].pc = "wait"]
  <2>1. /\ agent' \in [Calls -> Agents] /\ agent'[c].pc = "wait"
        /\ agent'[c].size = agent[c].size /\ agent'[c].n = agent[c].n
        /\ \A d \in Calls : d # c => agent'[d] = agent[d]
    BY <1>1, <1>5 DEF Typed, Agents, AgentPc
  <2>2. /\ sock' \in [Calls -> Socks] /\ sock'[c].in = sock[c].in /\ sock'[c].out = sock[c].out
        /\ sock'[c].eof = TRUE /\ sock'[c].closed = sock[c].closed
        /\ \A d \in Calls : d # c => sock'[d] = sock[d]
    <3> DEFINE s == [sock[c] EXCEPT !.eof = TRUE]
    <3>1. sock[c] \in Socks /\ sock \in [Calls -> Socks] /\ TRUE \in BOOLEAN
      BY <1>1 DEF Typed
    <3>2. /\ s \in Socks /\ s.in = sock[c].in /\ s.out = sock[c].out /\ s.eof = TRUE
          /\ s.closed = sock[c].closed
      BY <3>1 DEF Socks
    <3>3. sock' = [sock EXCEPT ![c] = s]
      BY <1>5, <3>1
    <3> HIDE DEF s
    <3>4. QED  BY <3>1, <3>2, <3>3
  <2>3. ConnOK(c)' /\ HeardOK(c)'
    BY <1>1, <2>1, <2>2 DEF ConnOK, HeardOK, LetDown
  <2>4. UpOK(c)'
    BY <1>1, <2>1, <2>2 DEF UpOK, Says, Put
  <2>5. QED  BY <1>1, <1>3, <2>1, <2>2, <2>3, <2>4, AgentStep DEF Typed
<1>6. QED  BY <1>4, <1>5 DEF SendBody

\* The agent is done with its connection: with an answer it was given, with
\* none when it was let down, or killed.
LEMMA EndsStep ==
  ASSUME IInv, NEW c \in Calls, NEW how \in Ended, AgentEnds(c, how), agent[c].pc # "idle",
         UNCHANGED <<conn, op, reply, task, pipe, ui, dir, len, hist>>, odd' \in 0..MaxOdd,
         local' \in [Calls -> Files], \A d \in Calls : d # c => local'[d] = local[d],
         how = "unheard" => LetDown(c),
         c \in Uploads /\ how = "ok" => Put(c),
         c \in Downloads /\ local'[c].obj # None => <<local'[c].obj, local'[c].len>> \in hist.seen
  PROVE  IInv'
<1>1. Typed /\ ConnOK(c)
  BY DEF IInv
<1>2. /\ agent' \in [Calls -> Agents] /\ agent'[c].pc = how
      /\ agent'[c].size = agent[c].size /\ agent'[c].n = agent[c].n
      /\ \A d \in Calls : d # c => agent'[d] = agent[d]
  BY <1>1 DEF AgentEnds, Typed, Agents, AgentPc
<1>3. /\ sock' \in [Calls -> Socks] /\ sock'[c].in = sock[c].in /\ sock'[c].out = <<>>
      /\ sock'[c].eof = TRUE /\ sock'[c].closed = sock[c].closed
      /\ \A d \in Calls : d # c => sock'[d] = sock[d]
  <2> DEFINE s == [sock[c] EXCEPT !.eof = TRUE, !.out = <<>>]
  <2>1. sock[c] \in Socks /\ sock \in [Calls -> Socks] /\ TRUE \in BOOLEAN /\ <<>> \in Outs
    BY <1>1 DEF Typed, Outs
  <2>2. /\ s \in Socks /\ s.in = sock[c].in /\ s.out = <<>> /\ s.eof = TRUE
        /\ s.closed = sock[c].closed
    BY <2>1 DEF Socks
  <2>3. sock' = [sock EXCEPT ![c] = s]
    BY <2>1 DEF AgentEnds
  <2> HIDE DEF s
  <2>4. QED  BY <2>1, <2>2, <2>3
<1>4. how \notin {"idle", "send", "wait", "head", "recv"}
  BY DEF Ended
<1>5. Grows
  BY DEF Grows, Put
<1>6. ConnOK(c)' /\ HeardOK(c)'
  BY <1>1, <1>2, <1>3, <1>4 DEF ConnOK, HeardOK, LetDown
<1>7. ASSUME c \in Uploads PROVE UpOK(c)'
  <2>1. UpOK(c)
    BY <1>7 DEF IInv
  <2>2. QED  BY <1>2, <1>3, <1>4, <1>7, <2>1 DEF UpOK, Says, Put
<1>8. ASSUME c \in Downloads PROVE DownOK(c)' /\ SeesOK(c)'
  <2>1. DownOK(c) /\ SeesOK(c)
    BY <1>8 DEF IInv
  <2>2. agent[c].n \in Nat /\ pipe[c].n \in Nat /\ task[c].n \in Nat /\ task[c].size \in Nat
    BY <1>1, <1>8, Numbers
  <2>3. Moving(c)' = agent[c].n + pipe[c].n
    <3>1. ~Says(c, "block")' /\ pipe' = pipe
      BY <1>3 DEF Says
    <3>2. QED  BY <1>2, <2>2, <3>1 DEF Moving
  <2>4. Moving(c)' <= Moving(c) /\ Moving(c) \in Nat /\ Moving(c)' \in Nat
    BY <2>2, <2>3 DEF Moving
  <2>5. Moving(c)' <= (IF pipe[c].sink = "source" THEN task[c].size ELSE 0)
    BY <2>1, <2>2, <2>4 DEF DownOK
  <2>6. task[c].pc \in {"open", "read"} => Moving(c)' <= task[c].n
    BY <2>1, <2>2, <2>4 DEF DownOK
  <2>7. DownOK(c)'
    BY <1>2, <1>3, <1>4, <1>8, <2>1, <2>5, <2>6 DEF DownOK, Says, Whole
  <2>8. SeesOK(c)'
    BY <1>2, <1>4, <2>1 DEF SeesOK, Put
  <2>9. QED  BY <2>7, <2>8
<1>9. QED  BY <1>1, <1>2, <1>3, <1>5, <1>6, <1>7, <1>8, AgentStep DEF Typed

LEMMA HearUploadStep ==
  ASSUME IInv, NEW c \in Calls, HearUpload(c) PROVE IInv'
<1>1. Typed /\ ConnOK(c) /\ HeardOK(c) /\ UpOK(c) /\ c \in Uploads /\ c \notin Downloads
      /\ agent[c].pc \in {"send", "wait"}
      /\ UNCHANGED <<local, conn, op, reply, task, pipe, ui, dir, len, hist, odd>>
  BY Apart DEF IInv, HearUpload, theShell, theServer
<1>2. local' \in [Calls -> Files] /\ \A d \in Calls : local'[d] = local[d]
  BY <1>1 DEF Typed
<1>3. CASE sock[c].out # <<>> /\ AgentEnds(c, Head(sock[c].out).kind)
  <2>1. sock[c].out \in Outs
    BY <1>1 DEF Typed, Socks
  <2>2. Head(sock[c].out) = sock[c].out[1] /\ (Says(c, "ok") \/ Says(c, "err"))
    BY <1>1, <1>3, <2>1, OutFacts DEF UpOK
  <2>3. sock[c].out[1].kind \in {"ok", "err"} /\ (sock[c].out[1].kind = "ok" => Put(c))
    BY <1>1, <1>3, <2>2 DEF Says, UpOK
  <2>4. sock[c].out[1].kind \in Ended /\ sock[c].out[1].kind # "unheard"
    BY <2>3 DEF Ended
  <2>5. QED  BY <1>1, <1>2, <1>3, <2>2, <2>3, <2>4, EndsStep DEF Typed
<1>4. CASE sock[c].out = <<>> /\ sock[c].closed /\ AgentEnds(c, "unheard")
  <2>1. LetDown(c)
    BY <1>1, <1>4 DEF ConnOK, HeardOK
  <2>2. "unheard" \in Ended
    BY DEF Ended
  <2>3. QED  BY <1>1, <1>2, <1>4, <2>1, <2>2, EndsStep DEF Typed
<1>5. QED  BY <1>3, <1>4 DEF HearUpload

\* A download takes a message off its socket: the header or a block.
LEMMA HearsStep ==
  ASSUME IInv, NEW c \in Downloads, NEW now \in Agents,
         agent' = [agent EXCEPT ![c] = now],
         sock' = [sock EXCEPT ![c].out = Tail(@)],
         UNCHANGED <<local, conn, op, reply, task, pipe, ui, dir, len, hist, odd>>,
         sock[c].out # <<>>, agent[c].pc \in {"head", "recv"},
         now.pc = "recv", now.size = task[c].size, pipe[c].sink = "source",
         now.n = agent[c].n + (IF Says(c, "block") THEN 1 ELSE 0)
  PROVE  IInv'
<1>1. Typed /\ ConnOK(c) /\ HeardOK(c) /\ DownOK(c) /\ SeesOK(c) /\ c \in Calls /\ c \notin Uploads
  BY Apart DEF IInv
<1>2. /\ agent' \in [Calls -> Agents] /\ agent'[c] = now
      /\ \A d \in Calls : d # c => agent'[d] = agent[d]
  BY <1>1 DEF Typed
<1>3. sock[c].out \in Outs
  BY <1>1 DEF Typed, Socks
<1>4. Tail(sock[c].out) = <<>> /\ <<>> \in Outs
  BY <1>3, OutFacts DEF Outs
<1>5. /\ sock' \in [Calls -> Socks] /\ sock'[c].in = sock[c].in /\ sock'[c].out = <<>>
      /\ sock'[c].eof = sock[c].eof /\ sock'[c].closed = sock[c].closed
      /\ \A d \in Calls : d # c => sock'[d] = sock[d]
  <2>1. sock \in [Calls -> Socks]
    BY <1>1 DEF Typed
  <2> DEFINE o == Tail(sock[c].out)
  <2>2. o \in Outs /\ o = <<>>
    BY <1>4
  <2>3. sock' = [sock EXCEPT ![c].out = o]
    OBVIOUS
  <2> HIDE DEF o
  <2>4. QED  BY <1>1, <2>1, <2>2, <2>3 DEF Socks
<1>6. Grows
  BY DEF Grows, Put
<1>7. ConnOK(c)' /\ HeardOK(c)'
  BY <1>1, <1>2, <1>5 DEF ConnOK, HeardOK, LetDown
<1>8. Moving(c)' = Moving(c)
  <2>1. agent[c].n \in Nat /\ pipe[c].n \in Nat
    BY <1>1, Numbers
  <2>2. ~Says(c, "block")'
    BY <1>5 DEF Says
  <2>3. QED  BY <1>2, <2>1, <2>2 DEF Moving
<1>9. DownOK(c)'
  <2>1. ~sock[c].eof
    BY <1>1 DEF DownOK, Ended
  <2>2. QED  BY <1>1, <1>2, <1>5, <1>8, <2>1 DEF DownOK, Says, Whole
<1>10. SeesOK(c)'
  BY <1>1, <1>2 DEF SeesOK, Put, Shown
<1>11. QED  BY <1>1, <1>2, <1>5, <1>6, <1>7, <1>9, <1>10, AgentStep DEF Typed

LEMMA HearDownloadStep ==
  ASSUME IInv, NEW c \in Calls, HearDownload(c) PROVE IInv'
<1>1. Typed /\ ConnOK(c) /\ HeardOK(c) /\ DownOK(c) /\ SeesOK(c) /\ c \in Downloads
      /\ c \notin Uploads /\ sock[c].out # <<>>
      /\ UNCHANGED <<conn, op, reply, task, pipe, ui, dir, len, hist, odd>>
  BY Apart DEF IInv, HearDownload, theShell, theServer
<1> DEFINE msg == Head(sock[c].out)
           a == agent[c]
<1>2. sock[c].out \in Outs
  BY <1>1 DEF Typed, Socks
<1>3. msg \in Message /\ msg = sock[c].out[1]
  BY <1>1, <1>2, OutFacts
<1>4. a \in Agents /\ a.n \in Nat /\ pipe[c].n \in Nat /\ task[c].size \in Nat /\ task[c].size <= MaxLen
  BY <1>1, Numbers, Apart DEF Typed
<1>5. local' = local => /\ local' \in [Calls -> Files] /\ \A d \in Calls : d # c => local'[d] = local[d]
                        /\ local'[c].obj # None => <<local'[c].obj, local'[c].len>> \in hist.seen
  BY <1>1 DEF Typed, DownOK
<1>6. CASE /\ a.pc = "head" /\ msg.kind = "header"
           /\ agent' = [agent EXCEPT ![c] = [a EXCEPT !.pc = "recv", !.size = msg.size]]
           /\ sock' = [sock EXCEPT ![c].out = Tail(@)] /\ UNCHANGED local
  <2> DEFINE now == [a EXCEPT !.pc = "recv", !.size = msg.size]
  <2>1. Says(c, "header") /\ ~Says(c, "block") /\ msg.size \in Length
    BY <1>1, <1>3, <1>6 DEF Says, Message
  <2>2. now \in Agents /\ now.pc = "recv" /\ now.size = msg.size /\ now.n = a.n
    BY <1>4, <2>1 DEF Agents, AgentPc
  <2>3. now.size = task[c].size /\ pipe[c].sink = "source"
    BY <1>1, <1>3, <2>1, <2>2 DEF DownOK
  <2>4. now.n = agent[c].n + (IF Says(c, "block") THEN 1 ELSE 0)
    BY <1>4, <2>1, <2>2
  <2> HIDE DEF now
  <2>5. agent' = [agent EXCEPT ![c] = now]
    BY <1>6 DEF now
  <2>6. agent[c].pc = "head" /\ local' = local
    BY <1>6
  <2>7. sock' = [sock EXCEPT ![c].out = Tail(@)]
    BY <1>6
  <2>8. QED  BY <1>1, <2>2, <2>3, <2>4, <2>5, <2>6, <2>7, HearsStep
<1>7. CASE a.pc = "head" /\ AgentEnds(c, "err") /\ UNCHANGED local
  <2>1. "err" \in Ended /\ "err" # "unheard" /\ "err" # "ok"
    BY DEF Ended
  <2>2. QED  BY <1>1, <1>5, <1>7, <2>1, EndsStep DEF Typed
<1>8. CASE /\ a.pc = "recv" /\ msg.kind = "block"
           /\ agent' = [agent EXCEPT ![c] = [a EXCEPT !.n = @ + 1]]
           /\ sock' = [sock EXCEPT ![c].out = Tail(@)] /\ UNCHANGED local
  <2> DEFINE now == [a EXCEPT !.n = @ + 1]
  <2>1. Says(c, "block")
    BY <1>1, <1>3, <1>8 DEF Says
  <2>2. pipe[c].sink = "source" /\ a.size = task[c].size /\ Moving(c) <= task[c].size
    BY <1>1, <1>8 DEF DownOK
  <2>3. a.n + 1 <= MaxLen
    BY <1>4, <2>1, <2>2, Apart DEF Moving
  <2>4. a.n + 1 \in Length
    BY <1>4, <2>3, Apart DEF Length
  <2>5. now \in Agents /\ now.pc = "recv" /\ now.size = a.size /\ now.n = a.n + 1
    BY <1>4, <1>8, <2>4 DEF Agents
  <2>6. now.n = agent[c].n + (IF Says(c, "block") THEN 1 ELSE 0)
    BY <2>1, <2>5
  <2> HIDE DEF now
  <2>7. agent' = [agent EXCEPT ![c] = now]
    BY <1>8 DEF now
  <2>8. now.size = task[c].size /\ agent[c].pc = "recv" /\ local' = local
    BY <1>8, <2>2, <2>5
  <2>9. sock' = [sock EXCEPT ![c].out = Tail(@)]
    BY <1>8
  <2>10. QED  BY <1>1, <2>2, <2>5, <2>6, <2>7, <2>8, <2>9, HearsStep
<1>9. CASE /\ a.pc = "recv" /\ Installs(c, msg)
           /\ local' = [local EXCEPT ![c] = [obj |-> task[c].obj, len |-> a.n]]
           /\ AgentEnds(c, "ok")
  <2>1. Says(c, "ok") /\ a.n = a.size
    BY <1>1, <1>3, <1>9 DEF Says, Installs
  <2>2. task[c].obj # None /\ <<task[c].obj, task[c].size>> \in hist.seen /\ a.size = task[c].size
    BY <1>1, <1>9, <2>1 DEF DownOK, Whole
  <2>3. task[c].obj \in MaybeObject /\ a.n \in Length
    BY <1>1 DEF Typed, Tasks, Agents
  <2>4. /\ local' \in [Calls -> Files] /\ local'[c].obj = task[c].obj /\ local'[c].len = a.n
        /\ \A d \in Calls : d # c => local'[d] = local[d]
    BY <1>1, <1>9, <2>3 DEF Typed, Files
  <2>5. "ok" \in Ended /\ "ok" # "unheard"
    BY DEF Ended
  <2>6. <<local'[c].obj, local'[c].len>> \in hist.seen
    BY <2>1, <2>2, <2>4
  <2>7. QED  BY <1>1, <1>9, <2>4, <2>5, <2>6, EndsStep DEF Typed
<1>10. CASE a.pc = "recv" /\ AgentEnds(c, "err") /\ UNCHANGED local
  <2>1. "err" \in Ended /\ "err" # "unheard" /\ "err" # "ok"
    BY DEF Ended
  <2>2. QED  BY <1>1, <1>5, <1>10, <2>1, EndsStep DEF Typed
<1>11. QED  BY <1>6, <1>7, <1>8, <1>9, <1>10 DEF HearDownload

LEMMA HearEndStep ==
  ASSUME IInv, NEW c \in Calls, HearEnd(c) PROVE IInv'
<1>1. Typed /\ ConnOK(c) /\ HeardOK(c) /\ DownOK(c) /\ c \in Downloads /\ c \notin Uploads
      /\ agent[c].pc \in {"head", "recv"} /\ sock[c].out = <<>> /\ sock[c].closed
      /\ AgentEnds(c, IF agent[c].pc = "head" THEN "unheard" ELSE "err")
      /\ UNCHANGED <<local, conn, op, reply, task, pipe, ui, dir, len, hist, odd>>
  BY Apart DEF IInv, HearEnd, theShell, theServer
<1> DEFINE how == IF agent[c].pc = "head" THEN "unheard" ELSE "err"
<1>2. how \in Ended /\ (how = "unheard" => LetDown(c))
  BY <1>1 DEF Ended, ConnOK, HeardOK
<1> HIDE DEF how
<1>3. AgentEnds(c, how)
  BY <1>1 DEF how
<1>4. /\ local' \in [Calls -> Files] /\ \A d \in Calls : d # c => local'[d] = local[d]
      /\ local'[c].obj # None => <<local'[c].obj, local'[c].len>> \in hist.seen
  BY <1>1 DEF Typed, DownOK
<1>5. QED  BY <1>1, <1>2, <1>3, <1>4, EndsStep DEF Typed

LEMMA KillStep ==
  ASSUME IInv, NEW c \in Calls, Kill(c) PROVE IInv'
<1>1. Typed /\ agent[c].pc # "idle" /\ AgentEnds(c, "killed")
      /\ UNCHANGED <<local, conn, op, reply, task, pipe, ui, dir, len, hist>>
  BY DEF IInv, Kill, theShell, theServer
<1>2. odd' \in 0..MaxOdd
  BY <1>1, Odds DEF Kill
<1>3. "killed" \in Ended /\ "killed" # "unheard" /\ "killed" # "ok"
  BY DEF Ended
<1>4. local' \in [Calls -> Files] /\ \A d \in Calls : d # c => local'[d] = local[d]
  BY <1>1 DEF Typed
<1>5. c \in Downloads /\ local'[c].obj # None => <<local'[c].obj, local'[c].len>> \in hist.seen
  BY <1>1 DEF IInv, DownOK
<1>6. QED  BY <1>1, <1>2, <1>3, <1>4, <1>5, EndsStep

LEMMA EditLocalStep ==
  ASSUME IInv, NEW c \in Uploads, EditLocal(c) PROVE IInv'
<1>1. Typed /\ c \in Calls /\ c \notin Downloads
      /\ UNCHANGED <<agent, sock, conn, op, reply, task, pipe, ui, dir, len, hist>>
  BY Apart DEF IInv, EditLocal, theShell, theServer
<1>2. odd' \in 0..MaxOdd
  BY <1>1, Odds DEF EditLocal
<1>3. PICK n \in Length : local' = [local EXCEPT ![c].len = n]
  BY DEF EditLocal, Length
<1>4. local' \in [Calls -> Files] /\ \A d \in Calls : d # c => local'[d] = local[d]
  BY <1>1, <1>3 DEF Typed, Files
<1>5. Grows
  BY <1>1 DEF Grows, Put
<1>6. ConnOK(c)' /\ HeardOK(c)' /\ UpOK(c)'
  BY <1>1 DEF IInv, ConnOK, HeardOK, LetDown, UpOK, Says, Put
<1>7. QED  BY <1>1, <1>2, <1>4, <1>5, <1>6, AgentStep DEF Typed

-----------------------------------------------------------------------------
(* The connection *)

\* A step of the task of a connection: it reads and writes the socket, and
\* posts the call or takes a block out of the pipe.
LEMMA ConnStep ==
  ASSUME IInv, NEW c \in Calls,
         sock' \in [Calls -> Socks], conn' \in [Calls -> ConnPc],
         op' \in [Calls -> {"none", "posted", "pending", "over"}],
         pipe' \in [Downloads -> Pipes], hist' \in Hists, odd' \in 0..MaxOdd,
         \A d \in Calls : d # c => /\ sock'[d] = sock[d] /\ conn'[d] = conn[d]
                                   /\ op'[d] = op[d],
         \A d \in Downloads : /\ d # c => pipe'[d] = pipe[d]
                              /\ pipe'[d].sink = pipe[d].sink,
         UNCHANGED <<agent, local, reply, task, ui, dir, len>>,
         Grows, hist'.put = hist.put,
         op'[c] = "pending" => op[c] = "pending",
         ConnOK(c)', HeardOK(c)', c \in Uploads => UpOK(c)', c \in Downloads => DownOK(c)'
  PROVE  IInv'
<1>1. Typed'
  BY DEF IInv, Typed
<1>2. \A d \in Calls : d # c => Kept(d)
  BY DEF Kept
<1>3. DirOK'
  BY DirFrame DEF IInv
<1>4. UiOK'
  BY UiFrame DEF IInv
<1>5. ASSUME NEW d \in Downloads PROVE SeesOK(d)'
  <2>1. Shown' \subseteq Shown /\ SeesOK(d)
    BY <1>5 DEF Shown, IInv
  <2>2. QED  BY <2>1, SeesFrame
<1>6. QED  BY <1>1, <1>2, <1>3, <1>4, <1>5, OneCall

LEMMA ClosedFacts ==
  ASSUME NEW s \in Socks, NEW t \in Closed(s)
  PROVE  /\ t \in Socks /\ t.closed = TRUE /\ t.in = s.in /\ t.eof = s.eof
         /\ t.out = s.out \/ (s.in > 0 /\ t.out = <<>>)
<1>1. TRUE \in BOOLEAN /\ <<>> \in Outs
  BY DEF Outs
<1>2. QED  BY <1>1 DEF Closed, Socks

LEMMA SaidFacts ==
  ASSUME NEW s \in Socks, NEW m \in Message, s.out = <<>>
  PROVE  /\ Say(s, m) \in Socks /\ Say(s, m).out = <<m>> /\ Say(s, m).in = s.in
         /\ Say(s, m).eof = s.eof /\ Say(s, m).closed = s.closed
<1>1. Append(s.out, m) = <<m>> /\ <<m>> \in Outs
  BY SayFacts
<1> DEFINE o == Append(s.out, m)
<1>2. o \in Outs /\ o = <<m>>
  BY <1>1
<1>3. Say(s, m) = [s EXCEPT !.out = o]
  BY DEF Say
<1> HIDE DEF o
<1>4. QED  BY <1>2, <1>3 DEF Socks

\* What the end of a connection leaves of its socket.
LEMMA CloseFacts ==
  ASSUME Typed, NEW c \in Calls, Close(c)
  PROVE  /\ conn' \in [Calls -> ConnPc] /\ conn'[c] = "closed" /\ sock' \in [Calls -> Socks]
         /\ sock'[c].closed = TRUE /\ sock'[c].in = sock[c].in /\ sock'[c].eof = sock[c].eof
         /\ sock'[c].out = sock[c].out \/ (sock[c].in > 0 /\ sock'[c].out = <<>>)
         /\ \A d \in Calls : d # c => sock'[d] = sock[d] /\ conn'[d] = conn[d]
<1>1. conn' \in [Calls -> ConnPc] /\ conn'[c] = "closed" /\ \A d \in Calls : d # c => conn'[d] = conn[d]
  BY DEF Close, Typed, ConnPc
<1>2. PICK t \in Closed(sock[c]) : sock' = [sock EXCEPT ![c] = t]
  BY DEF Close
<1>3. sock[c] \in Socks /\ sock \in [Calls -> Socks]
  BY DEF Typed
<1>4. /\ t \in Socks /\ t.closed = TRUE /\ t.in = sock[c].in /\ t.eof = sock[c].eof
      /\ t.out = sock[c].out \/ (sock[c].in > 0 /\ t.out = <<>>)
  BY <1>3, ClosedFacts
<1>5. sock' \in [Calls -> Socks] /\ sock'[c] = t /\ \A d \in Calls : d # c => sock'[d] = sock[d]
  BY <1>2, <1>3, <1>4
<1>6. QED  BY <1>1, <1>4, <1>5

\* A connection ends: its agent has heard, or is gone, or is let down.
LEMMA CloseStep ==
  ASSUME IInv, NEW c \in Calls, Close(c), conn[c] # "none",
         UNCHANGED <<agent, local, op, reply, task, pipe, ui, dir, len, odd>>,
         hist' \in Hists, Grows, hist'.put = hist.put,
         \/ agent[c].pc \notin {"send", "wait", "head"}
         \/ LetDown(c)' \/ (sock[c].in = 0 /\ (sock[c].out # <<>> \/ LetDown(c)))
  PROVE  IInv'
<1>1. Typed /\ ConnOK(c) /\ HeardOK(c)
  BY DEF IInv
<1>2. /\ conn' \in [Calls -> ConnPc] /\ conn'[c] = "closed" /\ sock' \in [Calls -> Socks]
      /\ sock'[c].closed = TRUE /\ sock'[c].in = sock[c].in /\ sock'[c].eof = sock[c].eof
      /\ sock'[c].out = sock[c].out \/ (sock[c].in > 0 /\ sock'[c].out = <<>>)
      /\ \A d \in Calls : d # c => sock'[d] = sock[d] /\ conn'[d] = conn[d]
  BY <1>1, CloseFacts
<1>3. sock[c].in \in 0..1
  BY <1>1 DEF Typed, Socks
<1>4. ConnOK(c)' /\ HeardOK(c)'
  <2>1. ConnOK(c)'
    BY <1>1, <1>2 DEF ConnOK
  <2>2. LetDown(c) => LetDown(c)'
    BY DEF LetDown, Grows
  <2>3. HeardOK(c)'
    BY <1>1, <1>2, <1>3, <2>2 DEF HeardOK
  <2>4. QED  BY <2>1, <2>3
<1>5. ASSUME c \in Uploads PROVE UpOK(c)'
  <2>1. UpOK(c)
    BY <1>5 DEF IInv
  <2>2. sock'[c].out = sock[c].out \/ sock'[c].out = <<>>
    BY <1>2
  <2>3. QED  BY <1>2, <2>1, <2>2 DEF UpOK, Says, Put
<1>6. ASSUME c \in Downloads PROVE DownOK(c)'
  <2>1. DownOK(c) /\ c \in Downloads
    BY <1>6 DEF IInv
  <2>2. sock'[c].out = sock[c].out
    BY <1>2, <2>1 DEF DownOK
  <2>3. Moving(c)' = Moving(c) /\ (Whole(c) => Whole(c)')
    BY <2>2 DEF Moving, Says, Whole, Grows
  <2>4. QED  BY <1>2, <2>1, <2>2, <2>3 DEF DownOK, Says, Grows
<1>7. op' \in [Calls -> {"none", "posted", "pending", "over"}] /\ pipe' \in [Downloads -> Pipes]
      /\ odd' \in 0..MaxOdd
  BY <1>1 DEF Typed
<1>8. QED  BY <1>2, <1>4, <1>5, <1>6, <1>7, ConnStep

\* An answer goes out and the connection ends, with nothing unread.
LEMMA ReplyCloseStep ==
  ASSUME IInv, NEW c \in Calls, NEW kind \in {"ok", "err"}, ReplyThenClose(c, kind),
         conn[c] # "none", sock[c].in = 0, sock[c].out = <<>>,
         UNCHANGED <<agent, local, op, reply, task, pipe, ui, dir, len, hist>>,
         odd' \in 0..MaxOdd,
         c \in Uploads /\ kind = "ok" => Put(c),
         c \in Downloads /\ kind = "ok" => pipe[c].outcome = "ok"
  PROVE  IInv'
<1>1. Typed /\ ConnOK(c) /\ HeardOK(c) /\ sock[c] \in Socks
  BY DEF IInv, Typed
<1>2. conn' \in [Calls -> ConnPc] /\ conn'[c] = "closed" /\ \A d \in Calls : d # c => conn'[d] = conn[d]
  BY <1>1 DEF ReplyThenClose, Typed, ConnPc
<1> DEFINE m == Msg(kind)
           s == Say(sock[c], m)
<1>3. m \in Message /\ m.kind = kind
  BY Kinds
<1> HIDE DEF m
<1>4. s \in Socks /\ s.out = <<m>> /\ s.in = 0 /\ s.eof = sock[c].eof
  BY <1>1, <1>3, SaidFacts
<1> HIDE DEF s
<1>5. PICK t \in Closed(s) : sock' = [sock EXCEPT ![c] = t]
  BY DEF ReplyThenClose, s, m
<1>6. t \in Socks /\ t.closed = TRUE /\ t.in = 0 /\ t.eof = sock[c].eof /\ t.out = <<m>>
  <2>1. ~(s.in > 0)
    BY <1>4
  <2>2. /\ t \in Socks /\ t.closed = TRUE /\ t.in = s.in /\ t.eof = s.eof
        /\ t.out = s.out \/ (s.in > 0 /\ t.out = <<>>)
    BY <1>4, <1>5, ClosedFacts
  <2>3. QED  BY <1>4, <2>1, <2>2
<1>7. sock' \in [Calls -> Socks] /\ sock'[c] = t /\ \A d \in Calls : d # c => sock'[d] = sock[d]
  BY <1>1, <1>5, <1>6 DEF Typed
<1>8. <<m>> # <<>> /\ <<m>>[1] = m
  OBVIOUS
<1>9. /\ sock'[c].out # <<>> /\ sock'[c].out[1].kind = kind /\ sock'[c].in = sock[c].in
      /\ sock'[c].eof = sock[c].eof /\ sock'[c].closed = TRUE
  BY <1>3, <1>6, <1>7, <1>8
<1>10. ConnOK(c)' /\ HeardOK(c)'
  BY <1>1, <1>2, <1>9 DEF ConnOK, HeardOK, LetDown
<1>11. ASSUME c \in Uploads PROVE UpOK(c)'
  <2>1. UpOK(c)
    BY <1>11 DEF IInv
  <2>2. QED  BY <1>2, <1>9, <1>11, <2>1 DEF UpOK, Says, Put
<1>12. ASSUME c \in Downloads PROVE DownOK(c)'
  <2>1. DownOK(c) /\ c \in Downloads
    BY <1>12 DEF IInv
  <2>2. Moving(c)' = Moving(c) /\ (Whole(c) => Whole(c)')
    BY <1>9 DEF Moving, Says, Whole
  <2>3. QED  BY <1>2, <1>9, <2>1, <2>2 DEF DownOK, Says
<1>13. op' \in [Calls -> {"none", "posted", "pending", "over"}] /\ pipe' \in [Downloads -> Pipes]
      /\ hist' \in Hists /\ Grows
  BY <1>1 DEF Typed, Grows, Put
<1>14. QED  BY <1>2, <1>7, <1>10, <1>11, <1>12, <1>13, ConnStep

LEMMA AcceptStep ==
  ASSUME IInv, NEW c \in Calls, Accept(c) PROVE IInv'
<1>1. Typed /\ ConnOK(c) /\ HeardOK(c) /\ conn[c] = "none" /\ agent[c].pc # "idle"
      /\ UNCHANGED <<agent, local, op, reply, task, pipe, dir, len, ui>>
  BY DEF IInv, Accept, theServer
<1>2. op' \in [Calls -> {"none", "posted", "pending", "over"}] /\ pipe' \in [Downloads -> Pipes]
  BY <1>1 DEF Typed
<1>3. CASE conn' = [conn EXCEPT ![c] = "read"] /\ UNCHANGED <<sock, hist, odd>>
  <2>1. conn' \in [Calls -> ConnPc] /\ conn'[c] = "read" /\ \A d \in Calls : d # c => conn'[d] = conn[d]
    BY <1>1, <1>3 DEF Typed, ConnPc
  <2>2. sock' \in [Calls -> Socks] /\ hist' \in Hists /\ odd' \in 0..MaxOdd /\ Grows
    BY <1>1, <1>3 DEF Typed, Grows, Put
  <2>3. ConnOK(c)' /\ HeardOK(c)'
    BY <1>1, <1>3, <2>1 DEF ConnOK, HeardOK, LetDown
  <2>4. c \in Uploads => UpOK(c)'
    BY <1>1, <1>3, <2>1 DEF IInv, UpOK, Says, Put
  <2>5. c \in Downloads => DownOK(c)'
    BY <1>1, <1>3, <2>1 DEF IInv, DownOK, Says, Moving, Whole
  <2>6. QED  BY <1>1, <1>2, <1>3, <2>1, <2>2, <2>3, <2>4, <2>5, ConnStep
<1>4. CASE /\ Odd /\ conn' = [conn EXCEPT ![c] = "closed"]
           /\ sock' = [sock EXCEPT ![c].closed = TRUE]
           /\ hist' = [hist EXCEPT !.refused = @ \cup {c}]
  <2>1. conn' \in [Calls -> ConnPc] /\ conn'[c] = "closed" /\ \A d \in Calls : d # c => conn'[d] = conn[d]
    BY <1>1, <1>4 DEF Typed, ConnPc
  <2>2. /\ sock' \in [Calls -> Socks] /\ sock'[c].in = sock[c].in /\ sock'[c].out = sock[c].out
        /\ sock'[c].eof = sock[c].eof /\ sock'[c].closed = TRUE
        /\ \A d \in Calls : d # c => sock'[d] = sock[d]
    BY <1>1, <1>4 DEF Typed, Socks
  <2>3. hist' \in Hists /\ Grows /\ hist'.put = hist.put /\ c \in hist'.refused
        /\ hist'.seen = hist.seen
    BY <1>1, <1>4 DEF Typed, Hists, Grows, Put
  <2>4. odd' \in 0..MaxOdd
    BY <1>1, <1>4, Odds
  <2>5. ConnOK(c)' /\ HeardOK(c)'
    BY <1>1, <2>1, <2>2, <2>3 DEF ConnOK, HeardOK, LetDown
  <2>6. c \in Uploads => UpOK(c)'
    BY <1>1, <2>1, <2>2, <2>3 DEF IInv, UpOK, Says, Put
  <2>7. ASSUME c \in Downloads PROVE DownOK(c)'
    <3>1. DownOK(c) /\ c \in Downloads
      BY <2>7 DEF IInv
    <3>2. Moving(c)' = Moving(c) /\ (Whole(c) => Whole(c)')
      BY <1>1, <2>2, <2>3 DEF Moving, Says, Whole
    <3>3. QED  BY <1>1, <2>1, <2>2, <2>3, <3>1, <3>2 DEF DownOK, Says
  <2>8. QED  BY <1>1, <1>2, <2>1, <2>2, <2>3, <2>4, <2>5, <2>6, <2>7, ConnStep
<1>5. QED  BY <1>3, <1>4 DEF Accept

\* What a word leaves of the socket it is said on.
LEMMA SpokenFacts ==
  ASSUME Typed, NEW c \in Calls, NEW m \in Message, sock[c].out = <<>>,
         sock' = [sock EXCEPT ![c] = Say(@, m)]
  PROVE  /\ sock' \in [Calls -> Socks] /\ sock'[c].out # <<>> /\ sock'[c].out[1] = m
         /\ sock'[c].in = sock[c].in /\ sock'[c].eof = sock[c].eof
         /\ sock'[c].closed = sock[c].closed
         /\ \A d \in Calls : d # c => sock'[d] = sock[d]
<1>1. sock[c] \in Socks /\ sock \in [Calls -> Socks]
  BY DEF Typed
<1> DEFINE s == Say(sock[c], m)
<1>2. /\ s \in Socks /\ s.out = <<m>> /\ s.in = sock[c].in
      /\ s.eof = sock[c].eof /\ s.closed = sock[c].closed
  BY <1>1, SaidFacts
<1>3. sock' = [sock EXCEPT ![c] = s]
  OBVIOUS
<1> HIDE DEF s
<1>4. sock' \in [Calls -> Socks] /\ sock'[c] = s /\ \A d \in Calls : d # c => sock'[d] = sock[d]
  BY <1>1, <1>2, <1>3
<1>5. <<m>> # <<>> /\ <<m>>[1] = m
  OBVIOUS
<1>6. QED  BY <1>2, <1>4, <1>5

LEMMA ReadRequestStep ==
  ASSUME IInv, NEW c \in Calls, ReadRequest(c) PROVE IInv'
<1>1. Typed /\ ConnOK(c) /\ HeardOK(c) /\ conn[c] = "read" /\ op[c] = "none" /\ task[c].pc = "none"
      /\ sock[c].out = <<>>
      /\ UNCHANGED <<agent, local, reply, task, pipe, dir, len, ui, hist>>
  BY DEF IInv, ReadRequest, theServer, ConnOK
<1>2. pipe' \in [Downloads -> Pipes] /\ hist' \in Hists /\ Grows
  BY <1>1 DEF Typed, Grows, Put
<1>3. CASE conn' = [conn EXCEPT ![c] = "ask"] /\ op' = [op EXCEPT ![c] = "posted"] /\ UNCHANGED <<sock, odd>>
  <2>1. conn' \in [Calls -> ConnPc] /\ conn'[c] = "ask" /\ \A d \in Calls : d # c => conn'[d] = conn[d]
    BY <1>1, <1>3 DEF Typed, ConnPc
  <2>2. /\ op' \in [Calls -> {"none", "posted", "pending", "over"}] /\ op'[c] = "posted"
        /\ \A d \in Calls : d # c => op'[d] = op[d]
    BY <1>1, <1>3 DEF Typed
  <2>3. sock' \in [Calls -> Socks] /\ odd' \in 0..MaxOdd
    BY <1>1, <1>3 DEF Typed
  <2>4. ConnOK(c)' /\ HeardOK(c)'
    BY <1>1, <1>3, <2>1, <2>2 DEF ConnOK, HeardOK, LetDown
  <2>5. c \in Uploads => UpOK(c)'
    BY <1>1, <1>3, <2>1, <2>2 DEF IInv, UpOK, Says, Put
  <2>6. c \in Downloads => DownOK(c)'
    BY <1>1, <1>3, <2>1 DEF IInv, DownOK, Says, Moving, Whole
  <2>7. QED  BY <1>1, <1>2, <1>3, <2>1, <2>2, <2>3, <2>4, <2>5, <2>6, ConnStep
<1>4. CASE /\ Odd /\ c \in Uploads
           /\ conn' = [conn EXCEPT ![c] = "refused"]
           /\ sock' = [sock EXCEPT ![c] = Say(@, Msg("err"))]
           /\ UNCHANGED op
  <2>1. conn' \in [Calls -> ConnPc] /\ conn'[c] = "refused" /\ \A d \in Calls : d # c => conn'[d] = conn[d]
    BY <1>1, <1>4 DEF Typed, ConnPc
  <2>2. Msg("err") \in Message /\ Msg("err").kind = "err"
    BY Kinds
  <2>3. /\ sock' \in [Calls -> Socks] /\ sock'[c].out # <<>> /\ sock'[c].out[1] = Msg("err")
        /\ sock'[c].in = sock[c].in /\ sock'[c].eof = sock[c].eof
        /\ sock'[c].closed = sock[c].closed
        /\ \A d \in Calls : d # c => sock'[d] = sock[d]
    BY <1>1, <1>4, <2>2, SpokenFacts
  <2>4. odd' \in 0..MaxOdd
    BY <1>1, <1>4, Odds
  <2>5. ConnOK(c)' /\ HeardOK(c)'
    BY <1>1, <1>4, <2>1, <2>3 DEF ConnOK, HeardOK, LetDown
  <2>6. UpOK(c)'
    BY <1>1, <1>4, <2>1, <2>2, <2>3 DEF IInv, UpOK, Says, Put
  <2>7. c \notin Downloads /\ op' \in [Calls -> {"none", "posted", "pending", "over"}]
    BY <1>1, <1>4, Apart DEF Typed
  <2>8. QED  BY <1>1, <1>2, <1>4, <2>1, <2>3, <2>4, <2>5, <2>6, <2>7, ConnStep
<1>5. CASE Odd /\ c \in Downloads /\ ReplyThenClose(c, "err") /\ UNCHANGED op
  <2>1. odd' \in 0..MaxOdd /\ sock[c].in = 0 /\ "err" # "ok"
    BY <1>1, <1>5, Odds DEF IInv, DownOK
  <2>2. QED  BY <1>1, <1>5, <2>1, ReplyCloseStep
<1>6. QED  BY <1>3, <1>4, <1>5 DEF ReadRequest

LEMMA HearReplyStep ==
  ASSUME IInv, NEW c \in Calls, HearReply(c) PROVE IInv'
<1>1. Typed /\ ConnOK(c) /\ HeardOK(c) /\ UpOK(c) /\ c \in Uploads /\ c \notin Downloads
      /\ conn[c] = "ask" /\ sock[c].out = <<>> /\ AnswerUpload(c)
      /\ UNCHANGED <<agent, local, op, reply, task, pipe, dir, len, ui, hist, odd>>
  BY Apart DEF IInv, HearReply, theServer, ConnOK
<1>2. CASE reply[c] = "ok"
  <2>1. ReplyThenClose(c, "ok") /\ Put(c) /\ sock[c].in = 0 /\ odd' \in 0..MaxOdd
    BY <1>1, <1>2 DEF AnswerUpload, UpOK, Typed
  <2>2. QED  BY <1>1, <2>1, ReplyCloseStep
<1>3. CASE reply[c] # "ok"
  <2>1. conn' = [conn EXCEPT ![c] = "drain"] /\ sock' = [sock EXCEPT ![c] = Say(@, Msg("err"))]
    BY <1>1, <1>3 DEF AnswerUpload
  <2>2. conn' \in [Calls -> ConnPc] /\ conn'[c] = "drain" /\ \A d \in Calls : d # c => conn'[d] = conn[d]
    BY <1>1, <2>1 DEF Typed, ConnPc
  <2>3. Msg("err") \in Message /\ Msg("err").kind = "err"
    BY Kinds
  <2>4. /\ sock' \in [Calls -> Socks] /\ sock'[c].out # <<>> /\ sock'[c].out[1] = Msg("err")
        /\ sock'[c].in = sock[c].in /\ sock'[c].eof = sock[c].eof
        /\ sock'[c].closed = sock[c].closed
        /\ \A d \in Calls : d # c => sock'[d] = sock[d]
    BY <1>1, <2>1, <2>3, SpokenFacts
  <2>5. ConnOK(c)' /\ HeardOK(c)'
    BY <1>1, <2>2, <2>4 DEF ConnOK, HeardOK, LetDown
  <2>6. UpOK(c)'
    BY <1>1, <2>2, <2>3, <2>4 DEF UpOK, Says, Put
  <2>7. op' \in [Calls -> {"none", "posted", "pending", "over"}] /\ pipe' \in [Downloads -> Pipes]
        /\ hist' \in Hists /\ odd' \in 0..MaxOdd /\ Grows
    BY <1>1 DEF Typed, Grows, Put
  <2>8. QED  BY <1>1, <2>2, <2>4, <2>5, <2>6, <2>7, ConnStep
<1>4. QED  BY <1>2, <1>3

\* Nobody else reads the body: its upload has ended or never began.
LEMMA DrainStep ==
  ASSUME IInv, NEW c \in Calls, Drain(c) PROVE IInv'
<1>1. Typed /\ ConnOK(c) /\ HeardOK(c) /\ MayDrain(c) /\ conn[c] \in {"refused", "drain"}
      /\ UNCHANGED <<agent, local, op, reply, task, pipe, dir, len, ui, hist, odd>>
  BY DEF IInv, Drain, MayDrain, theServer
<1>2. CASE sock[c].in > 0 /\ sock' = [sock EXCEPT ![c].in = 0] /\ UNCHANGED conn
  <2>1. /\ sock' \in [Calls -> Socks] /\ sock'[c].in = 0 /\ sock'[c].out = sock[c].out
        /\ sock'[c].eof = sock[c].eof /\ sock'[c].closed = sock[c].closed
        /\ \A d \in Calls : d # c => sock'[d] = sock[d]
    BY <1>1, <1>2 DEF Typed, Socks
  <2>2. ConnOK(c)' /\ HeardOK(c)'
    BY <1>1, <1>2, <2>1 DEF ConnOK, HeardOK, LetDown
  <2>3. op[c] # "posted" /\ task[c].pc \notin {"cmd", "read"}
    BY <1>1 DEF MayDrain, SourceHeld, ConnOK
  <2>4. c \in Uploads => UpOK(c)'
    BY <1>1, <1>2, <2>1, <2>3 DEF IInv, UpOK, Says, Put
  <2>5. c \notin Downloads
    <3>1. c \in Downloads => sock[c].in = 0
      BY DEF IInv, DownOK
    <3>2. QED  BY <1>2, <3>1
  <2>6. conn' \in [Calls -> ConnPc] /\ op' \in [Calls -> {"none", "posted", "pending", "over"}]
        /\ pipe' \in [Downloads -> Pipes] /\ hist' \in Hists /\ odd' \in 0..MaxOdd /\ Grows
    BY <1>1, <1>2 DEF Typed, Grows, Put
  <2>7. QED  BY <1>1, <1>2, <2>1, <2>2, <2>4, <2>5, <2>6, ConnStep
<1>3. CASE sock[c].in = 0 /\ sock[c].eof /\ Close(c)
  <2>1. agent[c].pc \in {"send", "wait", "head"} => sock[c].out # <<>> \/ LetDown(c)
    BY <1>1 DEF HeardOK
  <2>2. hist' \in Hists /\ Grows /\ hist'.put = hist.put
    BY <1>1 DEF Typed, Grows, Put
  <2>3. QED  BY <1>1, <1>3, <2>1, <2>2, CloseStep
<1>4. QED  BY <1>2, <1>3 DEF Drain

LEMMA DrainGivesUpStep ==
  ASSUME IInv, NEW c \in Calls, DrainGivesUp(c) PROVE IInv'
<1>1. Typed /\ conn[c] # "none" /\ Close(c)
      /\ UNCHANGED <<agent, local, op, reply, task, pipe, dir, len, ui, odd>>
  BY DEF IInv, DrainGivesUp, theServer
<1>2. hist' \in Hists /\ Grows /\ hist'.put = hist.put /\ LetDown(c)'
  BY <1>1 DEF DrainGivesUp, Typed, Hists, Grows, Put, LetDown
<1>3. QED  BY <1>1, <1>2, CloseStep

LEMMA HearSinkStep ==
  ASSUME IInv, NEW c \in Calls, HearSink(c) PROVE IInv'
<1>1. Typed /\ ConnOK(c) /\ HeardOK(c) /\ DownOK(c) /\ c \in Downloads /\ c \notin Uploads
      /\ conn[c] = "ask" /\ sock[c].out = <<>> /\ sock[c].in = 0 /\ pipe[c].sink # "none"
      /\ UNCHANGED <<agent, local, op, reply, task, pipe, dir, len, ui, hist, odd>>
  BY Apart DEF IInv, HearSink, theServer, ConnOK, DownOK
<1>2. op' \in [Calls -> {"none", "posted", "pending", "over"}] /\ pipe' \in [Downloads -> Pipes]
      /\ hist' \in Hists /\ odd' \in 0..MaxOdd /\ Grows
  BY <1>1 DEF Typed, Grows, Put
<1>3. CASE pipe[c].sink = "err"
  <2>1. ReplyThenClose(c, "err") /\ "err" # "ok"
    BY <1>3 DEF HearSink
  <2>2. QED  BY <1>1, <1>2, <2>1, ReplyCloseStep
<1>4. CASE pipe[c].sink # "err" /\ sock[c].eof
  <2>1. Close(c) /\ agent[c].pc \in Ended
    BY <1>1, <1>4 DEF HearSink, DownOK
  <2>2. agent[c].pc \notin {"send", "wait", "head"}
    BY <2>1 DEF Ended
  <2>3. QED  BY <1>1, <1>2, <2>1, <2>2, CloseStep
<1>5. CASE pipe[c].sink # "err" /\ ~sock[c].eof
  <2> DEFINE m == Header(task[c].size)
  <2>1. sock' = [sock EXCEPT ![c] = Say(@, m)] /\ conn' = [conn EXCEPT ![c] = "stream"]
    BY <1>5 DEF HearSink
  <2>2. pipe[c].sink = "source"
    BY <1>1, <1>5 DEF Typed, Pipes
  <2>3. task[c].size \in Length
    BY <1>1 DEF Typed, Tasks
  <2>4. m \in Message /\ m.kind = "header" /\ m.size = task[c].size
    BY <2>3, Kinds
  <2> HIDE DEF m
  <2>5. /\ sock' \in [Calls -> Socks] /\ sock'[c].out # <<>> /\ sock'[c].out[1] = m
        /\ sock'[c].in = sock[c].in /\ sock'[c].eof = sock[c].eof
        /\ sock'[c].closed = sock[c].closed
        /\ \A d \in Calls : d # c => sock'[d] = sock[d]
    BY <1>1, <2>1, <2>4, SpokenFacts
  <2>6. conn' \in [Calls -> ConnPc] /\ conn'[c] = "stream" /\ \A d \in Calls : d # c => conn'[d] = conn[d]
    BY <1>1, <2>1 DEF Typed, ConnPc
  <2>7. ConnOK(c)' /\ HeardOK(c)'
    BY <1>1, <2>5, <2>6 DEF ConnOK, HeardOK, LetDown
  <2>8. Moving(c)' = Moving(c) /\ (Whole(c) => Whole(c)')
    BY <1>1, <2>4, <2>5 DEF Moving, Says, Whole
  <2>9. DownOK(c)'
    BY <1>1, <2>2, <2>4, <2>5, <2>6, <2>8 DEF DownOK, Says
  <2>10. QED  BY <1>1, <1>2, <2>5, <2>6, <2>7, <2>9, ConnStep
<1>6. QED  BY <1>3, <1>4, <1>5

LEMMA RelayStep ==
  ASSUME IInv, NEW c \in Calls, Relay(c) PROVE IInv'
<1>1. Typed /\ ConnOK(c) /\ HeardOK(c) /\ DownOK(c) /\ c \in Downloads /\ c \notin Uploads
      /\ conn[c] = "stream"
      /\ UNCHANGED <<agent, local, op, reply, task, dir, len, ui, hist, odd>>
  BY Apart DEF IInv, Relay, theServer
<1>2. op' \in [Calls -> {"none", "posted", "pending", "over"}]
      /\ hist' \in Hists /\ odd' \in 0..MaxOdd /\ Grows
  BY <1>1 DEF Typed, Grows, Put
<1>3. CASE sock[c].eof
  <2>1. Close(c) /\ UNCHANGED pipe /\ agent[c].pc \in Ended
    BY <1>1, <1>3 DEF Relay, DownOK
  <2>2. agent[c].pc \notin {"send", "wait", "head"}
    BY <2>1 DEF Ended
  <2>3. QED  BY <1>1, <1>2, <2>1, <2>2, CloseStep
<1>4. CASE ~sock[c].eof /\ pipe[c].n > 0
  <2>1. /\ sock[c].out = <<>> /\ sock' = [sock EXCEPT ![c] = Say(@, Msg("block"))]
        /\ pipe' = [pipe EXCEPT ![c].n = 0] /\ conn' = conn
    BY <1>4 DEF Relay
  <2>2. Msg("block") \in Message /\ Msg("block").kind = "block"
    BY Kinds
  <2>3. /\ sock' \in [Calls -> Socks] /\ sock'[c].out # <<>> /\ sock'[c].out[1] = Msg("block")
        /\ sock'[c].in = sock[c].in /\ sock'[c].eof = sock[c].eof
        /\ sock'[c].closed = sock[c].closed
        /\ \A d \in Calls : d # c => sock'[d] = sock[d]
    BY <1>1, <2>1, <2>2, SpokenFacts
  <2>4. /\ pipe' \in [Downloads -> Pipes] /\ pipe'[c].n = 0
        /\ pipe'[c].outcome = pipe[c].outcome
        /\ \A d \in Downloads : (d # c => pipe'[d] = pipe[d]) /\ pipe'[d].sink = pipe[d].sink
    BY <1>1, <2>1 DEF Typed, Pipes
  <2>5. pipe[c].n = 1
    <3>1. pipe[c].n \in 0..1
      BY <1>1 DEF Typed, Pipes
    <3>2. QED  BY <1>4, <3>1
  <2>6. Moving(c)' = Moving(c) /\ (Whole(c) => Whole(c)')
    <3>1. agent[c].n \in Nat
      BY <1>1, Numbers
    <3>2. ~Says(c, "block") /\ Says(c, "block")' /\ agent' = agent
      BY <1>1, <2>1, <2>2, <2>3 DEF Says
    <3>3. Moving(c) = agent[c].n + 1 + 0 /\ Moving(c)' = agent[c].n + 0 + 1
      BY <2>4, <2>5, <3>2 DEF Moving
    <3>4. QED  BY <1>1, <3>1, <3>3 DEF Whole
  <2>7. ConnOK(c)' /\ HeardOK(c)'
    BY <1>1, <2>1, <2>3 DEF ConnOK, HeardOK, LetDown
  <2>8. DownOK(c)'
    BY <1>1, <2>1, <2>2, <2>3, <2>4, <2>6 DEF DownOK, Says
  <2>9. conn' \in [Calls -> ConnPc]
    BY <1>1, <2>1 DEF Typed
  <2>10. QED  BY <1>1, <1>2, <2>1, <2>3, <2>4, <2>7, <2>8, <2>9, ConnStep
<1>5. CASE ~sock[c].eof /\ ~(pipe[c].n > 0)
  <2>1. conn' = [conn EXCEPT ![c] = "verdict"] /\ UNCHANGED <<sock, pipe>>
    BY <1>5 DEF Relay
  <2>2. conn' \in [Calls -> ConnPc] /\ conn'[c] = "verdict" /\ \A d \in Calls : d # c => conn'[d] = conn[d]
    BY <1>1, <2>1 DEF Typed, ConnPc
  <2>3. sock' \in [Calls -> Socks] /\ pipe' \in [Downloads -> Pipes]
    BY <1>1, <2>1 DEF Typed
  <2>4. ConnOK(c)' /\ HeardOK(c)'
    BY <1>1, <2>1, <2>2 DEF ConnOK, HeardOK, LetDown
  <2>5. DownOK(c)'
    BY <1>1, <2>1, <2>2 DEF DownOK, Says, Moving, Whole
  <2>6. QED  BY <1>1, <1>2, <2>1, <2>2, <2>3, <2>4, <2>5, ConnStep
<1>6. QED  BY <1>3, <1>4, <1>5

LEMMA VerdictStep ==
  ASSUME IInv, NEW c \in Calls, Verdict(c) PROVE IInv'
<1>1. Typed /\ conn[c] # "none" /\ c \in Downloads /\ c \notin Uploads
      /\ sock[c].out = <<>> /\ sock[c].in = 0
      /\ UNCHANGED <<agent, local, op, reply, task, pipe, dir, len, ui, hist>>
  BY Apart DEF IInv, Verdict, theServer, DownOK
<1>2. CASE pipe[c].outcome # "none" /\ UNCHANGED odd
           /\ ReplyThenClose(c, IF pipe[c].outcome = "ok" THEN "ok" ELSE "err")
  <2> DEFINE kind == IF pipe[c].outcome = "ok" THEN "ok" ELSE "err"
  <2>1. kind \in {"ok", "err"} /\ (kind = "ok" => pipe[c].outcome = "ok") /\ odd' \in 0..MaxOdd
    BY <1>1, <1>2 DEF Typed
  <2> HIDE DEF kind
  <2>2. ReplyThenClose(c, kind)
    BY <1>2 DEF kind
  <2>3. QED  BY <1>1, <2>1, <2>2, ReplyCloseStep
<1>3. CASE Odd /\ ReplyThenClose(c, "err")
  <2>1. odd' \in 0..MaxOdd /\ "err" # "ok"
    BY <1>1, <1>3, Odds
  <2>2. QED  BY <1>1, <1>3, <2>1, ReplyCloseStep
<1>4. QED  BY <1>2, <1>3 DEF Verdict

-----------------------------------------------------------------------------
(* The session *)

\* A step of the session alone: operations end, and events come and go.
LEMMA ResolveStep ==
  ASSUME IInv, UNCHANGED <<agent, local, sock, conn, task, pipe, dir, len, hist>>,
         op' \in [Calls -> {"none", "posted", "pending", "over"}],
         reply' \in [Calls -> {"none", "ok", "err"}], ui' \in Uis, odd' \in 0..MaxOdd,
         \A c \in Calls : /\ op'[c] = op[c] \/ (op[c] = "pending" /\ op'[c] = "over")
                          /\ \/ reply'[c] = reply[c] \/ reply'[c] = "err"
                             \/ c \in Uploads /\ Put(c),
         UiOK'
  PROVE  IInv'
<1>1. Typed'
  BY DEF IInv, Typed
<1>2. Grows
  BY DEF Grows, Put
<1>3. ASSUME NEW c \in Calls PROVE ConnOK(c)' /\ HeardOK(c)'
  <2>1. ConnOK(c) /\ HeardOK(c) /\ (op'[c] = op[c] \/ (op[c] = "pending" /\ op'[c] = "over"))
    BY DEF IInv
  <2>2. QED  BY <2>1 DEF ConnOK, HeardOK, LetDown
<1>4. ASSUME NEW c \in Uploads PROVE UpOK(c)'
  <2>1. UpOK(c) /\ (op'[c] = op[c] \/ (op[c] = "pending" /\ op'[c] = "over"))
        /\ (reply'[c] = "ok" => reply[c] = "ok" \/ Put(c))
    BY Apart DEF IInv
  <2>2. UpOK(c) /\ (op'[c] = "posted" => op[c] = "posted")
    BY <2>1 DEF IInv
  <2>3. reply'[c] = "ok" => Put(c)
    BY <2>2, Apart DEF UpOK
  <2>4. QED  BY <2>2, <2>3 DEF UpOK, Says, Put
<1>5. ASSUME NEW c \in Downloads PROVE DownOK(c)' /\ SeesOK(c)'
  <2>1. DownOK(c) /\ SeesOK(c)
    BY DEF IInv
  <2>2. DownOK(c)'
    BY <2>1 DEF DownOK, Says, Moving, Whole
  <2>3. SeesOK(c)'
    BY <2>1 DEF SeesOK, Shown, Put
  <2>4. QED  BY <2>2, <2>3
<1>6. DirOK'
  BY <1>2, DirFrame DEF IInv
<1>7. QED  BY <1>1, <1>3, <1>4, <1>5, <1>6 DEF IInv

LEMMA FileOpTimeoutStep ==
  ASSUME IInv, NEW c \in Calls, FileOpTimeout(c) PROVE IInv'
<1>1. Typed /\ op[c] = "pending" /\ Resolve({c}, "err")
      /\ UNCHANGED <<agent, local, sock, conn, task, pipe, dir, len, ui, hist>>
  BY DEF IInv, FileOpTimeout, theServer
<1>2. odd' \in 0..MaxOdd
  BY <1>1, Odds DEF FileOpTimeout, Typed
<1>3. /\ op' = [d \in Calls |-> IF d \in {c} THEN "over" ELSE op[d]]
      /\ reply' = [d \in Calls |-> IF d \in {c} \cap Uploads THEN "err" ELSE reply[d]]
  BY <1>1 DEF Resolve
<1>4. op' \in [Calls -> {"none", "posted", "pending", "over"}]
      /\ reply' \in [Calls -> {"none", "ok", "err"}]
  BY <1>1, <1>3 DEF Typed
<1>5. \A d \in Calls : /\ op'[d] = op[d] \/ (op[d] = "pending" /\ op'[d] = "over")
                       /\ reply'[d] = reply[d] \/ reply'[d] = "err"
  BY <1>1, <1>3
<1>6. Grows /\ ui' \in Uis
  BY <1>1 DEF Grows, Put, Typed
<1>7. UiOK'
  <2>1. \A d \in Calls : op'[d] = "pending" => op[d] = "pending"
    BY <1>5
  <2>2. QED  BY <1>1, <1>6, <2>1, UiFrame DEF IInv
<1>8. QED  BY <1>1, <1>2, <1>4, <1>5, <1>6, <1>7, ResolveStep

LEMMA TailFacts ==
  ASSUME NEW s \in Seq(Event), s # <<>>
  PROVE  /\ Head(s) = s[1] /\ s[1] \in Event /\ 1 \in DOMAIN s /\ Tail(s) \in Seq(Event)
         /\ \A i \in DOMAIN s : i # 1 => i - 1 \in DOMAIN Tail(s) /\ Tail(s)[i - 1] = s[i]
         /\ \A i \in DOMAIN Tail(s) : i + 1 \in DOMAIN s /\ Tail(s)[i] = s[i + 1]
<1>1. Len(s) \in Nat \ {0} /\ DOMAIN s = 1..Len(s)
  BY EmptySeq
<1>2. /\ Tail(s) \in Seq(Event) /\ Len(Tail(s)) = Len(s) - 1
      /\ \A i \in 1 .. Len(Tail(s)) : Tail(s)[i] = s[i+1]
  BY HeadTailProperties
<1>3. DOMAIN Tail(s) = 1..(Len(s) - 1)
  BY <1>2
<1>4. Head(s) = s[1] /\ s[1] \in Event
  BY <1>1
<1>5. ASSUME NEW i \in 1..Len(s), i # 1 PROVE i - 1 \in 1..(Len(s) - 1) /\ Tail(s)[i - 1] = s[i]
  <2>1. i - 1 \in 1..(Len(s) - 1) /\ (i - 1) + 1 = i
    BY <1>1, <1>5
  <2>2. QED  BY <1>2, <2>1
<1>6. ASSUME NEW i \in 1..(Len(s) - 1) PROVE i + 1 \in 1..Len(s) /\ Tail(s)[i] = s[i + 1]
  BY <1>1, <1>2
<1>7. QED  BY <1>1, <1>2, <1>3, <1>4, <1>5, <1>6

LEMMA AppendFacts ==
  ASSUME NEW s \in Seq(Event), NEW e \in Event
  PROVE  /\ Append(s, e) \in Seq(Event)
         /\ \A i \in DOMAIN s : i \in DOMAIN Append(s, e) /\ Append(s, e)[i] = s[i]
         /\ Len(s) + 1 \in DOMAIN Append(s, e) /\ Append(s, e)[Len(s) + 1] = e
         /\ \A i \in DOMAIN Append(s, e) : i \in DOMAIN s \/ i = Len(s) + 1
<1>1. Len(s) \in Nat /\ DOMAIN s = 1..Len(s)
  OBVIOUS
<1>2. Append(s, e) \in Seq(Event) /\ Len(Append(s, e)) = Len(s) + 1
      /\ DOMAIN Append(s, e) = 1..(Len(s) + 1)
  BY <1>1
<1>3. \A i \in 1..Len(s) : Append(s, e)[i] = s[i]
  BY <1>1
<1>4. Append(s, e)[Len(s) + 1] = e
  BY <1>1
<1>5. QED  BY <1>1, <1>2, <1>3, <1>4

\* A slot in use: its transfer goes on, its end is queued, or it will time out.
Explained(c) ==
    \/ task[c].pc \notin {"none", "done"}
    \/ \E i \in DOMAIN ui.evts : ui.evts[i].call = c \/ ui.evts[i].what = "lost"
    \/ c \in Downloads /\ pipe[c].sink = "err"

LEMMA SlotsAre ==
  ASSUME Typed, SlotsExplained, NEW c \in Calls, op[c] = "pending"
  PROVE  Explained(c)
<1>1. DOMAIN ui.evts = 1..Len(ui.evts)
  BY DEF Typed, Uis
<1>2. QED  BY <1>1 DEF SlotsExplained, Explained, Pending

LEMMA SlotsThen ==
  ASSUME ui' \in Uis, \A c \in Calls : op'[c] = "pending" => Explained(c)'
  PROVE  SlotsExplained'
<1>1. DOMAIN ui'.evts = 1..Len(ui'.evts)
  BY DEF Uis
<1>2. QED  BY <1>1 DEF SlotsExplained, Explained, Pending

LEMMA DrainEvtStep ==
  ASSUME IInv, DrainEvt PROVE IInv'
<1>1. Typed /\ UiOK /\ ui.evts # <<>> /\ ui \in Uis /\ ui.evts \in Seq(Event)
      /\ UNCHANGED <<agent, local, sock, conn, task, pipe, dir, len, hist, odd>>
  BY DEF IInv, DrainEvt, theServer, Typed, Uis
<1> DEFINE e == Head(ui.evts)
           s == ui.evts
<1>2. /\ e = s[1] /\ e \in Event /\ 1 \in DOMAIN s /\ Tail(s) \in Seq(Event)
      /\ \A i \in DOMAIN s : i # 1 => i - 1 \in DOMAIN Tail(s) /\ Tail(s)[i - 1] = s[i]
      /\ \A i \in DOMAIN Tail(s) : i + 1 \in DOMAIN s /\ Tail(s)[i] = s[i + 1]
  BY <1>1, TailFacts
<1>3. odd' \in 0..MaxOdd
  BY <1>1 DEF Typed
<1>4. CASE e.what = "done"
  <2> DEFINE answer == IF e.ok THEN "ok" ELSE "err"
             ended == {e.call} \cap Pending
  <2>1. /\ op' = [c \in Calls |-> IF c \in ended THEN "over" ELSE op[c]]
        /\ reply' = [c \in Calls |-> IF c \in ended \cap Uploads THEN answer ELSE reply[c]]
        /\ ui' = [ui EXCEPT !.evts = Tail(@)]
    BY <1>4 DEF DrainEvt, Resolve
  <2>2. answer \in {"ok", "err"} /\ (answer # "err" => e.ok)
    OBVIOUS
  <2>3. \A c \in Calls : c \in ended <=> c = e.call /\ op[c] = "pending"
    BY DEF Pending
  <2> HIDE DEF answer, ended
  <2>4. op' \in [Calls -> {"none", "posted", "pending", "over"}]
    BY <1>1, <2>1 DEF Typed
  <2>5. reply' \in [Calls -> {"none", "ok", "err"}]
    BY <1>1, <2>1, <2>2 DEF Typed
  <2>6. e.ok /\ e.call \in Uploads => Put(e.call)
    BY <1>1, <1>2, <1>4 DEF UiOK, EventTrue
  <2>7. ASSUME NEW c \in Calls
        PROVE  /\ op'[c] = op[c] \/ (op[c] = "pending" /\ op'[c] = "over")
               /\ reply'[c] = reply[c] \/ reply'[c] = "err" \/ (c \in Uploads /\ Put(c))
    BY <2>1, <2>2, <2>3, <2>6
  <2>8. ui' \in Uis /\ ui'.evts = Tail(s) /\ ui'.connected = ui.connected /\ ui'.link = ui.link
    <3> DEFINE t == Tail(s)
    <3>1. t \in Seq(Event) /\ ui' = [ui EXCEPT !.evts = t]
      BY <1>2, <2>1
    <3> HIDE DEF t
    <3>2. ui' \in Uis /\ ui'.evts = t /\ ui'.connected = ui.connected /\ ui'.link = ui.link
      BY <1>1, <3>1 DEF Uis
    <3>3. QED  BY <3>2 DEF t
  <2>10. SlotsExplained'
    <3>1. ASSUME NEW c \in Calls, op'[c] = "pending" PROVE Explained(c)'
      <4>1. op[c] = "pending" /\ c # e.call
        BY <2>1, <2>3, <3>1
      <4>2. Explained(c)
        BY <1>1, <4>1, SlotsAre DEF UiOK
      <4>3. ASSUME NEW i \in DOMAIN s, s[i].call = c \/ s[i].what = "lost"
            PROVE  i - 1 \in DOMAIN Tail(s) /\ Tail(s)[i - 1] = s[i]
        <5>1. i # 1
          BY <1>2, <1>4, <4>1, <4>3
        <5>2. QED  BY <1>2, <5>1
      <4>4. QED  BY <1>1, <2>8, <4>2, <4>3 DEF Explained
    <3>2. QED  BY <2>8, <3>1, SlotsThen
  <2>11. ui'.connected /\ ~ui'.link => \E i \in DOMAIN ui'.evts : ui'.evts[i].what = "lost"
    <3>1. ASSUME ui'.connected, ~ui'.link PROVE \E i \in DOMAIN ui'.evts : ui'.evts[i].what = "lost"
      <4>1. PICK i \in DOMAIN s : s[i].what = "lost"
        BY <1>1, <2>8, <3>1 DEF UiOK
      <4>2. i - 1 \in DOMAIN Tail(s) /\ Tail(s)[i - 1] = s[i]
        BY <1>2, <1>4, <4>1
      <4>3. QED  BY <2>8, <4>1, <4>2
    <3>2. QED  BY <3>1
  <2>12. \A i \in DOMAIN ui'.evts : EventTrue(ui.evts[i])'
    BY <1>1, <1>2, <2>8 DEF UiOK, EventTrue, Put
  <2>13. UiOK'
    BY <2>10, <2>11, <2>12 DEF UiOK
  <2>14. QED  BY <1>1, <1>3, <2>4, <2>5, <2>7, <2>8, <2>13, ResolveStep
<1>5. CASE e.what # "done"
  <2>1. /\ op' = [c \in Calls |-> IF c \in Pending THEN "over" ELSE op[c]]
        /\ reply' = [c \in Calls |-> IF c \in Pending \cap Uploads THEN "err" ELSE reply[c]]
        /\ ui' = [ui EXCEPT !.evts = Tail(@), !.connected = FALSE]
    BY <1>5 DEF DrainEvt, Resolve
  <2>2. op' \in [Calls -> {"none", "posted", "pending", "over"}]
        /\ reply' \in [Calls -> {"none", "ok", "err"}]
    BY <1>1, <2>1 DEF Typed
  <2>3. ASSUME NEW c \in Calls
        PROVE  /\ op'[c] = op[c] \/ (op[c] = "pending" /\ op'[c] = "over")
               /\ op'[c] # "pending" /\ (reply'[c] = reply[c] \/ reply'[c] = "err")
    BY <2>1 DEF Pending
  <2>4. ui' \in Uis /\ ui'.evts = Tail(s) /\ ui'.connected = FALSE
    <3> DEFINE t == Tail(s)
    <3>1. t \in Seq(Event) /\ ui' = [ui EXCEPT !.evts = t, !.connected = FALSE] /\ FALSE \in BOOLEAN
      BY <1>2, <2>1
    <3> HIDE DEF t
    <3>2. ui' \in Uis /\ ui'.evts = t /\ ui'.connected = FALSE
      BY <1>1, <3>1 DEF Uis
    <3>3. QED  BY <3>2 DEF t
  <2>5. \A i \in DOMAIN ui'.evts : EventTrue(ui.evts[i])'
    BY <1>1, <1>2, <2>4 DEF UiOK, EventTrue, Put
  <2>6. SlotsExplained'
    BY <2>3 DEF SlotsExplained, Pending
  <2>7. UiOK'
    BY <2>4, <2>5, <2>6 DEF UiOK
  <2>8. QED  BY <1>1, <1>3, <2>2, <2>3, <2>4, <2>7, ResolveStep
<1>6. QED  BY <1>4, <1>5

LEMMA LoseStep ==
  ASSUME IInv, Lose PROVE IInv'
<1>1. Typed /\ UiOK /\ ui \in Uis /\ ui.evts \in Seq(Event)
      /\ UNCHANGED <<agent, local, sock, conn, op, reply, task, pipe, dir, len, hist>>
  BY DEF IInv, Lose, theServer, Typed, Uis
<1> DEFINE e == [what |-> "lost", call |-> None, ok |-> FALSE]
           s == ui.evts
           t == Append(s, e)
<1>2. e \in Event /\ e.what = "lost" /\ e.call = None
  BY DEF Event
<1>3. /\ t \in Seq(Event) /\ \A i \in DOMAIN s : i \in DOMAIN t /\ t[i] = s[i]
      /\ Len(s) + 1 \in DOMAIN t /\ t[Len(s) + 1] = e
      /\ \A i \in DOMAIN t : i \in DOMAIN s \/ i = Len(s) + 1
  BY <1>1, <1>2, AppendFacts
<1>4. ui' = [ui EXCEPT !.link = FALSE, !.evts = t] /\ FALSE \in BOOLEAN
  BY DEF Lose
<1> HIDE DEF t, e
<1>5. ui' \in Uis /\ ui'.evts = t
  BY <1>1, <1>3, <1>4 DEF Uis
<1>6. odd' \in 0..MaxOdd
  BY <1>1, Odds DEF Lose
<1>7. op' \in [Calls -> {"none", "posted", "pending", "over"}]
      /\ reply' \in [Calls -> {"none", "ok", "err"}]
  BY <1>1 DEF Typed
<1>8. \E i \in DOMAIN ui'.evts : ui'.evts[i].what = "lost"
  BY <1>2, <1>3, <1>5
<1>9. \A i \in DOMAIN ui'.evts : EventTrue(ui.evts[i])'
  BY <1>1, <1>2, <1>3, <1>5 DEF UiOK, EventTrue, Put
<1>10. SlotsExplained'
  <2>1. \A c \in Calls : Explained(c)'
    BY <1>8 DEF Explained
  <2>2. QED  BY <1>5, <2>1, SlotsThen
<1>11. UiOK'
  BY <1>8, <1>9, <1>10 DEF UiOK
<1>12. QED  BY <1>1, <1>5, <1>6, <1>7, <1>11, ResolveStep

LEMMA HandleStep ==
  ASSUME IInv, NEW c \in Calls, Handle(c) PROVE IInv'
<1>1. Typed /\ ConnOK(c) /\ HeardOK(c) /\ UiOK /\ op[c] = "posted" /\ task[c].pc = "none"
      /\ task[c].n = 0
      /\ UNCHANGED <<agent, local, sock, conn, dir, len, ui, hist>>
  BY DEF IInv, Handle, theServer, ConnOK
<1>2. Grows /\ DirOK'
  <2>1. Grows
    BY <1>1 DEF Grows, Put
  <2>2. QED  BY <1>1, <2>1, DirFrame DEF IInv
<1>3. odd' \in 0..MaxOdd
  BY <1>1, Odds DEF Handle, Typed
<1>4. ASSUME c \in Downloads
      PROVE  /\ pipe[c].sink # "source" /\ agent[c].pc # "recv" /\ ~Says(c, "header")
             /\ conn[c] \notin {"stream", "verdict"} /\ pipe[c].outcome = "none"
  BY <1>1, <1>4 DEF IInv, DownOK
<1>5. ASSUME task' = task,
             op' \in [Calls -> {"none", "posted", "pending", "over"}],
             op'[c] \in {"pending", "over"}, \A d \in Calls : d # c => op'[d] = op[d],
             reply' \in [Calls -> {"none", "ok", "err"}],
             reply'[c] \in {reply[c], "err"}, \A d \in Calls : d # c => reply'[d] = reply[d],
             pipe' \in [Downloads -> Pipes],
             c \in Downloads => /\ pipe'[c].sink # "source" /\ pipe'[c].outcome = pipe[c].outcome
                                /\ pipe'[c].n = pipe[c].n,
             \A d \in Downloads : d # c => pipe'[d] = pipe[d],
             UiOK'
      PROVE  IInv'
  <2>1. Typed'
    BY <1>1, <1>3, <1>5 DEF Typed
  <2>2. \A d \in Calls : d # c => Kept(d)
    BY <1>1, <1>5 DEF Kept
  <2>3. ConnOK(c)' /\ HeardOK(c)'
    BY <1>1, <1>5 DEF ConnOK, HeardOK, LetDown
  <2>4. ASSUME c \in Uploads PROVE UpOK(c)'
    <3>1. UpOK(c)
      BY <2>4 DEF IInv
    <3>2. QED  BY <1>1, <1>5, <3>1 DEF UpOK, Says, Put
  <2>5. ASSUME c \in Downloads PROVE DownOK(c)'
    <3>1. DownOK(c) /\ c \in Downloads
      BY <2>5 DEF IInv
    <3>2. Moving(c)' = Moving(c)
      BY <1>1, <1>5, <3>1 DEF Moving, Says
    <3>3. QED  BY <1>1, <1>4, <1>5, <3>1, <3>2 DEF DownOK, Says
  <2>6. ASSUME NEW d \in Downloads PROVE SeesOK(d)'
    <3>1. SeesOK(d) /\ Shown' \subseteq Shown
      BY <1>1 DEF IInv, Shown
    <3>2. QED  BY <1>1, <1>2, <1>5, <3>1, SeesFrame
  <2>7. \A u \in Uploads : u # c => /\ len'[u] = len[u] /\ dir'.bak[u] = dir.bak[u]
                                    /\ hist'.put[u] = hist.put[u]
    BY <1>1
  <2>8. QED  BY <1>2, <1>5, <2>1, <2>2, <2>3, <2>4, <2>5, <2>6, <2>7, OneCall
<1>6. CASE Refuse(c) /\ UNCHANGED task
  <2>1. /\ op' \in [Calls -> {"none", "posted", "pending", "over"}] /\ op'[c] = "over"
        /\ \A d \in Calls : d # c => op'[d] = op[d]
    BY <1>1, <1>6 DEF Refuse, Typed
  <2>2. /\ reply' \in [Calls -> {"none", "ok", "err"}] /\ reply'[c] \in {reply[c], "err"}
        /\ \A d \in Calls : d # c => reply'[d] = reply[d]
    BY <1>1, <1>6 DEF Refuse, Typed
  <2>3. /\ pipe' \in [Downloads -> Pipes]
        /\ c \in Downloads => /\ pipe'[c].sink # "source" /\ pipe'[c].outcome = pipe[c].outcome
                              /\ pipe'[c].n = pipe[c].n
        /\ \A d \in Downloads : d # c => pipe'[d] = pipe[d]
    <3>1. CASE c \in Uploads
      BY <1>1, <1>6, <3>1, Apart DEF Refuse, Typed
    <3>2. CASE c \in Downloads
      <4>1. pipe' = [pipe EXCEPT ![c].sink = "err"]
        BY <1>6, <3>2, Apart DEF Refuse
      <4>2. QED  BY <1>1, <3>2, <4>1 DEF Typed, Pipes
    <3>3. QED  BY <3>1, <3>2, Apart
  <2>4. UiOK'
    <3>1. \A d \in Calls : op'[d] = "pending" => op[d] = "pending" /\ d # c
      BY <2>1
    <3>2. \A d \in Calls : op'[d] = "pending" =>
           /\ op[d] = "pending"
           /\ task[d].pc \notin {"none", "done"} => task'[d].pc \notin {"none", "done"}
           /\ d \in Downloads /\ pipe[d].sink = "err" => pipe'[d].sink = "err"
      BY <1>6, <2>3, <3>1
    <3>3. QED  BY <1>1, <1>2, <3>2, UiFrame
  <2>5. QED  BY <1>5, <1>6, <2>1, <2>2, <2>3, <2>4
<1>7. CASE /\ op' = [op EXCEPT ![c] = "pending"]
           /\ task' = [task EXCEPT ![c].pc = "cmd", ![c].size = IF c \in Uploads THEN agent[c].size ELSE 0]
           /\ UNCHANGED <<reply, pipe>>
  <2> DEFINE z == IF c \in Uploads THEN agent[c].size ELSE 0
             t == [task[c] EXCEPT !.pc = "cmd", !.size = z]
  <2>1. z \in Length /\ (c \in Uploads => z = agent[c].size) /\ task[c] \in Tasks
    BY <1>1, Apart DEF Typed, Agents
  <2>2. task' = [task EXCEPT ![c] = t]
    BY <1>1, <1>7 DEF Typed
  <2> HIDE DEF z
  <2>3. /\ t \in Tasks /\ t.pc = "cmd" /\ t.size = z /\ t.n = 0 /\ t.obj = task[c].obj
        /\ t.backed = task[c].backed
    BY <1>1, <2>1 DEF Tasks, TaskPc
  <2> HIDE DEF t
  <2>4. task' \in [Calls -> Tasks] /\ task'[c] = t /\ \A d \in Calls : d # c => task'[d] = task[d]
    BY <1>1, <2>2, <2>3 DEF Typed
  <2>5. /\ op' \in [Calls -> {"none", "posted", "pending", "over"}] /\ op'[c] = "pending"
        /\ \A d \in Calls : d # c => op'[d] = op[d]
    BY <1>1, <1>7 DEF Typed
  <2>6. Typed'
    BY <1>1, <1>3, <1>7, <2>4, <2>5 DEF Typed
  <2>7. \A d \in Calls : d # c => Kept(d)
    BY <1>1, <1>7, <2>4, <2>5 DEF Kept
  <2>8. ConnOK(c)' /\ HeardOK(c)'
    BY <1>1, <2>3, <2>4, <2>5 DEF ConnOK, HeardOK, LetDown
  <2>9. ASSUME c \in Uploads PROVE UpOK(c)'
    <3>1. UpOK(c)
      BY <2>9 DEF IInv
    <3>2. ~Put(c) /\ len[c] = 0 /\ agent[c].n = task[c].n + sock[c].in /\ dir.bak[c] = None
          /\ ~task[c].backed
      BY <1>1, <3>1 DEF UpOK
    <3>3. QED  BY <1>1, <1>7, <2>1, <2>3, <2>4, <2>5, <2>9, <3>1, <3>2 DEF UpOK, Says, Put
  <2>10. ASSUME c \in Downloads PROVE DownOK(c)'
    <3>1. DownOK(c) /\ c \in Downloads
      BY <2>10 DEF IInv
    <3>2. Moving(c)' = Moving(c)
      BY <1>1, <1>7 DEF Moving, Says
    <3>3. QED  BY <1>1, <1>4, <1>7, <2>3, <2>4, <3>1, <3>2 DEF DownOK, Says
  <2>11. ASSUME NEW d \in Downloads PROVE SeesOK(d)'
    <3>1. SeesOK(d) /\ Shown' = Shown /\ task'[d].obj = task[d].obj
          /\ (task'[d].pc = "read" => task'[d] = task[d])
      BY <1>1, <2>3, <2>4, Apart DEF IInv, Shown
    <3>2. QED  BY <1>1, <3>1 DEF SeesOK, Put
  <2>12. UiOK'
    <3>1. \A i \in DOMAIN ui.evts : EventTrue(ui.evts[i])'
      BY <1>1 DEF UiOK, EventTrue, Put
    <3>2. SlotsExplained'
      <4>1. ASSUME NEW d \in Calls, op'[d] = "pending" PROVE Explained(d)'
        <5>1. CASE d = c
          BY <2>3, <2>4, <5>1 DEF Explained
        <5>2. CASE d # c
          <6>1. op[d] = "pending" /\ task'[d] = task[d]
            BY <2>4, <2>5, <4>1, <5>2
          <6>2. Explained(d)
            BY <1>1, <6>1, SlotsAre DEF UiOK
          <6>3. QED  BY <1>1, <1>7, <6>1, <6>2 DEF Explained
        <5>3. QED  BY <5>1, <5>2
      <4>2. ui' \in Uis
        BY <1>1 DEF Typed
      <4>3. QED  BY <4>1, <4>2, SlotsThen
    <3>3. QED  BY <1>1, <3>1, <3>2 DEF UiOK
  <2>13. /\ \A u \in Uploads : u # c => /\ len'[u] = len[u] /\ dir'.bak[u] = dir.bak[u]
                                        /\ hist'.put[u] = hist.put[u]
         /\ \A d \in Downloads : d # c => pipe'[d] = pipe[d]
    BY <1>1, <1>7
  <2>14. QED  BY <1>2, <2>6, <2>7, <2>8, <2>9, <2>10, <2>11, <2>12, <2>13, OneCall
<1>8. CASE /\ ui.connected /\ ~ui.link /\ op' = [op EXCEPT ![c] = "pending"]
           /\ pipe' = (IF c \in Downloads THEN [pipe EXCEPT ![c].sink = "err"] ELSE pipe)
           /\ UNCHANGED <<reply, task>>
  <2>1. /\ op' \in [Calls -> {"none", "posted", "pending", "over"}] /\ op'[c] = "pending"
        /\ \A d \in Calls : d # c => op'[d] = op[d]
    BY <1>1, <1>8 DEF Typed
  <2>2. reply' \in [Calls -> {"none", "ok", "err"}]
    BY <1>1, <1>8 DEF Typed
  <2>3. /\ pipe' \in [Downloads -> Pipes]
        /\ c \in Downloads => /\ pipe'[c].sink # "source" /\ pipe'[c].outcome = pipe[c].outcome
                              /\ pipe'[c].n = pipe[c].n
        /\ \A d \in Downloads : d # c => pipe'[d] = pipe[d]
    <3>1. CASE c \notin Downloads
      BY <1>1, <1>8, <3>1 DEF Typed
    <3>2. CASE c \in Downloads
      <4>1. pipe' = [pipe EXCEPT ![c].sink = "err"]
        BY <1>8, <3>2
      <4>2. QED  BY <1>1, <3>2, <4>1 DEF Typed, Pipes
    <3>3. QED  BY <3>1, <3>2
  <2>4. UiOK'
    <3>1. \E i \in DOMAIN ui.evts : ui.evts[i].what = "lost"
      BY <1>1, <1>8 DEF UiOK
    <3>2. \A d \in Calls : Explained(d)'
      BY <1>1, <3>1 DEF Explained
    <3>3. ui' \in Uis
      BY <1>1 DEF Typed
    <3>4. SlotsExplained'
      BY <3>2, <3>3, SlotsThen
    <3>5. \A i \in DOMAIN ui.evts : EventTrue(ui.evts[i])'
      BY <1>1 DEF UiOK, EventTrue, Put
    <3>6. QED  BY <1>1, <3>1, <3>4, <3>5 DEF UiOK
  <2>5. QED  BY <1>5, <1>8, <2>1, <2>2, <2>3, <2>4
<1>9. QED  BY <1>6, <1>7, <1>8 DEF Handle

-----------------------------------------------------------------------------
(* The worker *)

\* What a download has seen stays true while its task does not move, whatever
\* happens to the remote names and to objects it has nothing to do with.
LEMMA SeesTask ==
  ASSUME NEW d, SeesOK(d), agent' = agent, Grows,
         task'[d].obj = task[d].obj,
         task'[d].pc = "read" => task'[d] = task[d],
         agent[d].pc \in {"head", "recv"} => Shown' \subseteq hist'.seen,
         task[d].obj # None => len'[task[d].obj] = len[task[d].obj]
  PROVE  SeesOK(d)'
BY DEF SeesOK, Grows

\* A step of the task of a call that does not end it, or ends it.
LEMMA TaskStep ==
  ASSUME IInv, NEW c \in Calls,
         UNCHANGED <<agent, local, conn, op, reply>>,
         task' \in [Calls -> Tasks], sock' \in [Calls -> Socks], pipe' \in [Downloads -> Pipes],
         dir' \in Dirs, len' \in [Objects -> Length], ui' \in Uis, hist' \in Hists,
         odd' \in 0..MaxOdd,
         \A d \in Calls : d # c => task'[d] = task[d] /\ sock'[d] = sock[d],
         \A d \in Downloads : d # c => pipe'[d] = pipe[d],
         \A u \in Uploads : u # c => /\ len'[u] = len[u] /\ dir'.bak[u] = dir.bak[u]
                                     /\ hist'.put[u] = hist.put[u],
         Grows, sock'[c].out = sock[c].out, sock'[c].closed = sock[c].closed,
         task[c].pc # "none", task'[c].pc \in {"none", "cmd", "open"} => task'[c].n = 0,
         c \in Uploads => UpOK(c)', c \in Downloads => DownOK(c)',
         \A d \in Downloads : SeesOK(d)', DirOK', UiOK'
  PROVE  IInv'
<1>1. Typed'
  BY DEF IInv, Typed
<1>2. \A d \in Calls : d # c => Kept(d)
  BY DEF Kept
<1>3. ConnOK(c)' /\ HeardOK(c)'
  <2>1. ConnOK(c) /\ HeardOK(c)
    BY DEF IInv
  <2>2. LetDown(c) => LetDown(c)'
    BY DEF LetDown, Grows
  <2>3. QED  BY <2>1, <2>2 DEF ConnOK, HeardOK
<1>4. QED  BY <1>1, <1>2, <1>3, OneCall

\* The end of a task and its event.
LEMMA TellsStep ==
  ASSUME IInv, NEW c \in Calls, NEW e \in Event, e.what = "done", e.call = c,
         e.ok /\ c \in Uploads => Put(c)',
         task' = [task EXCEPT ![c] = [@ EXCEPT !.pc = "done", !.n = 0, !.backed = FALSE]],
         ui' = [ui EXCEPT !.evts = Append(@, e)],
         task[c].pc # "none",
         UNCHANGED <<agent, local, sock, conn, op, reply>>,
         pipe' \in [Downloads -> Pipes], \A d \in Downloads : d # c => pipe'[d] = pipe[d],
         dir' \in Dirs, len' \in [Objects -> Length], hist' \in Hists, odd' \in 0..MaxOdd,
         \A u \in Uploads : u # c => /\ len'[u] = len[u] /\ dir'.bak[u] = dir.bak[u]
                                     /\ hist'.put[u] = hist.put[u],
         Grows, DirOK',
         c \in Uploads => /\ Put(c)' => sock[c].eof /\ sock[c].in = 0
                          /\ hist'.put[c] \in {None, agent[c].size},
         c \in Downloads => /\ pipe'[c].sink = pipe[c].sink /\ pipe'[c].n = pipe[c].n
                            /\ pipe'[c].outcome = "ok" => task[c].pc = "tell"
                            /\ ~Says(c, "ok"),
         \A d \in Downloads : /\ agent[d].pc \in {"head", "recv"} => Shown' \subseteq hist'.seen
                              /\ task[d].obj # None => len'[task[d].obj] = len[task[d].obj]
  PROVE  IInv'
<1>1. Typed /\ ConnOK(c) /\ UiOK /\ ui \in Uis /\ ui.evts \in Seq(Event) /\ task[c] \in Tasks
  BY DEF IInv, Typed, Uis
<1> DEFINE t == [task[c] EXCEPT !.pc = "done", !.n = 0, !.backed = FALSE]
<1>2. task' = [task EXCEPT ![c] = t]
  BY <1>1 DEF Typed
<1>3. /\ t \in Tasks /\ t.pc = "done" /\ t.size = task[c].size /\ t.obj = task[c].obj
  <2>1. FALSE \in BOOLEAN /\ 0 \in Length /\ "done" \in TaskPc
    BY Apart DEF TaskPc
  <2>2. QED  BY <1>1, <2>1 DEF Tasks
<1> HIDE DEF t
<1>4. task' \in [Calls -> Tasks] /\ task'[c] = t /\ \A d \in Calls : d # c => task'[d] = task[d]
  BY <1>1, <1>2, <1>3 DEF Typed
<1>5. op[c] \notin {"none", "posted"} /\ conn[c] \notin {"none", "read"}
  BY <1>1 DEF ConnOK
<1>6. ASSUME c \in Uploads PROVE UpOK(c)'
  <2>1. UpOK(c) /\ (Put(c) => Put(c)') /\ dir'.bak = dir'.bak
    BY <1>6 DEF IInv, Grows
  <2>2. QED  BY <1>3, <1>4, <1>5, <1>6, <2>1 DEF UpOK, Says
<1>7. ASSUME c \in Downloads PROVE DownOK(c)'
  <2>1. DownOK(c) /\ c \in Downloads
    BY <1>7 DEF IInv
  <2>2. Moving(c)' = Moving(c) /\ (Whole(c) => Whole(c)')
    BY <1>3, <1>4, <2>1 DEF Moving, Says, Whole, Grows
  <2>3. QED  BY <1>3, <1>4, <2>1, <2>2 DEF DownOK, Says, Grows
<1>8. ASSUME NEW d \in Downloads PROVE SeesOK(d)'
  <2>1. SeesOK(d) /\ d \in Calls
    BY Apart DEF IInv
  <2>2. task'[d].obj = task[d].obj /\ (task'[d].pc = "read" => task'[d] = task[d])
    BY <1>3, <1>4, <2>1
  <2>3. QED  BY <2>1, <2>2, SeesTask
<1> DEFINE s == ui.evts
           l == Append(s, e)
<1>9. /\ l \in Seq(Event) /\ \A i \in DOMAIN s : i \in DOMAIN l /\ l[i] = s[i]
      /\ Len(s) + 1 \in DOMAIN l /\ l[Len(s) + 1] = e
      /\ \A i \in DOMAIN l : i \in DOMAIN s \/ i = Len(s) + 1
  BY <1>1, AppendFacts
<1>10. ui' = [ui EXCEPT !.evts = l]
  OBVIOUS
<1> HIDE DEF l
<1>11. ui' \in Uis /\ ui'.evts = l /\ ui'.connected = ui.connected /\ ui'.link = ui.link
  BY <1>1, <1>9, <1>10 DEF Uis
<1>12. UiOK'
  <2>1. ui'.connected /\ ~ui'.link => \E i \in DOMAIN ui'.evts : ui'.evts[i].what = "lost"
    BY <1>1, <1>9, <1>11 DEF UiOK
  <2>2. \A i \in DOMAIN ui'.evts : EventTrue(ui.evts[i])'
    <3>1. ASSUME NEW i \in DOMAIN l
          PROVE  l[i].what = "done" =>
                   /\ l[i].call \in Calls
                   /\ l[i].ok /\ l[i].call \in Uploads => hist'.put[l[i].call] # None
      <4>1. CASE i \in DOMAIN s
        <5>1. l[i] = s[i] /\ EventTrue(s[i])
          BY <1>1, <1>9, <4>1 DEF UiOK
        <5>2. QED  BY <5>1, Apart DEF EventTrue, Grows, Put
      <4>2. CASE i = Len(s) + 1
        BY <1>9, <4>2 DEF Put
      <4>3. QED  BY <1>9, <4>1, <4>2
    <3>2. QED  BY <1>11, <3>1 DEF EventTrue, Put
  <2>3. SlotsExplained'
    <3>1. ASSUME NEW d \in Calls, op'[d] = "pending" PROVE Explained(d)'
      <4>1. CASE d = c
        BY <1>9, <1>11, <4>1 DEF Explained
      <4>2. CASE d # c
        <5>1. Explained(d)
          BY <1>1, <3>1, SlotsAre DEF UiOK
        <5>2. CASE \E i \in DOMAIN s : s[i].call = d \/ s[i].what = "lost"
          BY <1>9, <1>11, <5>2 DEF Explained
        <5>3. QED  BY <1>4, <4>2, <5>1, <5>2 DEF Explained
      <4>3. QED  BY <4>1, <4>2
    <3>2. QED  BY <1>11, <3>1, SlotsThen
  <2>4. QED  BY <2>1, <2>2, <2>3 DEF UiOK
<1>13. sock' \in [Calls -> Socks]
  BY <1>1 DEF Typed
<1>14. QED  BY <1>3, <1>4, <1>6, <1>7, <1>8, <1>11, <1>12, <1>13, TaskStep

\* A step of an upload's task that goes on.
LEMMA UpStep ==
  ASSUME IInv, NEW c \in Uploads, NEW t \in Tasks, task' = [task EXCEPT ![c] = t],
         task[c].pc \notin {"none", "done"}, t.pc \notin {"none", "cmd", "open", "done"},
         UNCHANGED <<agent, local, conn, op, reply, pipe, ui>>,
         sock' \in [Calls -> Socks], \A d \in Calls : d # c => sock'[d] = sock[d],
         sock'[c].out = sock[c].out, sock'[c].closed = sock[c].closed,
         dir' \in Dirs, len' \in [Objects -> Length], hist' \in Hists, odd' \in 0..MaxOdd,
         \A u \in Uploads : u # c => /\ len'[u] = len[u] /\ dir'.bak[u] = dir.bak[u]
                                     /\ hist'.put[u] = hist.put[u],
         Grows, UpOK(c)', DirOK',
         \A d \in Downloads : /\ agent[d].pc \in {"head", "recv"} => Shown' \subseteq hist'.seen
                              /\ task[d].obj # None => len'[task[d].obj] = len[task[d].obj]
  PROVE  IInv'
<1>1. Typed /\ UiOK /\ c \in Calls /\ c \notin Downloads
  BY Apart DEF IInv
<1>2. task' \in [Calls -> Tasks] /\ task'[c] = t /\ \A d \in Calls : d # c => task'[d] = task[d]
  BY <1>1 DEF Typed
<1>3. ASSUME NEW d \in Downloads PROVE SeesOK(d)'
  <2>1. SeesOK(d) /\ task'[d] = task[d]
    BY <1>1, <1>2, Apart DEF IInv
  <2>2. QED  BY <2>1, SeesTask
<1>4. UiOK'
  BY <1>1, <1>2, UiFrame
<1>5. pipe' \in [Downloads -> Pipes] /\ ui' \in Uis
  BY <1>1 DEF Typed
<1>6. QED  BY <1>1, <1>2, <1>3, <1>4, <1>5, TaskStep

\* A step of a download's task that goes on.
LEMMA DownStep ==
  ASSUME IInv, NEW c \in Downloads, NEW t \in Tasks, task' = [task EXCEPT ![c] = t],
         task[c].pc \notin {"none", "done"}, t.pc \notin {"none", "cmd", "done"},
         t.pc = "open" => t.n = 0,
         UNCHANGED <<agent, local, sock, conn, op, reply, ui, dir, len, hist>>,
         pipe' \in [Downloads -> Pipes], \A d \in Downloads : d # c => pipe'[d] = pipe[d],
         odd' \in 0..MaxOdd, DownOK(c)', SeesOK(c)'
  PROVE  IInv'
<1>1. Typed /\ UiOK /\ c \in Calls /\ c \notin Uploads
  BY Apart DEF IInv
<1>2. task' \in [Calls -> Tasks] /\ task'[c] = t /\ \A d \in Calls : d # c => task'[d] = task[d]
  BY <1>1 DEF Typed
<1>3. Grows /\ DirOK'
  <2>1. Grows
    BY DEF Grows, Put
  <2>2. QED  BY <2>1, DirFrame DEF IInv
<1>4. ASSUME NEW d \in Downloads PROVE SeesOK(d)'
  <2>1. CASE d # c
    <3>1. SeesOK(d) /\ task'[d] = task[d] /\ Shown' \subseteq Shown
      BY <1>1, <1>2, <2>1, Apart DEF IInv, Shown
    <3>2. QED  BY <1>3, <3>1, SeesFrame
  <2>2. QED  BY <2>1
<1>5. UiOK'
  <2>1. \A d \in Calls : op'[d] = "pending" =>
          /\ op[d] = "pending"
          /\ task[d].pc \notin {"none", "done"} => task'[d].pc \notin {"none", "done"}
    BY <1>1, <1>2
  <2>2. \A i \in DOMAIN ui.evts : EventTrue(ui.evts[i])'
    BY <1>1 DEF UiOK, EventTrue, Put
  <2>3. SlotsExplained'
    <3>1. ASSUME NEW d \in Calls, op'[d] = "pending" PROVE Explained(d)'
      <4>1. CASE d = c
        BY <1>2, <4>1 DEF Explained
      <4>2. CASE d # c
        <5>1. Explained(d) /\ task'[d] = task[d]
          BY <1>1, <1>2, <3>1, <4>2, SlotsAre DEF UiOK
        <5>2. QED  BY <4>2, <5>1 DEF Explained
      <4>3. QED  BY <4>1, <4>2
    <3>2. ui' \in Uis
      BY <1>1 DEF Typed
    <3>3. QED  BY <3>1, <3>2, SlotsThen
  <2>4. QED  BY <1>1, <2>2, <2>3 DEF UiOK
<1>6. /\ sock' \in [Calls -> Socks] /\ dir' \in Dirs /\ len' \in [Objects -> Length]
      /\ ui' \in Uis /\ hist' \in Hists
  BY <1>1 DEF Typed
<1>7. /\ \A d \in Calls : d # c => task'[d] = task[d] /\ sock'[d] = sock[d]
      /\ \A u \in Uploads : u # c => /\ len'[u] = len[u] /\ dir'.bak[u] = dir.bak[u]
                                     /\ hist'.put[u] = hist.put[u]
  BY <1>2
<1>8. task'[c].pc \in {"none", "cmd", "open"} => task'[c].n = 0
  BY <1>2
<1>9. QED  BY <1>1, <1>2, <1>3, <1>4, <1>5, <1>6, <1>7, <1>8, TaskStep

LEMMA GoesFacts ==
  ASSUME Typed, NEW c \in Calls, NEW p \in TaskPc, Goes(c, p)
  PROVE  \E t \in Tasks : /\ task' = [task EXCEPT ![c] = t] /\ task'[c] = t /\ t.pc = p
                          /\ t.n = task[c].n /\ t.size = task[c].size /\ t.obj = task[c].obj
                          /\ t.backed = task[c].backed
<1> DEFINE t == [task[c] EXCEPT !.pc = p]
<1>1. task[c] \in Tasks /\ task \in [Calls -> Tasks]
  BY DEF Typed
<1>2. task' = [task EXCEPT ![c] = t] /\ task'[c] = t
  BY <1>1 DEF Goes
<1>3. /\ t \in Tasks /\ t.pc = p /\ t.n = task[c].n /\ t.size = task[c].size
      /\ t.obj = task[c].obj /\ t.backed = task[c].backed
  BY <1>1 DEF Tasks
<1>4. QED  BY <1>2, <1>3

LEMMA WorkOdd ==
  ASSUME Typed, Works \/ Fails \/ Odd \/ odd' = odd PROVE odd' \in 0..MaxOdd
BY Odds DEF Works, Fails, Typed

\* The temporary file of an upload is nobody else's until it is put in place.
LEMMA Unowned ==
  ASSUME IInv, NEW c \in Uploads, ~Put(c)
  PROVE  dir.file # c /\ \A d \in Downloads : task[d].obj # c
BY DEF IInv, DirOK, SeesOK

LEMMA Watching ==
  ASSUME NEW d \in Downloads, agent[d].pc \in {"head", "recv"} PROVE Watched
BY DEF Watched, Ended

\* An upload that fails goes on to remove its temporary file.
LEMMA ToRemove ==
  ASSUME NEW c \in Uploads, ConnOK(c), UpOK(c), task[c].pc # "none",
         task'[c].pc = "remove", task'[c].size = task[c].size,
         UNCHANGED <<agent, reply, op, conn>>, Grows,
         sock'[c].out = sock[c].out, sock'[c].eof = sock[c].eof,
         Put(c)' => sock[c].eof /\ sock'[c].in = 0,
         hist'.put[c] \in {None, agent[c].size}
  PROVE  UpOK(c)'
<1>1. op[c] \notin {"none", "posted"} /\ conn[c] \notin {"none", "read"} /\ (Put(c) => Put(c)')
  BY DEF ConnOK, Grows
<1>2. QED  BY <1>1 DEF UpOK, Says

\* Nothing of the remote names and of the objects a download may know changes.
LEMMA NamesKept ==
  ASSUME IInv, NEW c \in Uploads, dir'.file = dir.file, hist' = hist, len \in [Objects -> Length],
         len' = len \/ (~Put(c) /\ \E n \in Length : len' = [len EXCEPT ![c] = n])
  PROVE  \A d \in Downloads : /\ agent[d].pc \in {"head", "recv"} => Shown' \subseteq hist'.seen
                              /\ task[d].obj # None => len'[task[d].obj] = len[task[d].obj]
<1>1. ASSUME NEW d \in Downloads
      PROVE  /\ dir.file # None => len'[dir.file] = len[dir.file]
             /\ task[d].obj # None => len'[task[d].obj] = len[task[d].obj]
  <2>1. dir.file \in MaybeObject /\ task[d].obj \in MaybeObject
    BY Apart DEF IInv, Typed, Dirs, Tasks
  <2>2. QED  BY <2>1, Unowned DEF MaybeObject
<1>2. ASSUME NEW d \in Downloads, agent[d].pc \in {"head", "recv"} PROVE Shown' \subseteq hist'.seen
  <2>1. Shown \subseteq hist.seen
    BY <1>2 DEF IInv, SeesOK
  <2>2. Shown' = Shown
    BY <1>1 DEF Shown
  <2>3. QED  BY <2>1, <2>2
<1>3. QED  BY <1>1, <1>2

LEMMA UOpenStep ==
  ASSUME IInv, NEW c \in Calls, UOpen(c) PROVE IInv'
<1>1. Typed /\ ConnOK(c) /\ UpOK(c) /\ c \in Uploads /\ c \notin Downloads /\ task[c].pc = "cmd"
      /\ DirOK /\ UNCHANGED <<agent, local, sock, conn, op, reply, pipe, len, ui, hist>>
  BY Apart DEF IInv, UOpen, At
<1>2. Grows /\ sock' \in [Calls -> Socks] /\ len' \in [Objects -> Length] /\ hist' \in Hists
  BY <1>1 DEF Grows, Put, Typed
<1>3. odd' \in 0..MaxOdd
  BY <1>1, WorkOdd DEF UOpen
<1>4. CASE dir' = [dir EXCEPT !.tmp[c] = c] /\ Goes(c, "read")
  <2>1. "read" \in TaskPc
    BY DEF TaskPc
  <2>2. PICK t \in Tasks : /\ task' = [task EXCEPT ![c] = t] /\ task'[c] = t /\ t.pc = "read"
                           /\ t.n = task[c].n /\ t.size = task[c].size /\ t.obj = task[c].obj
                           /\ t.backed = task[c].backed
    BY <1>1, <1>4, <2>1, GoesFacts
  <2>3. c \in MaybeObject
    BY <1>1, Apart DEF MaybeObject
  <2>4. dir' \in Dirs /\ dir'.file = dir.file /\ dir'.bak = dir.bak
    BY <1>1, <1>4, <2>3 DEF Typed, Dirs
  <2>5. UpOK(c)'
    <3>1. task[c].n = 0 /\ len[c] = 0 /\ ~Put(c) /\ task[c].size \in Nat
      BY <1>1 DEF ConnOK, UpOK, Typed, Tasks, Length
    <3>2. 0 <= task[c].size
      BY <3>1
    <3>3. QED  BY <1>1, <2>2, <2>4, <3>1, <3>2 DEF UpOK, Says, Put
  <2>6. DirOK'
    BY <1>1, <2>4 DEF DirOK, Put
  <2>7. \A d \in Downloads : /\ agent[d].pc \in {"head", "recv"} => Shown' \subseteq hist'.seen
                             /\ task[d].obj # None => len'[task[d].obj] = len[task[d].obj]
    BY <1>1, <2>4, NamesKept DEF Typed
  <2>8. QED  BY <1>1, <1>2, <1>3, <2>2, <2>4, <2>5, <2>6, <2>7, UpStep
<1>5. CASE Goes(c, "remove") /\ UNCHANGED dir
  <2>1. "remove" \in TaskPc
    BY DEF TaskPc
  <2>2. PICK t \in Tasks : /\ task' = [task EXCEPT ![c] = t] /\ task'[c] = t /\ t.pc = "remove"
                           /\ t.n = task[c].n /\ t.size = task[c].size /\ t.obj = task[c].obj
                           /\ t.backed = task[c].backed
    BY <1>1, <1>5, <2>1, GoesFacts
  <2>3. dir' \in Dirs /\ DirOK'
    BY <1>1, <1>2, <1>5, DirFrame DEF Typed
  <2>4. UpOK(c)'
    BY <1>1, <1>2, <2>2, ToRemove DEF UpOK, Put
  <2>5. \A d \in Downloads : /\ agent[d].pc \in {"head", "recv"} => Shown' \subseteq hist'.seen
                             /\ task[d].obj # None => len'[task[d].obj] = len[task[d].obj]
    BY <1>1, <1>5, NamesKept DEF Typed
  <2>6. QED  BY <1>1, <1>2, <1>3, <1>5, <2>2, <2>3, <2>4, <2>5, UpStep
<1>6. QED  BY <1>4, <1>5 DEF UOpen

LEMMA UReadStep ==
  ASSUME IInv, NEW c \in Calls, URead(c) PROVE IInv'
<1>1. Typed /\ ConnOK(c) /\ UpOK(c) /\ c \in Uploads /\ c \notin Downloads /\ task[c].pc = "read"
      /\ DirOK /\ UNCHANGED <<agent, local, conn, op, reply, pipe, dir, ui, hist>>
  BY Apart DEF IInv, URead, At
<1>2. Grows /\ dir' \in Dirs /\ hist' \in Hists /\ DirOK'
  <2>1. Grows /\ dir' \in Dirs /\ hist' \in Hists
    BY <1>1 DEF Grows, Put, Typed
  <2>2. QED  BY <1>1, <2>1, DirFrame
<1>3. odd' \in 0..MaxOdd
  BY <1>1, WorkOdd DEF URead
<1>4. /\ ~Put(c) /\ len[c] = task[c].n /\ task[c].n <= task[c].size
      /\ agent[c].n = task[c].n + sock[c].in /\ task[c].size = agent[c].size
  BY <1>1 DEF UpOK
<1>5. /\ task[c].n \in Nat /\ task[c].size \in Nat /\ task[c].size <= MaxLen /\ sock[c].in \in 0..1
  <2>1. task[c].n \in 0..MaxLen /\ task[c].size \in 0..MaxLen /\ sock[c].in \in 0..1
    BY <1>1 DEF Typed, Tasks, Socks, Length
  <2>2. QED  BY <2>1, Apart
<1>6. ASSUME sock' = [sock EXCEPT ![c].in = 0]
      PROVE  /\ sock' \in [Calls -> Socks] /\ sock'[c].in = 0 /\ sock'[c].out = sock[c].out
             /\ sock'[c].eof = sock[c].eof /\ sock'[c].closed = sock[c].closed
             /\ \A d \in Calls : d # c => sock'[d] = sock[d]
  BY <1>1, <1>6 DEF Typed, Socks
<1>7. ASSUME sock' = sock
      PROVE  /\ sock' \in [Calls -> Socks] /\ sock'[c].in = sock[c].in /\ sock'[c].out = sock[c].out
             /\ sock'[c].eof = sock[c].eof /\ sock'[c].closed = sock[c].closed
             /\ \A d \in Calls : d # c => sock'[d] = sock[d]
  BY <1>1, <1>7 DEF Typed
<1>8. ASSUME Goes(c, "remove"), len' = len, sock' = sock \/ sock' = [sock EXCEPT ![c].in = 0]
      PROVE  IInv'
  <2>1. "remove" \in TaskPc
    BY DEF TaskPc
  <2>2. PICK t \in Tasks : /\ task' = [task EXCEPT ![c] = t] /\ task'[c] = t /\ t.pc = "remove"
                           /\ t.n = task[c].n /\ t.size = task[c].size /\ t.obj = task[c].obj
                           /\ t.backed = task[c].backed
    BY <1>1, <1>8, <2>1, GoesFacts
  <2>3. /\ sock' \in [Calls -> Socks] /\ sock'[c].out = sock[c].out
        /\ sock'[c].eof = sock[c].eof /\ sock'[c].closed = sock[c].closed
        /\ \A d \in Calls : d # c => sock'[d] = sock[d]
    BY <1>6, <1>7, <1>8
  <2>4. UpOK(c)'
    <3>1. ~Put(c)' /\ hist'.put[c] \in {None, agent[c].size}
      BY <1>1, <1>4 DEF Put
    <3>2. QED  BY <1>1, <1>2, <2>2, <2>3, <3>1, ToRemove
  <2>5. \A d \in Downloads : /\ agent[d].pc \in {"head", "recv"} => Shown' \subseteq hist'.seen
                             /\ task[d].obj # None => len'[task[d].obj] = len[task[d].obj]
    BY <1>1, <1>8, NamesKept DEF Typed
  <2>6. len' \in [Objects -> Length]
    BY <1>1, <1>8 DEF Typed
  <2>7. QED  BY <1>1, <1>2, <1>3, <1>8, <2>2, <2>3, <2>4, <2>5, <2>6, UpStep
<1>9. CASE /\ task[c].n < task[c].size /\ sock[c].in > 0
           /\ sock' = [sock EXCEPT ![c].in = 0]
           /\ task' = [task EXCEPT ![c].n = @ + 1]
           /\ len' = [len EXCEPT ![c] = @ + 1]
  <2> DEFINE n == task[c].n + 1
             t == [task[c] EXCEPT !.n = n]
  <2>1. n \in 0..MaxLen /\ n <= task[c].size /\ sock[c].in = 1
    BY <1>5, <1>9, Apart
  <2>2. agent[c].n = n
    BY <1>4, <1>5, <2>1
  <2>3. task' = [task EXCEPT ![c] = t] /\ len' = [len EXCEPT ![c] = n]
    BY <1>1, <1>4, <1>9 DEF Typed
  <2>4. len' \in [Objects -> Length] /\ len'[c] = n /\ \A u \in Uploads : u # c => len'[u] = len[u]
    BY <1>1, <2>1, <2>3, Apart DEF Typed, Length
  <2> HIDE DEF n
  <2>5. /\ t \in Tasks /\ t.pc = "read" /\ t.n = n /\ t.size = task[c].size
        /\ t.backed = task[c].backed
    BY <1>1, <2>1 DEF Typed, Tasks, Length
  <2> HIDE DEF t
  <2>6. task'[c] = t
    BY <1>1, <2>3 DEF Typed
  <2>7. /\ sock' \in [Calls -> Socks] /\ sock'[c].in = 0 /\ sock'[c].out = sock[c].out
        /\ sock'[c].eof = sock[c].eof /\ sock'[c].closed = sock[c].closed
        /\ \A d \in Calls : d # c => sock'[d] = sock[d]
    BY <1>6, <1>9
  <2>8. UpOK(c)'
    <3>1. n = n + 0
      BY <2>1
    <3>2. QED  BY <1>1, <1>4, <2>1, <2>2, <2>4, <2>5, <2>6, <2>7, <3>1 DEF UpOK, Says, Put
  <2>9. \A d \in Downloads : /\ agent[d].pc \in {"head", "recv"} => Shown' \subseteq hist'.seen
                             /\ task[d].obj # None => len'[task[d].obj] = len[task[d].obj]
    <3>1. n \in Length
      BY <2>1 DEF Length
    <3>2. QED  BY <1>1, <1>4, <2>3, <3>1, NamesKept DEF Typed
  <2>10. QED  BY <1>1, <1>2, <1>3, <2>3, <2>4, <2>5, <2>6, <2>7, <2>8, <2>9, UpStep
<1>10. CASE /\ sock[c].in = 0 /\ sock[c].eof
            /\ Goes(c, IF task[c].n = task[c].size THEN "close" ELSE "remove")
            /\ UNCHANGED <<sock, len, odd>>
  <2>1. CASE task[c].n # task[c].size
    BY <1>8, <1>10, <2>1
  <2>2. CASE task[c].n = task[c].size
    <3>1. "close" \in TaskPc /\ Goes(c, "close")
      BY <1>10, <2>2 DEF TaskPc
    <3>2. PICK t \in Tasks : /\ task' = [task EXCEPT ![c] = t] /\ task'[c] = t /\ t.pc = "close"
                             /\ t.n = task[c].n /\ t.size = task[c].size /\ t.obj = task[c].obj
                             /\ t.backed = task[c].backed
      BY <1>1, <3>1, GoesFacts
    <3>3. /\ sock' \in [Calls -> Socks] /\ len' \in [Objects -> Length]
      BY <1>1, <1>10 DEF Typed
    <3>4. UpOK(c)'
      <4>1. op[c] \notin {"none", "posted"} /\ conn[c] \notin {"none", "read"}
        BY <1>1 DEF ConnOK
      <4>2. QED  BY <1>1, <1>4, <1>10, <3>2, <4>1 DEF UpOK, Says, Put
    <3>5. \A d \in Downloads : /\ agent[d].pc \in {"head", "recv"} => Shown' \subseteq hist'.seen
                               /\ task[d].obj # None => len'[task[d].obj] = len[task[d].obj]
      BY <1>1, <1>10, NamesKept DEF Typed
    <3>6. QED  BY <1>1, <1>2, <1>3, <1>10, <3>2, <3>3, <3>4, <3>5, UpStep
  <2>3. QED  BY <2>1, <2>2
<1>11. QED  BY <1>8, <1>9, <1>10 DEF URead

LEMMA UVerifyStep ==
  ASSUME IInv, NEW c \in Calls, UVerify(c) PROVE IInv'
<1>1. Typed /\ ConnOK(c) /\ UpOK(c) /\ c \in Uploads /\ c \notin Downloads /\ task[c].pc = "close"
      /\ DirOK /\ UNCHANGED <<agent, local, sock, conn, op, reply, pipe, dir, ui, hist>>
  BY Apart DEF IInv, UVerify, At
<1>2. Grows /\ dir' \in Dirs /\ hist' \in Hists /\ DirOK' /\ sock' \in [Calls -> Socks]
  <2>1. Grows /\ dir' \in Dirs /\ hist' \in Hists /\ sock' \in [Calls -> Socks]
    BY <1>1 DEF Grows, Put, Typed
  <2>2. QED  BY <1>1, <2>1, DirFrame
<1>3. odd' \in 0..MaxOdd
  BY <1>1, WorkOdd DEF UVerify
<1>4. ~Put(c) /\ sock[c].eof /\ sock[c].in = 0
  BY <1>1 DEF UpOK
<1>5. op[c] \notin {"none", "posted"} /\ conn[c] \notin {"none", "read"}
  BY <1>1 DEF ConnOK
<1>6. ASSUME NEW n \in Length, len' = [len EXCEPT ![c] = n],
             Goes(c, IF Verified(c, n) THEN "backup" ELSE "remove")
      PROVE  IInv'
  <2> DEFINE p == IF Verified(c, n) THEN "backup" ELSE "remove"
  <2>1. p \in TaskPc /\ p \in {"backup", "remove"} /\ (p = "backup" => n = task[c].size)
    BY DEF TaskPc, Verified
  <2>2. Goes(c, p)
    BY <1>6
  <2> HIDE DEF p
  <2>3. PICK t \in Tasks : /\ task' = [task EXCEPT ![c] = t] /\ task'[c] = t /\ t.pc = p
                           /\ t.n = task[c].n /\ t.size = task[c].size /\ t.obj = task[c].obj
                           /\ t.backed = task[c].backed
    BY <1>1, <2>1, <2>2, GoesFacts
  <2>4. len' \in [Objects -> Length] /\ len'[c] = n /\ \A u \in Uploads : u # c => len'[u] = len[u]
    BY <1>1, <1>6, Apart DEF Typed
  <2>5. UpOK(c)'
    BY <1>1, <1>4, <1>5, <2>1, <2>3, <2>4 DEF UpOK, Says, Put
  <2>6. \A d \in Downloads : /\ agent[d].pc \in {"head", "recv"} => Shown' \subseteq hist'.seen
                             /\ task[d].obj # None => len'[task[d].obj] = len[task[d].obj]
    BY <1>1, <1>4, <1>6, NamesKept DEF Typed
  <2>7. QED  BY <1>1, <1>2, <1>3, <2>1, <2>3, <2>4, <2>5, <2>6, UpStep
<1>7. len[c] \in Length
  BY <1>1, Apart DEF Typed
<1>8. CASE Goes(c, IF Verified(c, len[c]) THEN "backup" ELSE "remove") /\ UNCHANGED len
  <2>1. len' = [len EXCEPT ![c] = len[c]]
    BY <1>1, <1>8 DEF Typed
  <2>2. QED  BY <1>6, <1>7, <1>8, <2>1
<1>9. CASE /\ len[c] > 0 /\ len' = [len EXCEPT ![c] = @ - 1]
           /\ Goes(c, IF Verified(c, len'[c]) THEN "backup" ELSE "remove")
  <2> DEFINE n == len[c] - 1
  <2>1. n \in Length
    BY <1>7, <1>9, Apart DEF Length
  <2>2. len' = [len EXCEPT ![c] = n] /\ len'[c] = n
    BY <1>1, <1>9, Apart DEF Typed
  <2> HIDE DEF n
  <2>3. Goes(c, IF Verified(c, n) THEN "backup" ELSE "remove")
    BY <1>9, <2>2
  <2>4. QED  BY <1>6, <2>1, <2>2, <2>3
<1>10. CASE Goes(c, "remove") /\ UNCHANGED len
  <2>1. "remove" \in TaskPc
    BY DEF TaskPc
  <2>2. PICK t \in Tasks : /\ task' = [task EXCEPT ![c] = t] /\ task'[c] = t /\ t.pc = "remove"
                           /\ t.n = task[c].n /\ t.size = task[c].size /\ t.obj = task[c].obj
                           /\ t.backed = task[c].backed
    BY <1>1, <1>10, <2>1, GoesFacts
  <2>3. UpOK(c)'
    BY <1>1, <1>2, <1>4, <2>2, ToRemove DEF UpOK
  <2>4. \A d \in Downloads : /\ agent[d].pc \in {"head", "recv"} => Shown' \subseteq hist'.seen
                             /\ task[d].obj # None => len'[task[d].obj] = len[task[d].obj]
    BY <1>1, <1>10, NamesKept DEF Typed
  <2>5. len' \in [Objects -> Length]
    BY <1>1, <1>10 DEF Typed
  <2>6. QED  BY <1>1, <1>2, <1>3, <1>10, <2>2, <2>3, <2>4, <2>5, UpStep
<1>11. QED  BY <1>8, <1>9, <1>10 DEF UVerify

LEMMA UBackupStep ==
  ASSUME IInv, NEW c \in Calls, UBackup(c) PROVE IInv'
<1>1. Typed /\ ConnOK(c) /\ UpOK(c) /\ c \in Uploads /\ c \notin Downloads /\ task[c].pc = "backup"
      /\ DirOK /\ UNCHANGED <<agent, local, sock, conn, op, reply, pipe, len, ui, hist>>
  BY Apart DEF IInv, UBackup, At
<1>2. Grows /\ hist' \in Hists /\ sock' \in [Calls -> Socks] /\ len' \in [Objects -> Length]
  BY <1>1 DEF Grows, Put, Typed
<1>3. odd' \in 0..MaxOdd
  BY <1>1, WorkOdd DEF UBackup
<1>4. /\ ~Put(c) /\ sock[c].eof /\ sock[c].in = 0 /\ dir.bak[c] = None /\ ~task[c].backed
      /\ len[c] = task[c].size
  BY <1>1 DEF UpOK
<1>5. op[c] \notin {"none", "posted"} /\ conn[c] \notin {"none", "read"}
  BY <1>1 DEF ConnOK
<1> DEFINE moved == [dir EXCEPT !.file = None, !.bak[c] = dir.file]
<1>6. ASSUME dir' = dir \/ (dir.file # None /\ dir' = moved)
      PROVE  /\ dir' \in Dirs /\ DirOK' /\ \A u \in Uploads : u # c => dir'.bak[u] = dir.bak[u]
             /\ \A d \in Downloads : /\ agent[d].pc \in {"head", "recv"} => Shown' \subseteq hist'.seen
                                     /\ task[d].obj # None => len'[task[d].obj] = len[task[d].obj]
  <2>1. CASE dir' = dir
    <3>1. dir' \in Dirs /\ DirOK'
      BY <1>1, <1>2, <2>1, DirFrame DEF Typed
    <3>2. QED  BY <1>1, <2>1, <3>1, NamesKept DEF Typed
  <2>2. CASE dir.file # None /\ dir' = moved
    <3>1. dir.file \in MaybeObject /\ None \in MaybeObject
      BY <1>1 DEF Typed, Dirs, MaybeObject
    <3>2. /\ dir' \in Dirs /\ dir'.file = None /\ dir'.bak[c] = dir.file
          /\ \A u \in Uploads : u # c => dir'.bak[u] = dir.bak[u]
      BY <1>1, <2>2, <3>1 DEF Typed, Dirs
    <3>3. {dir'.file} \cup {dir'.bak[u] : u \in Uploads} \subseteq
            {None} \cup {dir.file} \cup {dir.bak[u] : u \in Uploads}
      BY <3>2
    <3>4. {dir.file} \cup {dir.bak[u] : u \in Uploads} \subseteq
            {dir'.file} \cup {dir'.bak[u] : u \in Uploads}
      BY <1>1, <1>4, <3>2
    <3>5. \A o \in Uploads : o \in {dir'.file} \cup {dir'.bak[u] : u \in Uploads} => Put(o)'
      BY <1>1, <3>3, Apart DEF DirOK, Put
    <3>6. hist'.first = Old =>
            \/ Old \in {dir'.file} \cup {dir'.bak[u] : u \in Uploads}
            \/ \E u \in Uploads : Put(u)'
      BY <1>1, <3>4 DEF DirOK, Put
    <3>7. DirOK'
      BY <3>5, <3>6 DEF DirOK
    <3>8. Shown' = {}
      BY <3>2 DEF Shown
    <3>9. QED  BY <1>1, <3>2, <3>7, <3>8
  <2>3. QED  BY <1>6, <2>1, <2>2
<1>7. CASE dir.file = None /\ Goes(c, "swap") /\ UNCHANGED dir
  <2>1. "swap" \in TaskPc
    BY DEF TaskPc
  <2>2. PICK t \in Tasks : /\ task' = [task EXCEPT ![c] = t] /\ task'[c] = t /\ t.pc = "swap"
                           /\ t.n = task[c].n /\ t.size = task[c].size /\ t.obj = task[c].obj
                           /\ t.backed = task[c].backed
    BY <1>1, <1>7, <2>1, GoesFacts
  <2>3. UpOK(c)'
    BY <1>1, <1>4, <1>5, <1>7, <2>2 DEF UpOK, Says, Put
  <2>4. QED  BY <1>1, <1>2, <1>3, <1>6, <1>7, <2>2, <2>3, UpStep
<1>8. CASE /\ dir.file # None /\ dir' = moved
           /\ task' = [task EXCEPT ![c].pc = "swap", ![c].backed = TRUE]
  <2> DEFINE t == [task[c] EXCEPT !.pc = "swap", !.backed = TRUE]
  <2>1. TRUE \in BOOLEAN /\ "swap" \in TaskPc /\ task[c] \in Tasks
    BY <1>1 DEF TaskPc, Typed
  <2>2. task' = [task EXCEPT ![c] = t] /\ task'[c] = t
    BY <1>1, <1>8 DEF Typed
  <2>3. t \in Tasks /\ t.pc = "swap" /\ t.n = task[c].n /\ t.size = task[c].size
    BY <2>1 DEF Tasks
  <2> HIDE DEF t
  <2>4. dir'.bak[c] = dir.file
    BY <1>1, <1>8 DEF Typed, Dirs
  <2>5. UpOK(c)'
    BY <1>1, <1>4, <1>5, <1>8, <2>2, <2>3, <2>4 DEF UpOK, Says, Put
  <2>6. QED  BY <1>1, <1>2, <1>3, <1>6, <1>8, <2>2, <2>3, <2>5, UpStep
<1>9. CASE Goes(c, "remove") /\ dir' \in {dir, IF dir.file = None THEN dir ELSE moved}
  <2>1. "remove" \in TaskPc
    BY DEF TaskPc
  <2>2. PICK t \in Tasks : /\ task' = [task EXCEPT ![c] = t] /\ task'[c] = t /\ t.pc = "remove"
                           /\ t.n = task[c].n /\ t.size = task[c].size /\ t.obj = task[c].obj
                           /\ t.backed = task[c].backed
    BY <1>1, <1>9, <2>1, GoesFacts
  <2>3. UpOK(c)'
    BY <1>1, <1>2, <1>4, <2>2, ToRemove DEF UpOK
  <2>4. dir' = dir \/ (dir.file # None /\ dir' = moved)
    BY <1>9
  <2>5. QED  BY <1>1, <1>2, <1>3, <1>6, <2>2, <2>3, <2>4, UpStep
<1>10. QED  BY <1>7, <1>8, <1>9 DEF UBackup

\* What the swap leaves: the temporary file under the name, whole.
LEMMA SwappedFacts ==
  ASSUME IInv, NEW c \in Uploads, task[c].pc = "swap", Swapped(c), len' = len, agent' = agent
  PROVE  /\ dir' \in Dirs /\ dir'.bak = dir.bak /\ hist' \in Hists /\ Grows /\ DirOK'
         /\ hist'.put[c] = agent[c].size /\ Put(c)'
         /\ \A u \in Uploads : u # c => hist'.put[u] = hist.put[u]
         /\ \A d \in Downloads : /\ agent[d].pc \in {"head", "recv"} => Shown' \subseteq hist'.seen
                                 /\ task[d].obj # None => len'[task[d].obj] = len[task[d].obj]
<1>1. Typed /\ UpOK(c) /\ DirOK /\ c \in Objects /\ c # None
  BY Apart DEF IInv
<1>2. len[c] \in Length /\ len[c] = agent[c].size
  BY <1>1 DEF Typed, UpOK
<1> DEFINE n == len[c]
           z == Seen(c, n)
<1>3. dir' = [dir EXCEPT !.file = c, !.tmp[c] = None]
      /\ hist' = [hist EXCEPT !.put[c] = n, !.seen = z]
  BY DEF Swapped
<1>4. z \in SUBSET (Objects \X Length) /\ hist.seen \subseteq z /\ (Watched => <<c, n>> \in z)
  BY <1>1, <1>2 DEF Seen, Typed, Hists
<1> HIDE DEF z, n
<1>5. dir' \in Dirs /\ dir'.bak = dir.bak /\ dir'.file = c
  <2>1. c \in MaybeObject /\ None \in MaybeObject
    BY <1>1 DEF MaybeObject
  <2>2. QED  BY <1>1, <1>3, <2>1 DEF Typed, Dirs
<1>6. n \in {None} \cup Length /\ n # None
  BY <1>2, Apart DEF n
<1>7. /\ hist' \in Hists /\ hist'.seen = z /\ hist'.put[c] = n
      /\ \A u \in Uploads : u # c => hist'.put[u] = hist.put[u]
      /\ hist'.first = hist.first /\ hist'.refused = hist.refused /\ hist'.gaveUp = hist.gaveUp
  BY <1>1, <1>3, <1>4, <1>6 DEF Typed, Hists
<1>8. Grows /\ Put(c)'
  BY <1>4, <1>6, <1>7 DEF Grows, Put
<1>9. DirOK'
  <2>1. \A o \in Uploads : o \in {c} \cup {dir.bak[u] : u \in Uploads} => Put(o)'
    BY <1>1, <1>8 DEF DirOK, Grows
  <2>2. QED  BY <1>5, <1>8, <2>1 DEF DirOK
<1>10. Shown' = {<<c, n>>}
  BY <1>1, <1>5 DEF Shown, n
<1>11. \A d \in Downloads : agent[d].pc \in {"head", "recv"} => Shown' \subseteq hist'.seen
  BY <1>4, <1>7, <1>10, Watching
<1>12. hist'.put[c] = agent[c].size
  BY <1>2, <1>7 DEF n
<1>13. QED  BY <1>5, <1>7, <1>8, <1>9, <1>11, <1>12

LEMMA USwapStep ==
  ASSUME IInv, NEW c \in Calls, USwap(c) PROVE IInv'
<1>1. Typed /\ ConnOK(c) /\ UpOK(c) /\ c \in Uploads /\ c \notin Downloads /\ task[c].pc = "swap"
      /\ DirOK /\ UNCHANGED <<agent, local, sock, conn, op, reply, pipe, len>>
  BY Apart DEF IInv, USwap, At
<1>2. sock' \in [Calls -> Socks] /\ len' \in [Objects -> Length] /\ pipe' \in [Downloads -> Pipes]
  BY <1>1 DEF Typed
<1>3. odd' \in 0..MaxOdd
  BY <1>1, WorkOdd DEF USwap
<1>4. ~Put(c) /\ sock[c].eof /\ sock[c].in = 0 /\ (task[c].backed => dir.bak[c] # None)
  BY <1>1 DEF UpOK
<1>5. op[c] \notin {"none", "posted"} /\ conn[c] \notin {"none", "read"}
  BY <1>1 DEF ConnOK
<1>6. SwapFails(c) \in TaskPc /\ SwapFails(c) \in {"restore", "remove"}
      /\ (SwapFails(c) = "restore" => dir.bak[c] # None)
  BY <1>4 DEF SwapFails, TaskPc
<1>7. ASSUME Swapped(c), NEW p \in {"clean", "restore", "remove"}, Goes(c, p), ui' = ui,
             p = "restore" => dir.bak[c] # None
      PROVE  IInv'
  <2>1. p \in TaskPc
    BY DEF TaskPc
  <2>2. PICK t \in Tasks : /\ task' = [task EXCEPT ![c] = t] /\ task'[c] = t /\ t.pc = p
                           /\ t.n = task[c].n /\ t.size = task[c].size /\ t.obj = task[c].obj
                           /\ t.backed = task[c].backed
    BY <1>1, <1>7, <2>1, GoesFacts
  <2>3. /\ dir' \in Dirs /\ dir'.bak = dir.bak /\ hist' \in Hists /\ Grows /\ DirOK'
        /\ hist'.put[c] = agent[c].size /\ Put(c)'
        /\ \A u \in Uploads : u # c => hist'.put[u] = hist.put[u]
        /\ \A d \in Downloads : /\ agent[d].pc \in {"head", "recv"} => Shown' \subseteq hist'.seen
                                /\ task[d].obj # None => len'[task[d].obj] = len[task[d].obj]
    BY <1>1, <1>7, SwappedFacts
  <2>4. UpOK(c)'
    BY <1>1, <1>4, <1>5, <1>7, <2>2, <2>3 DEF UpOK, Says
  <2>5. QED  BY <1>1, <1>2, <1>3, <1>7, <2>2, <2>3, <2>4, UpStep
<1>8. CASE Swapped(c) /\ Tells(c, TRUE)
  <2> DEFINE e == [what |-> "done", call |-> c, ok |-> TRUE]
  <2>1. e \in Event /\ e.what = "done" /\ e.call = c
    BY DEF Event
  <2>2. /\ task' = [task EXCEPT ![c] = [@ EXCEPT !.pc = "done", !.n = 0, !.backed = FALSE]]
        /\ ui' = [ui EXCEPT !.evts = Append(@, e)]
    BY <1>8 DEF Tells
  <2> HIDE DEF e
  <2>3. /\ dir' \in Dirs /\ dir'.bak = dir.bak /\ hist' \in Hists /\ Grows /\ DirOK'
        /\ hist'.put[c] = agent[c].size /\ Put(c)'
        /\ \A u \in Uploads : u # c => hist'.put[u] = hist.put[u]
        /\ \A d \in Downloads : /\ agent[d].pc \in {"head", "recv"} => Shown' \subseteq hist'.seen
                                /\ task[d].obj # None => len'[task[d].obj] = len[task[d].obj]
    BY <1>1, <1>8, SwappedFacts
  <2>4. QED  BY <1>1, <1>2, <1>3, <1>4, <2>1, <2>2, <2>3, TellsStep
<1>9. CASE Goes(c, SwapFails(c)) /\ UNCHANGED <<dir, hist, ui>>
  <2>1. PICK t \in Tasks : /\ task' = [task EXCEPT ![c] = t] /\ task'[c] = t /\ t.pc = SwapFails(c)
                           /\ t.n = task[c].n /\ t.size = task[c].size /\ t.obj = task[c].obj
                           /\ t.backed = task[c].backed
    BY <1>1, <1>6, <1>9, GoesFacts
  <2>2. Grows /\ dir' \in Dirs /\ hist' \in Hists
    BY <1>1, <1>9 DEF Grows, Put, Typed
  <2>3. DirOK'
    BY <1>1, <1>9, <2>2, DirFrame
  <2>4. UpOK(c)'
    BY <1>1, <1>4, <1>5, <1>6, <1>9, <2>1 DEF UpOK, Says, Put
  <2>5. \A d \in Downloads : /\ agent[d].pc \in {"head", "recv"} => Shown' \subseteq hist'.seen
                             /\ task[d].obj # None => len'[task[d].obj] = len[task[d].obj]
    BY <1>1, <1>9, NamesKept DEF Typed
  <2>6. QED  BY <1>1, <1>2, <1>3, <1>6, <1>9, <2>1, <2>2, <2>3, <2>4, <2>5, UpStep
<1>10. CASE Swapped(c) /\ Goes(c, "clean") /\ UNCHANGED ui
  BY <1>7, <1>10
<1>11. CASE Swapped(c) /\ Goes(c, SwapFails(c)) /\ UNCHANGED ui
  <2>1. SwapFails(c) \in {"clean", "restore", "remove"}
    BY <1>6
  <2>2. QED  BY <1>6, <1>7, <1>11, <2>1
<1>12. QED  BY <1>8, <1>9, <1>10, <1>11 DEF USwap

LEMMA URestoreStep ==
  ASSUME IInv, NEW c \in Calls, URestore(c) PROVE IInv'
<1>1. Typed /\ ConnOK(c) /\ UpOK(c) /\ c \in Uploads /\ c \notin Downloads /\ task[c].pc = "restore"
      /\ DirOK /\ UNCHANGED <<agent, local, sock, conn, op, reply, pipe, len, ui>>
      /\ Goes(c, "remove")
  BY Apart DEF IInv, URestore, At
<1>2. sock' \in [Calls -> Socks] /\ len' \in [Objects -> Length]
  BY <1>1 DEF Typed
<1>3. odd' \in 0..MaxOdd
  BY <1>1, WorkOdd DEF URestore
<1>4. sock[c].eof /\ sock[c].in = 0 /\ dir.bak[c] # None /\ hist.put[c] \in {None, agent[c].size}
  BY <1>1 DEF UpOK
<1>5. "remove" \in TaskPc
  BY DEF TaskPc
<1>6. PICK t \in Tasks : /\ task' = [task EXCEPT ![c] = t] /\ task'[c] = t /\ t.pc = "remove"
                         /\ t.n = task[c].n /\ t.size = task[c].size /\ t.obj = task[c].obj
                         /\ t.backed = task[c].backed
  BY <1>1, <1>5, GoesFacts
<1>7. ASSUME dir' \in Dirs, hist' \in Hists, Grows, hist'.put = hist.put, DirOK',
             \A u \in Uploads : u # c => dir'.bak[u] = dir.bak[u],
             \A d \in Downloads : agent[d].pc \in {"head", "recv"} => Shown' \subseteq hist'.seen
      PROVE  IInv'
  <2>1. UpOK(c)'
    BY <1>1, <1>4, <1>6, <1>7, ToRemove
  <2>2. QED  BY <1>1, <1>2, <1>3, <1>6, <1>7, <2>1, UpStep
<1>8. CASE /\ dir' = [dir EXCEPT !.file = dir.bak[c], !.bak[c] = None]
           /\ hist' = [hist EXCEPT !.seen = Seen(dir.bak[c], len[dir.bak[c]])]
  <2> DEFINE b == dir.bak[c]
             z == Seen(b, len[b])
  <2>1. b \in MaybeObject /\ b # None /\ None \in MaybeObject
    BY <1>1, <1>4 DEF Typed, Dirs, MaybeObject
  <2>2. b \in Objects /\ len[b] \in Length
    BY <1>1, <2>1 DEF MaybeObject, Typed
  <2>3. z \in SUBSET (Objects \X Length) /\ hist.seen \subseteq z /\ (Watched => <<b, len[b]>> \in z)
    BY <1>1, <2>2 DEF Seen, Typed, Hists
  <2> HIDE DEF z
  <2>4. hist' = [hist EXCEPT !.seen = z]
    BY <1>8 DEF z
  <2>5. /\ hist' \in Hists /\ hist'.put = hist.put /\ hist'.seen = z /\ hist'.first = hist.first
        /\ hist'.refused = hist.refused /\ hist'.gaveUp = hist.gaveUp
    BY <1>1, <2>3, <2>4 DEF Typed, Hists
  <2>6. Grows
    BY <2>3, <2>5 DEF Grows, Put
  <2>7. /\ dir' \in Dirs /\ dir'.file = b /\ dir'.bak[c] = None
        /\ \A u \in Uploads : u # c => dir'.bak[u] = dir.bak[u]
    BY <1>1, <1>8, <2>1 DEF Typed, Dirs
  <2>8. DirOK'
    <3>1. \A o \in Uploads : o \in {dir'.file} \cup {dir'.bak[u] : u \in Uploads} =>
                             o \in {dir.bak[u] : u \in Uploads}
      BY <1>1, <2>7, Apart
    <3>2. \A o \in Uploads : o \in {dir'.file} \cup {dir'.bak[u] : u \in Uploads} => Put(o)'
      BY <1>1, <2>6, <3>1 DEF DirOK, Grows
    <3>3. b = Old \/ (b \in Uploads /\ Put(b))
      BY <1>1, <2>2 DEF DirOK, Objects
    <3>4. hist'.first = Old =>
            \/ Old \in {dir'.file} \cup {dir'.bak[u] : u \in Uploads}
            \/ \E u \in Uploads : Put(u)'
      BY <2>6, <2>7, <3>3 DEF Grows
    <3>5. QED  BY <3>2, <3>4 DEF DirOK
  <2>9. Shown' = {<<b, len[b]>>}
    BY <1>1, <2>1, <2>7 DEF Shown
  <2>10. \A d \in Downloads : agent[d].pc \in {"head", "recv"} => Shown' \subseteq hist'.seen
    BY <2>3, <2>5, <2>9, Watching
  <2>11. QED  BY <1>7, <2>5, <2>6, <2>7, <2>8, <2>10
<1>9. CASE UNCHANGED <<dir, hist>>
  <2>1. Grows /\ dir' \in Dirs /\ hist' \in Hists
    BY <1>1, <1>9 DEF Grows, Put, Typed
  <2>2. DirOK'
    BY <1>1, <1>9, <2>1, DirFrame
  <2>3. \A d \in Downloads : agent[d].pc \in {"head", "recv"} => Shown' \subseteq hist'.seen
    BY <1>1, <1>9, NamesKept DEF Typed
  <2>4. QED  BY <1>7, <1>9, <2>1, <2>2, <2>3
<1>10. QED  BY <1>8, <1>9 DEF URestore

LEMMA UCleanStep ==
  ASSUME IInv, NEW c \in Calls, UClean(c) PROVE IInv'
<1>1. Typed /\ ConnOK(c) /\ UpOK(c) /\ c \in Uploads /\ c \notin Downloads /\ task[c].pc = "clean"
      /\ DirOK /\ UNCHANGED <<agent, local, sock, conn, op, reply, pipe, len, hist>> /\ Tells(c, TRUE)
  BY Apart DEF IInv, UClean, At
<1>2. len' \in [Objects -> Length] /\ pipe' \in [Downloads -> Pipes] /\ hist' \in Hists /\ Grows
  BY <1>1 DEF Typed, Grows, Put
<1>3. odd' \in 0..MaxOdd
  BY <1>1, WorkOdd DEF UClean
<1>4. Put(c) /\ Put(c)' /\ sock[c].eof /\ sock[c].in = 0 /\ hist.put[c] \in {None, agent[c].size}
  BY <1>1 DEF UpOK, Put
<1>5. /\ dir' \in Dirs /\ dir'.file = dir.file /\ \A u \in Uploads : u # c => dir'.bak[u] = dir.bak[u]
      /\ dir'.bak[c] \in {None, dir.bak[c]}
  <2>1. CASE dir' = dir
    BY <1>1, <2>1 DEF Typed
  <2>2. CASE dir' = [dir EXCEPT !.bak[c] = None]
    <3>1. None \in MaybeObject
      BY DEF MaybeObject
    <3>2. QED  BY <1>1, <2>2, <3>1 DEF Typed, Dirs
  <2>3. QED  BY <2>1, <2>2 DEF UClean
<1>6. DirOK'
  <2>1. \A o \in Uploads : o \in {dir'.file} \cup {dir'.bak[u] : u \in Uploads} =>
                           o \in {dir.file} \cup {dir.bak[u] : u \in Uploads}
    BY <1>1, <1>5, Apart
  <2>2. \A o \in Uploads : o \in {dir'.file} \cup {dir'.bak[u] : u \in Uploads} => Put(o)'
    BY <1>1, <2>1 DEF DirOK, Put
  <2>3. QED  BY <1>1, <1>4, <2>2 DEF DirOK
<1>7. \A d \in Downloads : /\ agent[d].pc \in {"head", "recv"} => Shown' \subseteq hist'.seen
                           /\ task[d].obj # None => len'[task[d].obj] = len[task[d].obj]
  BY <1>1, <1>5, NamesKept DEF Typed
<1> DEFINE e == [what |-> "done", call |-> c, ok |-> TRUE]
<1>8. e \in Event /\ e.what = "done" /\ e.call = c
  BY DEF Event
<1>9. /\ task' = [task EXCEPT ![c] = [@ EXCEPT !.pc = "done", !.n = 0, !.backed = FALSE]]
      /\ ui' = [ui EXCEPT !.evts = Append(@, e)]
  BY <1>1 DEF Tells
<1> HIDE DEF e
<1>10. QED  BY <1>1, <1>2, <1>3, <1>4, <1>5, <1>6, <1>7, <1>8, <1>9, TellsStep

LEMMA URemoveStep ==
  ASSUME IInv, NEW c \in Calls, URemove(c) PROVE IInv'
<1>1. Typed /\ ConnOK(c) /\ UpOK(c) /\ c \in Uploads /\ c \notin Downloads /\ task[c].pc = "remove"
      /\ DirOK /\ UNCHANGED <<agent, local, sock, conn, op, reply, pipe, hist>> /\ Tells(c, FALSE)
  BY Apart DEF IInv, URemove, At
<1>2. pipe' \in [Downloads -> Pipes] /\ hist' \in Hists /\ Grows
  BY <1>1 DEF Typed, Grows, Put
<1>3. odd' \in 0..MaxOdd
  BY <1>1, WorkOdd DEF URemove
<1>4. (Put(c)' => sock[c].eof /\ sock[c].in = 0) /\ hist.put[c] \in {None, agent[c].size}
  BY <1>1 DEF UpOK, Put
<1>5. dir' \in Dirs /\ dir'.file = dir.file /\ dir'.bak = dir.bak
  <2>1. CASE dir' = dir
    BY <1>1, <2>1 DEF Typed
  <2>2. CASE dir' = [dir EXCEPT !.tmp[c] = None]
    <3>1. None \in MaybeObject
      BY DEF MaybeObject
    <3>2. QED  BY <1>1, <2>2, <3>1 DEF Typed, Dirs
  <2>3. QED  BY <2>1, <2>2 DEF URemove
<1>6. DirOK'
  BY <1>1, <1>5 DEF DirOK, Put
<1>7. len' = len \/ (/\ len' = [len EXCEPT ![c] = 0] /\ dir'.file # c
                     /\ \A d \in Downloads : task[d].obj # c)
  BY DEF URemove
<1>8. len' \in [Objects -> Length] /\ \A o \in Objects : o # c => len'[o] = len[o]
  BY <1>1, <1>7, Apart DEF Typed
<1>9. ASSUME NEW d \in Downloads
      PROVE  /\ agent[d].pc \in {"head", "recv"} => Shown' \subseteq hist'.seen
             /\ task[d].obj # None => len'[task[d].obj] = len[task[d].obj]
  <2>1. dir.file \in MaybeObject /\ task[d].obj \in MaybeObject /\ SeesOK(d)
    BY Apart DEF IInv, Typed, Dirs, Tasks
  <2>2. task[d].obj # None => len'[task[d].obj] = len[task[d].obj]
    BY <1>7, <1>8, <2>1 DEF MaybeObject
  <2>3. dir.file # None => len'[dir.file] = len[dir.file]
    BY <1>5, <1>7, <1>8, <2>1 DEF MaybeObject
  <2>4. Shown' = Shown
    BY <1>5, <2>3 DEF Shown
  <2>5. QED  BY <1>1, <2>1, <2>2, <2>4 DEF SeesOK
<1> DEFINE e == [what |-> "done", call |-> c, ok |-> FALSE]
<1>10. e \in Event /\ e.what = "done" /\ e.call = c /\ ~e.ok
  BY DEF Event
<1>11. /\ task' = [task EXCEPT ![c] = [@ EXCEPT !.pc = "done", !.n = 0, !.backed = FALSE]]
       /\ ui' = [ui EXCEPT !.evts = Append(@, e)]
  BY <1>1 DEF Tells
<1> HIDE DEF e
<1>12. \A u \in Uploads : u # c => len'[u] = len[u]
  BY <1>8, Apart
<1>13. QED  BY <1>1, <1>2, <1>3, <1>4, <1>5, <1>6, <1>8, <1>9, <1>10, <1>11, <1>12, TellsStep

LEMMA DProbeStep ==
  ASSUME IInv, NEW c \in Calls, DProbe(c) PROVE IInv'
<1>1. Typed /\ ConnOK(c) /\ DownOK(c) /\ SeesOK(c) /\ c \in Downloads /\ c \notin Uploads
      /\ task[c].pc = "cmd" /\ task[c].n = 0 /\ UiOK
      /\ UNCHANGED <<agent, local, sock, conn, op, reply, dir, len, ui, hist>>
  BY Apart DEF IInv, DProbe, At, theServer, ConnOK
<1>2. odd' \in 0..MaxOdd
  BY <1>1, WorkOdd DEF DProbe
<1>3. /\ pipe[c].sink # "source" /\ agent[c].pc # "recv" /\ ~Says(c, "header")
      /\ conn[c] \notin {"stream", "verdict"} /\ pipe[c].outcome = "none" /\ Moving(c) <= 0
  BY <1>1 DEF DownOK
<1>4. ASSUME NEW k \in {"source", "err"}, pipe' = [pipe EXCEPT ![c].sink = k]
      PROVE  /\ pipe' \in [Downloads -> Pipes] /\ pipe'[c].sink = k /\ pipe'[c].n = pipe[c].n
             /\ pipe'[c].outcome = pipe[c].outcome /\ \A d \in Downloads : d # c => pipe'[d] = pipe[d]
             /\ Moving(c)' = Moving(c)
  <2>1. /\ pipe' \in [Downloads -> Pipes] /\ pipe'[c].sink = k /\ pipe'[c].n = pipe[c].n
        /\ pipe'[c].outcome = pipe[c].outcome /\ \A d \in Downloads : d # c => pipe'[d] = pipe[d]
    BY <1>1, <1>4 DEF Typed, Pipes
  <2>2. QED  BY <1>1, <2>1 DEF Moving, Says
<1>5. CASE /\ dir.file # None
           /\ task' = [task EXCEPT ![c].pc = "open", ![c].size = len[dir.file]]
           /\ pipe' = [pipe EXCEPT ![c].sink = "source"]
  <2> DEFINE z == len[dir.file]
             t == [task[c] EXCEPT !.pc = "open", !.size = z]
  <2>1. dir.file \in Objects
    BY <1>1, <1>5 DEF Typed, Dirs, MaybeObject
  <2>2. z \in Length /\ "open" \in TaskPc /\ task[c] \in Tasks
    BY <1>1, <2>1 DEF Typed, TaskPc
  <2>3. task' = [task EXCEPT ![c] = t] /\ task'[c] = t
    BY <1>1, <1>5 DEF Typed
  <2> HIDE DEF z
  <2>4. t \in Tasks /\ t.pc = "open" /\ t.n = 0 /\ t.size = z /\ t.obj = task[c].obj
    BY <1>1, <2>2 DEF Tasks
  <2> HIDE DEF t
  <2>5. /\ pipe' \in [Downloads -> Pipes] /\ pipe'[c].sink = "source" /\ pipe'[c].n = pipe[c].n
        /\ pipe'[c].outcome = pipe[c].outcome /\ \A d \in Downloads : d # c => pipe'[d] = pipe[d]
        /\ Moving(c)' = Moving(c)
    BY <1>4, <1>5
  <2>6. Moving(c) <= z /\ 0 <= z
    <3>1. Moving(c) \in Nat /\ z \in Nat
      BY <1>1, <2>2, Numbers, Apart DEF Moving, Length
    <3>2. QED  BY <1>3, <3>1
  <2>7. DownOK(c)'
    BY <1>1, <1>3, <2>3, <2>4, <2>5, <2>6 DEF DownOK, Says
  <2>8. SeesOK(c)'
    BY <1>1, <2>3, <2>4 DEF SeesOK, Put, Shown
  <2>9. QED  BY <1>1, <1>2, <2>3, <2>4, <2>5, <2>7, <2>8, DownStep
<1>6. CASE Goes(c, "done") /\ pipe' = [pipe EXCEPT ![c].sink = "err"]
  <2>1. "done" \in TaskPc
    BY DEF TaskPc
  <2>2. PICK t \in Tasks : /\ task' = [task EXCEPT ![c] = t] /\ task'[c] = t /\ t.pc = "done"
                           /\ t.n = task[c].n /\ t.size = task[c].size /\ t.obj = task[c].obj
                           /\ t.backed = task[c].backed
    BY <1>1, <1>6, <2>1, GoesFacts
  <2>3. /\ pipe' \in [Downloads -> Pipes] /\ pipe'[c].sink = "err" /\ pipe'[c].n = pipe[c].n
        /\ pipe'[c].outcome = pipe[c].outcome /\ \A d \in Downloads : d # c => pipe'[d] = pipe[d]
        /\ Moving(c)' = Moving(c)
    BY <1>4, <1>6
  <2>4. task' \in [Calls -> Tasks] /\ \A d \in Calls : d # c => task'[d] = task[d]
    BY <1>1, <2>2 DEF Typed
  <2>5. DownOK(c)'
    BY <1>1, <1>3, <2>2, <2>3 DEF DownOK, Says
  <2>6. Grows
    BY <1>1 DEF Grows, Put
  <2>7. ASSUME NEW d \in Downloads PROVE SeesOK(d)'
    <3>1. SeesOK(d) /\ task'[d].obj = task[d].obj /\ (task'[d].pc = "read" => task'[d] = task[d])
      BY <1>1, <2>2, <2>4, Apart DEF IInv
    <3>2. agent[d].pc \in {"head", "recv"} => Shown' \subseteq hist'.seen
      BY <1>1, <3>1 DEF SeesOK, Shown
    <3>3. QED  BY <1>1, <2>6, <3>1, <3>2, SeesTask
  <2>8. DirOK'
    BY <1>1, <2>6, DirFrame DEF IInv
  <2>9. UiOK'
    <3>1. \A i \in DOMAIN ui.evts : EventTrue(ui.evts[i])'
      BY <1>1 DEF UiOK, EventTrue, Put
    <3>2. ASSUME NEW d \in Calls, op'[d] = "pending" PROVE Explained(d)'
      <4>1. CASE d = c
        BY <1>1, <2>3, <4>1 DEF Explained
      <4>2. CASE d # c
        <5>1. Explained(d) /\ task'[d] = task[d] /\ (d \in Downloads => pipe'[d] = pipe[d])
          BY <1>1, <2>3, <2>4, <3>2, <4>2, SlotsAre DEF UiOK
        <5>2. QED  BY <1>1, <5>1 DEF Explained
      <4>3. QED  BY <4>1, <4>2
    <3>3. ui' \in Uis
      BY <1>1 DEF Typed
    <3>4. SlotsExplained'
      BY <3>2, <3>3, SlotsThen
    <3>5. QED  BY <1>1, <3>1, <3>4 DEF UiOK
  <2>10. /\ sock' \in [Calls -> Socks] /\ dir' \in Dirs /\ len' \in [Objects -> Length]
         /\ ui' \in Uis /\ hist' \in Hists
    BY <1>1 DEF Typed
  <2>11. task'[c].pc \notin {"none", "cmd", "open"}
    BY <2>2
  <2>12. \A u \in Uploads : u # c => /\ len'[u] = len[u] /\ dir'.bak[u] = dir.bak[u]
                                     /\ hist'.put[u] = hist.put[u]
    BY <1>1
  <2>13. QED  BY <1>1, <1>2, <2>3, <2>4, <2>5, <2>6, <2>7, <2>8, <2>9, <2>10, <2>11, <2>12, TaskStep
<1>7. QED  BY <1>5, <1>6 DEF DProbe

\* A download that fails after the probe, or whose row the user stops.
LEMMA DownEnds ==
  ASSUME IInv, NEW c \in Downloads, Tells(c, FALSE), NEW k \in {"err", "lost"},
         pipe' = [pipe EXCEPT ![c].eof = TRUE, ![c].outcome = k],
         task[c].pc \notin {"none", "done"}, odd' \in 0..MaxOdd,
         UNCHANGED <<agent, local, sock, conn, op, reply, dir, len, hist>>
  PROVE  IInv'
<1>1. Typed /\ DownOK(c) /\ c \in Calls /\ c \notin Uploads
  BY Apart DEF IInv
<1>2. pipe[c].outcome = "none" /\ ~Says(c, "ok")
  BY <1>1 DEF DownOK
<1>3. /\ pipe' \in [Downloads -> Pipes] /\ pipe'[c].sink = pipe[c].sink /\ pipe'[c].n = pipe[c].n
      /\ pipe'[c].outcome = k /\ \A d \in Downloads : d # c => pipe'[d] = pipe[d]
  <2>1. TRUE \in BOOLEAN /\ k \in {"none", "ok", "err", "lost"}
    OBVIOUS
  <2> DEFINE r == [pipe[c] EXCEPT !.eof = TRUE, !.outcome = k]
  <2>2. pipe[c] \in Pipes /\ pipe \in [Downloads -> Pipes]
    BY <1>1 DEF Typed
  <2>3. r \in Pipes /\ r.sink = pipe[c].sink /\ r.n = pipe[c].n /\ r.outcome = k
    BY <2>1, <2>2 DEF Pipes
  <2>4. pipe' = [pipe EXCEPT ![c] = r]
    BY <2>2
  <2> HIDE DEF r
  <2>5. QED  BY <2>2, <2>3, <2>4
<1>4. /\ dir' \in Dirs /\ len' \in [Objects -> Length] /\ hist' \in Hists /\ Grows
  BY <1>1 DEF Typed, Grows, Put
<1>5. DirOK'
  BY <1>4, DirFrame DEF IInv
<1>6. ASSUME NEW d \in Downloads PROVE agent[d].pc \in {"head", "recv"} => Shown' \subseteq hist'.seen
  BY DEF IInv, SeesOK, Shown
<1> DEFINE e == [what |-> "done", call |-> c, ok |-> FALSE]
<1>7. e \in Event /\ e.what = "done" /\ e.call = c /\ ~e.ok
  BY <1>1 DEF Event
<1>8. /\ task' = [task EXCEPT ![c] = [@ EXCEPT !.pc = "done", !.n = 0, !.backed = FALSE]]
      /\ ui' = [ui EXCEPT !.evts = Append(@, e)]
  BY DEF Tells
<1> HIDE DEF e
<1>9. QED  BY <1>1, <1>2, <1>3, <1>4, <1>5, <1>6, <1>7, <1>8, TellsStep

LEMMA DFailStep ==
  ASSUME IInv, NEW c \in Downloads, DFail(c), task[c].pc \notin {"none", "done"},
         odd' \in 0..MaxOdd,
         UNCHANGED <<agent, local, sock, conn, op, reply, dir, len, hist>>
  PROVE  IInv'
<1>1. pipe' = [pipe EXCEPT ![c].eof = TRUE, ![c].outcome = "err"] /\ Tells(c, FALSE)
  <2>1. pipe' = [pipe EXCEPT ![c].outcome = "err", ![c].eof = TRUE] /\ Tells(c, FALSE)
    BY DEF DFail
  <2>2. pipe \in [Downloads -> Pipes]
    BY DEF IInv, Typed
  <2>3. QED  BY <2>1, <2>2 DEF Pipes
<1>2. QED  BY <1>1, DownEnds

LEMMA DOpenStep ==
  ASSUME IInv, NEW c \in Calls, DOpen(c) PROVE IInv'
<1>1. Typed /\ ConnOK(c) /\ DownOK(c) /\ SeesOK(c) /\ c \in Downloads /\ c \notin Uploads
      /\ task[c].pc = "open" /\ task[c].n = 0 /\ DirOK
      /\ UNCHANGED <<agent, local, sock, conn, op, reply, dir, len, hist>>
  BY Apart DEF IInv, DOpen, At, theServer, ConnOK
<1>2. odd' \in 0..MaxOdd
  BY <1>1, WorkOdd DEF DOpen
<1>3. CASE /\ dir.file # None /\ task' = [task EXCEPT ![c].pc = "read", ![c].obj = dir.file]
           /\ UNCHANGED <<pipe, ui>>
  <2> DEFINE o == dir.file
             t == [task[c] EXCEPT !.pc = "read", !.obj = o]
  <2>1. o \in MaybeObject /\ o # None /\ o \in Objects /\ "read" \in TaskPc /\ task[c] \in Tasks
    BY <1>1, <1>3 DEF Typed, Dirs, MaybeObject, TaskPc
  <2>2. task' = [task EXCEPT ![c] = t] /\ task'[c] = t
    BY <1>1, <1>3 DEF Typed
  <2>3. t \in Tasks /\ t.pc = "read" /\ t.n = 0 /\ t.size = task[c].size /\ t.obj = o
    BY <1>1, <2>1 DEF Tasks
  <2> HIDE DEF t
  <2>4. DownOK(c)'
    <3>1. Moving(c)' = Moving(c)
      BY <1>1, <1>3 DEF Moving, Says
    <3>2. pipe[c].outcome = "none"
      BY <1>1 DEF DownOK
    <3>3. QED  BY <1>1, <1>3, <2>2, <2>3, <3>1, <3>2 DEF DownOK, Says
  <2>5. SeesOK(c)'
    <3>1. Shown' = Shown /\ Shown = {<<o, len[o]>>}
      BY <1>1, <2>1 DEF Shown
    <3>2. o \in Uploads => Put(o)
      BY <1>1 DEF DirOK
    <3>3. ASSUME agent[c].pc \in {"head", "recv"}, t.n = t.size
          PROVE  <<o, t.size>> \in hist.seen \/ len[o] > t.size
      <4>1. len[o] \in Nat /\ t.size = 0 /\ <<o, len[o]>> \in hist.seen
        BY <1>1, <2>1, <2>3, <3>1, <3>3, Apart DEF SeesOK, Typed, Length
      <4>2. CASE len[o] = 0
        BY <4>1, <4>2
      <4>3. CASE len[o] # 0
        BY <4>1, <4>3
      <4>4. QED  BY <4>2, <4>3
    <3>4. QED  BY <1>1, <2>1, <2>2, <2>3, <3>1, <3>2, <3>3 DEF SeesOK, Put
  <2>6. pipe' \in [Downloads -> Pipes]
    BY <1>1, <1>3 DEF Typed
  <2>7. QED  BY <1>1, <1>2, <1>3, <2>2, <2>3, <2>4, <2>5, <2>6, DownStep
<1>4. CASE DFail(c)
  BY <1>1, <1>2, <1>4, DFailStep
<1>5. QED  BY <1>3, <1>4 DEF DOpen

LEMMA DReadStep ==
  ASSUME IInv, NEW c \in Calls, DRead(c) PROVE IInv'
<1>1. Typed /\ ConnOK(c) /\ DownOK(c) /\ SeesOK(c) /\ c \in Downloads /\ c \notin Uploads
      /\ task[c].pc = "read" /\ task[c].n < task[c].size /\ DirOK
      /\ UNCHANGED <<agent, local, sock, conn, op, reply, dir, len, hist>>
  BY Apart DEF IInv, DRead, At, theServer
<1>2. odd' \in 0..MaxOdd
  BY <1>1, WorkOdd DEF DRead
<1>3. CASE /\ ~Truncated(c) /\ pipe[c].n = 0
           /\ task' = [task EXCEPT ![c].n = @ + 1]
           /\ pipe' = [pipe EXCEPT ![c].n = 1]
           /\ UNCHANGED ui
  <2> DEFINE n == task[c].n + 1
             t == [task[c] EXCEPT !.n = n]
  <2>1. task[c].n \in Nat /\ task[c].size \in Nat /\ task[c].size <= MaxLen /\ agent[c].n \in Nat
    BY <1>1, Numbers
  <2>2. n \in 0..MaxLen /\ n <= task[c].size
    BY <1>1, <2>1, Apart
  <2>3. task' = [task EXCEPT ![c] = t] /\ task'[c] = t
    BY <1>1, <1>3 DEF Typed
  <2>4. task[c].obj \in Objects /\ task[c].obj # None
    BY <1>1 DEF SeesOK, Typed, Tasks, MaybeObject
  <2>5. len[task[c].obj] \in Nat /\ len[task[c].obj] >= n
    <3>1. len[task[c].obj] \in Nat
      BY <1>1, <2>4, Apart DEF Typed, Length
    <3>2. QED  BY <1>3, <2>1, <3>1 DEF Truncated
  <2>6. Moving(c)' = Moving(c) + 1 /\ Moving(c) \in Nat /\ Moving(c) <= task[c].n
    <3>1. pipe'[c].n = 1 /\ agent' = agent
      BY <1>1, <1>3 DEF Typed, Pipes
    <3>2. (IF Says(c, "block") THEN 1 ELSE 0) \in Nat /\ Says(c, "block")' = Says(c, "block")
      BY <1>1 DEF Says
    <3> DEFINE b == IF Says(c, "block") THEN 1 ELSE 0
    <3>3. Moving(c) = agent[c].n + 0 + b /\ Moving(c)' = agent[c].n + 1 + b
      BY <1>3, <3>1, <3>2 DEF Moving
    <3> HIDE DEF b
    <3>4. b \in Nat
      BY <3>2 DEF b
    <3>5. QED  BY <1>1, <2>1, <3>3, <3>4 DEF DownOK
  <2>7. Moving(c)' <= n
    BY <2>1, <2>6
  <2> HIDE DEF n
  <2>8. t \in Tasks /\ t.pc = "read" /\ t.n = n /\ t.size = task[c].size /\ t.obj = task[c].obj
    BY <1>1, <2>2 DEF Typed, Tasks, Length
  <2> HIDE DEF t
  <2>9. /\ pipe' \in [Downloads -> Pipes] /\ pipe'[c].sink = pipe[c].sink
        /\ pipe'[c].outcome = pipe[c].outcome /\ \A d \in Downloads : d # c => pipe'[d] = pipe[d]
    BY <1>1, <1>3 DEF Typed, Pipes
  <2>10. pipe[c].sink = "source"
    BY <1>1 DEF DownOK
  <2>11. DownOK(c)'
    <3>1. pipe[c].outcome = "none"
      BY <1>1 DEF DownOK
    <3>2. Moving(c)' <= task[c].size
      BY <2>1, <2>2, <2>6, <2>7
    <3>3. QED  BY <1>1, <2>2, <2>3, <2>7, <2>8, <2>9, <2>10, <3>1, <3>2 DEF DownOK, Says
  <2>12. SeesOK(c)'
    <3>1. Shown' = Shown
      BY <1>1 DEF Shown
    <3>2. ASSUME agent[c].pc \in {"head", "recv"}, n = task[c].size
          PROVE  <<task[c].obj, task[c].size>> \in hist.seen \/ len[task[c].obj] > task[c].size
      <4>1. <<task[c].obj, len[task[c].obj]>> \in hist.seen
        BY <1>1, <3>2 DEF SeesOK
      <4>2. len[task[c].obj] = task[c].size \/ len[task[c].obj] > task[c].size
        BY <2>1, <2>5, <3>2
      <4>3. QED  BY <4>1, <4>2
    <3>3. QED  BY <1>1, <2>3, <2>8, <3>1, <3>2 DEF SeesOK, Put
  <2>13. QED  BY <1>1, <1>2, <1>3, <2>3, <2>8, <2>9, <2>11, <2>12, DownStep
<1>4. CASE DFail(c)
  BY <1>1, <1>2, <1>4, DFailStep
<1>5. QED  BY <1>3, <1>4 DEF DRead

LEMMA DExtraStep ==
  ASSUME IInv, NEW c \in Calls, DExtra(c) PROVE IInv'
<1>1. Typed /\ ConnOK(c) /\ DownOK(c) /\ SeesOK(c) /\ c \in Downloads /\ c \notin Uploads
      /\ task[c].pc = "read" /\ task[c].n = task[c].size /\ DirOK
      /\ UNCHANGED <<agent, local, sock, conn, op, reply, dir, len, hist>>
  BY Apart DEF IInv, DExtra, At, theServer
<1>2. odd' \in 0..MaxOdd
  BY <1>1, WorkOdd DEF DExtra
<1>3. CASE ~Grown(c) /\ pipe' = [pipe EXCEPT ![c].eof = TRUE] /\ Goes(c, "tell") /\ UNCHANGED ui
  <2>1. "tell" \in TaskPc
    BY DEF TaskPc
  <2>2. PICK t \in Tasks : /\ task' = [task EXCEPT ![c] = t] /\ task'[c] = t /\ t.pc = "tell"
                           /\ t.n = task[c].n /\ t.size = task[c].size /\ t.obj = task[c].obj
                           /\ t.backed = task[c].backed
    BY <1>1, <1>3, <2>1, GoesFacts
  <2>3. /\ pipe' \in [Downloads -> Pipes] /\ pipe'[c].sink = pipe[c].sink /\ pipe'[c].n = pipe[c].n
        /\ pipe'[c].outcome = pipe[c].outcome /\ \A d \in Downloads : d # c => pipe'[d] = pipe[d]
    <3> DEFINE r == [pipe[c] EXCEPT !.eof = TRUE]
    <3>1. TRUE \in BOOLEAN /\ pipe[c] \in Pipes /\ pipe \in [Downloads -> Pipes]
      BY <1>1 DEF Typed
    <3>2. r \in Pipes /\ r.sink = pipe[c].sink /\ r.n = pipe[c].n /\ r.outcome = pipe[c].outcome
      BY <3>1 DEF Pipes
    <3>3. pipe' = [pipe EXCEPT ![c] = r]
      BY <1>3, <3>1
    <3> HIDE DEF r
    <3>4. QED  BY <3>1, <3>2, <3>3
  <2>4. task[c].obj # None /\ Whole(c)
    BY <1>1, <1>3 DEF SeesOK, Whole, Grown
  <2>5. DownOK(c)'
    <3>1. Moving(c)' = Moving(c) /\ Whole(c)'
      BY <1>1, <2>2, <2>3, <2>4 DEF Moving, Says, Whole
    <3>2. QED  BY <1>1, <2>2, <2>3, <2>4, <3>1 DEF DownOK, Says
  <2>6. SeesOK(c)'
    BY <1>1, <2>2 DEF SeesOK, Put, Shown
  <2>7. QED  BY <1>1, <1>2, <1>3, <2>2, <2>3, <2>5, <2>6, DownStep
<1>4. CASE DFail(c)
  BY <1>1, <1>2, <1>4, DFailStep
<1>5. QED  BY <1>3, <1>4 DEF DExtra

LEMMA DTellStep ==
  ASSUME IInv, NEW c \in Calls, DTell(c) PROVE IInv'
<1>1. Typed /\ DownOK(c) /\ c \in Downloads /\ c \notin Uploads /\ task[c].pc = "tell"
      /\ UNCHANGED <<agent, local, sock, conn, op, reply, dir, len, hist, odd>>
      /\ Tells(c, TRUE) /\ pipe' = [pipe EXCEPT ![c].outcome = "ok"]
  BY Apart DEF IInv, DTell, At, theServer
<1>2. pipe[c].outcome = "none" /\ ~Says(c, "ok")
  BY <1>1 DEF DownOK
<1>3. /\ pipe' \in [Downloads -> Pipes] /\ pipe'[c].sink = pipe[c].sink /\ pipe'[c].n = pipe[c].n
      /\ pipe'[c].outcome = "ok" /\ \A d \in Downloads : d # c => pipe'[d] = pipe[d]
  BY <1>1 DEF Typed, Pipes
<1>4. /\ dir' \in Dirs /\ len' \in [Objects -> Length] /\ hist' \in Hists /\ Grows /\ odd' \in 0..MaxOdd
  BY <1>1 DEF Typed, Grows, Put
<1>5. DirOK'
  BY <1>1, <1>4, DirFrame DEF IInv
<1>6. ASSUME NEW d \in Downloads PROVE agent[d].pc \in {"head", "recv"} => Shown' \subseteq hist'.seen
  BY <1>1 DEF IInv, SeesOK, Shown
<1> DEFINE e == [what |-> "done", call |-> c, ok |-> TRUE]
<1>7. e \in Event /\ e.what = "done" /\ e.call = c
  BY DEF Event
<1>8. /\ task' = [task EXCEPT ![c] = [@ EXCEPT !.pc = "done", !.n = 0, !.backed = FALSE]]
      /\ ui' = [ui EXCEPT !.evts = Append(@, e)]
  BY <1>1 DEF Tells
<1> HIDE DEF e
<1>9. QED  BY <1>1, <1>2, <1>3, <1>4, <1>5, <1>6, <1>7, <1>8, TellsStep

LEMMA CancelStep ==
  ASSUME IInv, NEW c \in Calls, Cancel(c) PROVE IInv'
<1>1. Typed /\ task[c].pc \notin {"none", "cmd", "done"} /\ Tells(c, FALSE)
      /\ UNCHANGED <<agent, local, sock, conn, op, reply, dir, len, hist>>
  BY DEF IInv, Cancel, CanceledEnd, theServer
<1>2. odd' \in 0..MaxOdd
  BY <1>1, WorkOdd DEF Cancel
<1>3. CASE c \in Downloads
  <2>1. pipe' = [pipe EXCEPT ![c].eof = TRUE, ![c].outcome = "lost"]
    BY <1>3, Apart DEF Cancel
  <2>2. QED  BY <1>1, <1>2, <1>3, <2>1, DownEnds
<1>4. CASE c \in Uploads
  <2>1. pipe' = pipe /\ UpOK(c) /\ c \notin Downloads
    BY <1>4, Apart DEF Cancel, IInv
  <2>2. (Put(c)' => sock[c].eof /\ sock[c].in = 0) /\ hist.put[c] \in {None, agent[c].size}
    BY <1>1, <2>1 DEF UpOK, Put
  <2>3. /\ dir' \in Dirs /\ len' \in [Objects -> Length] /\ hist' \in Hists /\ Grows
        /\ pipe' \in [Downloads -> Pipes]
    BY <1>1, <2>1 DEF Typed, Grows, Put
  <2>4. DirOK'
    BY <1>1, <2>3, DirFrame DEF IInv
  <2>5. ASSUME NEW d \in Downloads PROVE agent[d].pc \in {"head", "recv"} => Shown' \subseteq hist'.seen
    BY <1>1 DEF IInv, SeesOK, Shown
  <2> DEFINE e == [what |-> "done", call |-> c, ok |-> FALSE]
  <2>6. e \in Event /\ e.what = "done" /\ e.call = c /\ ~e.ok
    BY DEF Event
  <2>7. /\ task' = [task EXCEPT ![c] = [@ EXCEPT !.pc = "done", !.n = 0, !.backed = FALSE]]
        /\ ui' = [ui EXCEPT !.evts = Append(@, e)]
    BY <1>1 DEF Tells
  <2> HIDE DEF e
  <2>8. QED  BY <1>1, <1>2, <2>1, <2>2, <2>3, <2>4, <2>5, <2>6, <2>7, TellsStep
<1>5. QED  BY <1>3, <1>4, Apart

\* Another program changes the file under the name: what it was and what it is
\* are recorded for the downloads under way.
LEMMA EditRemoteStep ==
  ASSUME IInv, EditRemote PROVE IInv'
<1>1. Typed /\ DirOK /\ UiOK /\ dir.file # None
      /\ UNCHANGED <<agent, local, sock, conn, op, reply, task, pipe, ui, dir>>
  BY DEF IInv, EditRemote, theShell
<1>2. odd' \in 0..MaxOdd
  BY <1>1, Odds DEF EditRemote
<1> DEFINE o == dir.file
<1>3. o \in Objects
  BY <1>1 DEF Typed, Dirs, MaybeObject
<1>4. PICK n \in {len[o] - 1, len[o] + 1} \cap 0..MaxLen :
         /\ len' = [len EXCEPT ![o] = n]
         /\ hist' = [hist EXCEPT !.seen = Seen(o, n)]
  BY DEF EditRemote
<1>5. n \in Length /\ len[o] \in Nat /\ n \in Nat
  BY <1>1, <1>3, <1>4, Apart DEF Length, Typed
<1>6. len' \in [Objects -> Length] /\ len'[o] = n /\ \A x \in Objects : x # o => len'[x] = len[x]
  BY <1>1, <1>3, <1>4, <1>5 DEF Typed
<1> DEFINE z == Seen(o, n)
<1>7. z \in SUBSET (Objects \X Length) /\ hist.seen \subseteq z /\ (Watched => <<o, n>> \in z)
  BY <1>1, <1>3, <1>5 DEF Seen, Typed, Hists
<1>8. hist' = [hist EXCEPT !.seen = z]
  BY <1>4
<1> HIDE DEF z
<1>9. /\ hist' \in Hists /\ hist'.put = hist.put /\ hist'.seen = z /\ hist'.first = hist.first
      /\ hist'.refused = hist.refused /\ hist'.gaveUp = hist.gaveUp
  BY <1>1, <1>7, <1>8 DEF Typed, Hists
<1>10. Grows
  BY <1>7, <1>9 DEF Grows, Put
<1>11. \A c \in Calls : Kept(c)
  BY <1>1 DEF Kept
<1>12. ASSUME NEW c \in Calls PROVE ConnOK(c)' /\ HeardOK(c)'
  BY <1>10, <1>11, ConnFrame DEF IInv
<1>13. ASSUME NEW c \in Uploads PROVE UpOK(c)'
  <2>1. UpOK(c) /\ Kept(c) /\ c \in Objects /\ c \in Calls
    BY <1>11, Apart DEF IInv
  <2>2. CASE c # o
    BY <1>1, <1>6, <1>9, <2>1, <2>2, UpFrame
  <2>3. CASE c = o
    <3>1. Put(c)
      BY <1>1, <2>3 DEF DirOK
    <3>2. task[c].pc \notin {"none", "cmd", "read", "backup", "swap"}
      BY <2>1, <3>1 DEF UpOK
    <3>3. QED  BY <1>1, <1>9, <2>1, <3>2 DEF UpOK, Says, Put
  <2>4. QED  BY <2>2, <2>3
<1>14. ASSUME NEW c \in Downloads PROVE DownOK(c)'
  BY <1>1, <1>10, <1>11, DownFrame, Apart DEF IInv
<1>15. Shown' = {<<o, n>>}
  BY <1>1, <1>6 DEF Shown
<1>16. ASSUME NEW c \in Downloads PROVE SeesOK(c)'
  <2>1. SeesOK(c) /\ task[c] \in Tasks /\ c \in Calls
    BY <1>1, Apart DEF IInv, Typed
  <2>2. agent[c].pc \in {"head", "recv"} => Shown' \subseteq hist'.seen
    BY <1>7, <1>9, <1>15, Watching
  <2>3. task[c].obj \in Uploads => Put(task[c].obj)'
    BY <1>1, <1>10, <2>1 DEF SeesOK, Grows
  <2>4. ASSUME task[c].pc = "read", agent[c].pc \in {"head", "recv"}
        PROVE  /\ <<task[c].obj, len'[task[c].obj]>> \in hist'.seen
               /\ task[c].n = task[c].size =>
                    \/ <<task[c].obj, task[c].size>> \in hist'.seen
                    \/ len'[task[c].obj] > task[c].size
    <3>1. task[c].obj \in Objects
      BY <2>1, <2>4 DEF SeesOK, Tasks, MaybeObject
    <3>2. CASE task[c].obj # o
      <4>1. len'[task[c].obj] = len[task[c].obj]
        BY <1>6, <3>1, <3>2
      <4>2. QED  BY <1>10, <2>1, <2>4, <4>1 DEF SeesOK, Grows
    <3>3. CASE task[c].obj = o
      <4>1. <<o, n>> \in hist'.seen
        BY <1>7, <1>9, <2>4, Watching
      <4>2. ASSUME task[c].n = task[c].size
            PROVE  <<o, task[c].size>> \in hist'.seen \/ n > task[c].size
        <5>1. <<o, task[c].size>> \in hist.seen \/ len[o] > task[c].size
          BY <2>1, <2>4, <3>3, <4>2 DEF SeesOK
        <5>2. CASE len[o] > task[c].size
          <6>1. task[c].size \in Nat
            BY <1>1, Numbers
          <6>2. n = task[c].size \/ n > task[c].size
            BY <1>4, <1>5, <5>2, <6>1
          <6>3. QED  BY <4>1, <6>2
        <5>3. QED  BY <1>10, <5>1, <5>2 DEF Grows
      <4>3. QED  BY <1>6, <3>3, <4>1, <4>2
    <3>4. QED  BY <3>2, <3>3
  <2>5. QED  BY <1>1, <2>1, <2>2, <2>3, <2>4 DEF SeesOK
<1>17. DirOK'
  BY <1>1, <1>10, DirFrame
<1>18. UiOK'
  BY <1>1, <1>10, UiFrame
<1>19. Typed'
  BY <1>1, <1>2, <1>6, <1>9 DEF Typed
<1>20. QED  BY <1>12, <1>13, <1>14, <1>16, <1>17, <1>18, <1>19 DEF IInv

-----------------------------------------------------------------------------
(* The invariant, and what follows from it *)

LEMMA Initially ==
  ASSUME Init PROVE IInv
<1>1. /\ agent = [c \in Calls |-> [pc |-> "idle", size |-> 0, n |-> 0]]
      /\ sock = [c \in Calls |-> [in |-> 0, eof |-> FALSE, out |-> <<>>, closed |-> FALSE]]
      /\ conn = [c \in Calls |-> "none"] /\ op = [c \in Calls |-> "none"]
      /\ reply = [c \in Calls |-> "none"]
      /\ task = [c \in Calls |-> [pc |-> "none", n |-> 0, size |-> 0, obj |-> None, backed |-> FALSE]]
      /\ pipe = [c \in Downloads |-> [sink |-> "none", n |-> 0, eof |-> FALSE, outcome |-> "none"]]
      /\ ui = [connected |-> TRUE, link |-> TRUE, evts |-> <<>>]
      /\ hist = [first |-> dir.file, put |-> [c \in Uploads |-> None], seen |-> {},
                 gaveUp |-> {}, refused |-> {}]
      /\ odd = 0
  BY DEF Init
<1>2. PICK replaces \in BOOLEAN, there \in {Old, None} :
         dir = [file |-> there, replaces |-> replaces,
                tmp |-> [c \in Uploads |-> None], bak |-> [c \in Uploads |-> None]]
  BY DEF Init
<1>3. /\ local \in [Calls -> [obj : {None}, len : {0} \cup Sizes]]
      /\ len \in [Objects -> {0} \cup Sizes] /\ \A o \in Objects : len[o] = 0 <=> o # dir.file
  BY DEF Init
<1>4. {0} \cup Sizes \subseteq Length /\ 0 \in Length /\ None \in MaybeObject /\ Old \in MaybeObject
      /\ {} \in SUBSET (Objects \X Length) /\ {} \in SUBSET Calls /\ TRUE \in BOOLEAN
      /\ FALSE \in BOOLEAN
  BY CallerAssumption, Apart DEF Length, MaybeObject
<1>5. Typed
  <2>1. agent \in [Calls -> Agents] /\ sock \in [Calls -> Socks]
    BY <1>1, <1>4 DEF Agents, AgentPc, Socks, Outs
  <2>2. conn \in [Calls -> ConnPc] /\ op \in [Calls -> {"none", "posted", "pending", "over"}]
        /\ reply \in [Calls -> {"none", "ok", "err"}]
    BY <1>1 DEF ConnPc
  <2>3. task \in [Calls -> Tasks] /\ pipe \in [Downloads -> Pipes]
    BY <1>1, <1>4 DEF Tasks, TaskPc, Pipes
  <2>4. dir \in Dirs
    BY <1>2, <1>4 DEF Dirs
  <2>5. local \in [Calls -> Files] /\ len \in [Objects -> Length]
    <3>1. \A c \in Calls : local[c] \in Files
      BY <1>3, <1>4 DEF Files
    <3>2. QED  BY <1>3, <1>4, <3>1
  <2>6. ui \in Uis
    <3>1. <<>> \in Seq(Event)
      OBVIOUS
    <3>2. QED  BY <1>1, <1>4, <3>1 DEF Uis
  <2>7. hist \in Hists
    BY <1>1, <1>2, <1>4 DEF Hists
  <2>8. odd \in 0..MaxOdd
    BY <1>1, CallerAssumption
  <2>9. QED  BY <2>1, <2>2, <2>3, <2>4, <2>5, <2>6, <2>7, <2>8 DEF Typed
<1>6. ASSUME NEW c \in Calls PROVE ConnOK(c) /\ HeardOK(c)
  BY <1>1 DEF ConnOK, HeardOK
<1>7. ASSUME NEW c \in Uploads PROVE UpOK(c)
  <2>1. c \in Calls /\ c \in Objects /\ c # Old /\ c # None
    BY Apart
  <2>2. len[c] = 0
    BY <1>2, <1>3, <2>1
  <2>3. /\ agent[c].pc = "idle" /\ agent[c].n = 0 /\ sock[c].in = 0 /\ sock[c].eof = FALSE
        /\ sock[c].out = <<>> /\ reply[c] = "none" /\ task[c].pc = "none" /\ task[c].n = 0
        /\ task[c].backed = FALSE /\ hist.put[c] = None /\ dir.bak[c] = None
    BY <1>1, <1>2, <2>1
  <2>4. QED  BY <2>2, <2>3 DEF UpOK, Says, Put
<1>8. ASSUME NEW c \in Downloads PROVE DownOK(c) /\ SeesOK(c)
  <2>1. c \in Calls
    BY Apart
  <2>2. /\ agent[c].pc = "idle" /\ agent[c].n = 0 /\ sock[c].in = 0 /\ sock[c].eof = FALSE
        /\ sock[c].out = <<>> /\ conn[c] = "none" /\ task[c].pc = "none" /\ task[c].n = 0
        /\ task[c].obj = None /\ pipe[c].n = 0 /\ pipe[c].sink = "none" /\ pipe[c].outcome = "none"
        /\ local[c].obj = None
    BY <1>1, <1>3, <2>1
  <2>3. Moving(c) = 0
    BY <2>2 DEF Moving, Says
  <2>4. None \notin Uploads
    BY Apart
  <2>5. QED  BY <2>2, <2>3, <2>4 DEF DownOK, SeesOK, Says
<1>9. DirOK
  <2>1. \A u \in Uploads : dir.bak[u] = None /\ u # dir.file
    BY <1>2, Apart
  <2>2. hist.first = dir.file
    BY <1>1
  <2>3. QED  BY <2>1, <2>2, Apart DEF DirOK
<1>10. UiOK
  <2>1. DOMAIN ui.evts = {} /\ ui.link
    BY <1>1
  <2>2. \A c \in Calls : op[c] # "pending"
    BY <1>1
  <2>3. QED  BY <2>1, <2>2 DEF UiOK, SlotsExplained, Pending
<1>11. QED  BY <1>5, <1>6, <1>7, <1>8, <1>9, <1>10 DEF IInv

LEMMA Stutters ==
  ASSUME IInv, UNCHANGED vars PROVE IInv'
<1>1. UNCHANGED <<agent, local, sock, conn, op, reply, task, pipe, dir, len, ui, hist, odd>>
  BY DEF vars
<1>2. Typed' /\ Grows
  BY <1>1 DEF IInv, Typed, Grows, Put
<1>3. UiOK' /\ DirOK'
  BY <1>1, <1>2, UiFrame, DirFrame DEF IInv
<1>4. \A c \in Calls : op'[c] = op[c] /\ reply'[c] = reply[c]
  BY <1>1
<1>5. /\ op' \in [Calls -> {"none", "posted", "pending", "over"}]
      /\ reply' \in [Calls -> {"none", "ok", "err"}] /\ ui' \in Uis /\ odd' \in 0..MaxOdd
  BY <1>2 DEF Typed
<1>6. QED  BY <1>1, <1>3, <1>4, <1>5, ResolveStep

\* The invariant holds in every behaviour.
THEOREM Invariance == Spec => []IInv
<1>1. IInv /\ [Next]_vars => IInv'
  <2> SUFFICES ASSUME IInv, [Next]_vars PROVE IInv'
    OBVIOUS
  <2>1. ASSUME NEW c \in Calls, Agent(c) PROVE IInv'
    BY <2>1, AskStep, SendBodyStep, HearUploadStep, HearDownloadStep, HearEndStep DEF Agent
  <2>2. ASSUME NEW c \in Calls, Conn(c) PROVE IInv'
    BY <2>2, AcceptStep, ReadRequestStep, HearReplyStep, DrainStep, DrainGivesUpStep,
       HearSinkStep, RelayStep, VerdictStep DEF Conn
  <2>3. ASSUME NEW c \in Calls, Task(c) PROVE IInv'
    BY <2>3, UOpenStep, UReadStep, UVerifyStep, UBackupStep, USwapStep, URestoreStep,
       UCleanStep, URemoveStep, DProbeStep, DOpenStep, DReadStep, DExtraStep, DTellStep DEF Task
  <2>4. ASSUME NEW c \in Calls, UI(c) PROVE IInv'
    BY <2>4, HandleStep, FileOpTimeoutStep DEF UI
  <2>5. ASSUME NEW c \in Calls, Kill(c) \/ Cancel(c) PROVE IInv'
    BY <2>5, KillStep, CancelStep
  <2>6. ASSUME NEW c \in Uploads, EditLocal(c) PROVE IInv'
    BY <2>6, EditLocalStep
  <2>7. CASE DrainEvt \/ Lose \/ EditRemote
    BY <2>7, DrainEvtStep, LoseStep, EditRemoteStep
  <2>8. CASE UNCHANGED vars
    BY <2>8, Stutters
  <2>9. QED  BY <2>1, <2>2, <2>3, <2>4, <2>5, <2>6, <2>7, <2>8 DEF Next
<1>2. QED  BY <1>1, Initially, PTL DEF Spec

\* Every variable keeps its type: nothing is read twice, sent beyond the size
\* announced or said twice on a connection.
THEOREM TypeCorrect == Spec => []TypeOK
<1>1. ASSUME Typed PROVE TypeOK
  <2>1. ASSUME NEW c \in Calls
        PROVE  /\ agent[c].pc \in {"idle", "send", "wait", "head", "recv"} \cup Ended
               /\ agent[c].size \in 0..MaxLen /\ agent[c].n \in 0..MaxLen
               /\ local[c].obj \in Objects \cup {None} /\ local[c].len \in 0..MaxLen
               /\ sock[c].in \in 0..1 /\ Len(sock[c].out) <= 1
               /\ conn[c] \in {"none", "read", "refused", "ask", "drain", "stream", "verdict", "closed"}
               /\ op[c] \in {"none", "posted", "pending", "over"}
               /\ reply[c] \in {"none", "ok", "err"}
               /\ task[c].n \in 0..MaxLen /\ task[c].size \in 0..MaxLen
    <3>1. agent[c] \in Agents /\ local[c] \in Files /\ sock[c] \in Socks /\ task[c] \in Tasks
          /\ conn[c] \in ConnPc /\ op[c] \in {"none", "posted", "pending", "over"}
          /\ reply[c] \in {"none", "ok", "err"}
      BY <1>1 DEF Typed
    <3>2. Len(sock[c].out) <= 1
      <4>1. sock[c].out \in Outs
        BY <3>1 DEF Socks
      <4>2. CASE sock[c].out = <<>>
        BY <4>2
      <4>3. CASE \E m \in Message : sock[c].out = <<m>>
        BY <4>3
      <4>4. QED  BY <4>1, <4>2, <4>3 DEF Outs
    <3>3. sock[c].in \in 0..1
      BY <3>1 DEF Socks
    <3>4. QED  BY <3>1, <3>2, <3>3 DEF Agents, AgentPc, Files, Tasks, ConnPc, Length, MaybeObject
  <2>2. len \in [Objects -> 0..MaxLen]
    BY <1>1 DEF Typed, Length
  <2>3. QED  BY <2>1, <2>2 DEF TypeOK
<1>2. IInv => TypeOK
  BY <1>1 DEF IInv
<1>3. QED  BY <1>2, Invariance, PTL

\* What an upload puts under the remote name is as long as its agent announced,
\* an agent that hears "ok" has its file there, and the file there before is
\* kept until one was put in its place (upload_from_mcp).
THEOREM ReplacedWholeOrKept == Spec => []WholeOrKept
<1>1. IInv => WholeOrKept
  BY DEF IInv, UpOK, DirOK, Put, WholeOrKept
<1>2. QED  BY <1>1, Invariance, PTL

\* What copy_from_remote leaves at local_path is a version the remote name
\* showed during the call (download_to_mcp, write_framed_stream).
THEOREM LocalIsAVersion == Spec => []LocalWhole
<1>1. IInv => LocalWhole
  BY DEF IInv, DownOK, LocalWhole
<1>2. QED  BY <1>1, Invariance, PTL

\* While the worker may read the body of an upload nobody else takes a block of
\* it: the drain waits for the worker to let the source go (McpStreamSource).
THEOREM BodyHasOneReader == Spec => []OneReader
<1>1. IInv => OneReader
  BY DEF IInv, UpOK, OneReader
<1>2. QED  BY <1>1, Invariance, PTL

\* An agent goes without an answer only if it was turned away at the door or
\* the draining of its body was given up (handle_conn).
THEOREM AnswersAreHeard == Spec => []AnswerHeard
<1>1. IInv => AnswerHeard
  BY DEF IInv, HeardOK, LetDown, AnswerHeard
<1>2. QED  BY <1>1, Invariance, PTL

\* A slot among the pending file operations is held for a reason: a transfer
\* that goes on, an end that is queued, or a probe that failed.
THEOREM SlotsHaveReasons == Spec => []SlotsExplained
<1>1. IInv => SlotsExplained
  BY DEF IInv, UiOK
<1>2. QED  BY <1>1, Invariance, PTL

-----------------------------------------------------------------------------
(* The commands of an AI: McpRuns, for every number of runs, calls and       *)
(* connections.                                                             *)
(*                                                                         *)
(* A code goes from the shell through what is printed (out), the capture    *)
(* (term) and the run to its caller, and the invariant follows it: CleanOK  *)
(* says of a run whose caller let the shell settle that no end its capture  *)
(* would take, in front of the shell, typed, printed or taken, is that of   *)
(* another line. With a mark (MarkOK) the shell has nothing but the command *)
(* and its mark to read; with OSC 133 (OscOK) an older end may still come,  *)
(* but before the C of this command, without which it does not count.       *)
(* GateOK ties fate to the pending run, NumbersOK says that numbers of later *)
(* runs are nowhere yet, CaptureOK and HookOK what the terminal's flags     *)
(* mean, KnownOK that a code once found stays in hand.                      *)

RunIds == 0..MaxRuns
LineKinds == {"none", "run", "mark", "line", "blank", "hook", "intr"}
RunLine == [kind : LineKinds, k : RunIds]
RunEvent == [e : {"C", "D", "M", "exit", "lost", "up"}, k : RunIds, code : Codes]
Capture == [mode : {"none", "osc", "mark"}, started : BOOLEAN]
Terms == [cap : Capture, done : {NoCode} \cup Codes, active : BOOLEAN, sawC : BOOLEAN]
Shells == [alive : BOOLEAN, fg : RunLine, hooked : BOOLEAN, last : Codes, hasC : BOOLEAN]
Lines == [connected : BOOLEAN, open : BOOLEAN, typed : BOOLEAN]
Spent == [runs : RunIds, calls : Nat, drops : Nat]

RunsTyped ==
    /\ phase \in {"calls", "events"}
    /\ run = NoRun \/ run \in RunType
    /\ term \in Terms
    /\ line \in Lines
    /\ todo \in Seq(RunLine)
    /\ shell \in Shells
    /\ out \in Seq(RunEvent)
    /\ fate \in [Runs -> Fates]
    /\ told \in [Runs -> {NoCode} \cup Codes]
    /\ known \subseteq Runs
    /\ used \in Spent

TypedLine(kind, k) == [kind |-> kind, k |-> k]
Command(k) == TypedLine("run", k)
Mark(k) == TypedLine("mark", k)

\* The gate: the run that is pending is the last one accepted, every other one
\* that was accepted has ended, and a code is known of accepted runs only.
GateOK ==
    /\ run # NoRun => run.id = used.runs
    /\ \A k \in Runs : (fate[k] = "open") <=> (run.id = k \/ k > used.runs)
    /\ \A k \in known : k <= used.runs

\* No number of a later run is on its way.
NumbersOK ==
    /\ shell.fg.k <= used.runs
    /\ \A i \in 1..Len(todo) : todo[i].k <= used.runs
    /\ \A i \in 1..Len(out) : out[i].k <= used.runs

\* The shell's own code comes with its end.
ExitsOK == \A i \in 1..Len(out) : out[i].e = "exit" => out[i].code = Exit

\* A capture belongs to a run without a code.
CaptureOK ==
    /\ run = NoRun => term.cap = NoCapture /\ term.done = NoCode
    /\ term.done # NoCode => term.cap = NoCapture
    /\ term.cap.mode = "none" => term.cap = NoCapture
    /\ run # NoRun /\ run.result # NoCode => term.cap = NoCapture /\ term.done = NoCode

\* The terminal has seen of OSC 133 what the shell can say.
HookOK ==
    /\ term.active => shell.hooked
    /\ term.sawC => term.active /\ shell.hasC
    /\ \A i \in 1..Len(out) :
         /\ out[i].e \in {"C", "D"} => shell.hooked
         /\ out[i].e = "C" => shell.hasC

\* Behind the command its mark, and nothing else; nothing in front but them.
AtMark(k) ==
    \/ shell.fg = NoLine /\ todo = <<Command(k), Mark(k)>>
    \/ shell.fg = Command(k) /\ todo = <<Mark(k)>>
    \/ shell.fg = Command(k) /\ todo = <<>>
    \/ shell.fg = NoLine /\ todo = <<Mark(k)>> /\ shell.last = k
    \/ shell.fg = Mark(k) /\ todo = <<>> /\ shell.last = k
    \/ shell.fg = NoLine /\ todo = <<>>

\* A sentinel of this run carries the status of its command.
MarkOK(k) ==
    /\ AtMark(k)
    /\ \A i \in 1..Len(out) : out[i].e = "M" /\ out[i].k = k => out[i].code = k

\* The start of a command has been announced since the run was accepted.
Begun == term.cap.started \/ \E i \in 1..Len(out) : out[i].e = "C"
BegunBy(j) ==
    ~term.sawC \/ term.cap.started \/ \E i \in 1..(j - 1) : out[i].e = "C"

\* An end that the capture would take is the end of command k.
EndsOf(k) ==
    \A j \in 1..Len(out) : out[j].e = "D" /\ BegunBy(j) => out[j].code = k

\* Once the command has begun nothing is left to read; while an end would count,
\* nothing but the command is in front.
OscOK(k) ==
    /\ term.active
    /\ todo = <<>> \/ todo = <<Command(k)>>
    /\ Begun => todo = <<>>
    /\ Begun \/ ~term.sawC => shell.fg = NoLine \/ shell.fg = Command(k)
    /\ EndsOf(k)

\* A run of a caller that typed into a settled shell and nothing since.
CleanOK ==
    run # NoRun /\ run.clean =>
      /\ run.result \in {NoCode, run.id, Exit}
      /\ term.done \in {NoCode, run.id}
      /\ term.cap.mode = "mark" => MarkOK(run.id)
      /\ term.cap.mode = "osc" => OscOK(run.id)

\* A code once found is in hand until the run ends.
KnownOK == run # NoRun /\ run.id \in known => InHand # NoCode

RunsInv ==
    /\ RunsTyped /\ GateOK /\ NumbersOK /\ ExitsOK /\ CaptureOK /\ HookOK
    /\ CleanOK /\ KnownOK
    /\ FinishedExact /\ LossNamed
-----------------------------------------------------------------------------
(* Types                                                                    *)

\* The numbers in play.
LEMMA RunNumbers ==
  /\ MaxRuns \in Nat /\ MaxRuns >= 1 /\ Exit = MaxRuns + 1
  /\ Runs \subseteq RunIds /\ RunIds \subseteq Codes
  /\ 0 \in RunIds /\ 0 \in Codes /\ Exit \in Codes /\ 0 \notin Runs
  /\ NoCode \notin Codes /\ Exit \notin RunIds
BY RunsAssumption DEF Runs, RunIds, Codes, Exit, NoCode

\* A run that is pending has its fields; it is never mistaken for none.
LEMMA RunTypes ==
  ASSUME RunsTyped
  PROVE  /\ run # NoRun =>
              /\ run \in RunType /\ run.id \in Runs
              /\ run.waiter \in {"none", "live", "closed"} /\ run.clean \in BOOLEAN
              /\ run.result \in {NoCode} \cup Codes
         /\ run = NoRun <=> run.id = 0
         /\ run.id \in RunIds
<1>1. run \in RunType =>
        /\ run.id \in Runs /\ run.result \in {NoCode} \cup Codes
        /\ run.waiter \in {"none", "live", "closed"} /\ run.clean \in BOOLEAN
  BY DEF RunType
<1>2. run \in RunType \/ run = NoRun
  BY DEF RunsTyped
<1>3. NoRun.id = 0
  BY DEF NoRun
<1>4. QED  BY <1>1, <1>2, <1>3, RunNumbers

LEMMA TermTypes ==
  ASSUME NEW t \in Terms
  PROVE  /\ t.cap \in Capture /\ t.done \in {NoCode} \cup Codes
         /\ t.active \in BOOLEAN /\ t.sawC \in BOOLEAN
         /\ t.cap.mode \in {"none", "osc", "mark"} /\ t.cap.started \in BOOLEAN
BY DEF Terms, Capture

LEMMA ShellTypes ==
  ASSUME NEW s \in Shells
  PROVE  /\ s.alive \in BOOLEAN /\ s.fg \in RunLine /\ s.hooked \in BOOLEAN
         /\ s.last \in Codes /\ s.hasC \in BOOLEAN
         /\ s.fg.kind \in LineKinds /\ s.fg.k \in RunIds
BY DEF Shells, RunLine

\* The lines the model types.
LEMMA LineTypes ==
  /\ NoLine \in RunLine /\ NoLine.k = 0 /\ NoLine.kind = "none"
  /\ \A k \in RunIds : /\ Command(k) \in RunLine /\ Command(k).kind = "run" /\ Command(k).k = k
                       /\ Mark(k) \in RunLine /\ Mark(k).kind = "mark" /\ Mark(k).k = k
  /\ \A kind \in LineKinds : /\ TypedLine(kind, 0) \in RunLine
                             /\ TypedLine(kind, 0).k = 0 /\ TypedLine(kind, 0).kind = kind
BY RunNumbers DEF NoLine, RunLine, LineKinds, Command, Mark, TypedLine

\* What a line is does not change with the state.
LEMMA Rigid ==
  ASSUME NEW k
  PROVE  Command(k)' = Command(k) /\ Mark(k)' = Mark(k) /\ NoLine' = NoLine
BY DEF Command, Mark, TypedLine, NoLine

-----------------------------------------------------------------------------
(* What is printed behind what was printed                                  *)

\* b is a with some of S behind it.
GrowsBy(a, b, S) ==
    /\ b \in Seq(RunEvent)
    /\ Len(a) <= Len(b)
    /\ \A i \in 1..Len(a) : b[i] = a[i]
    /\ \A i \in (Len(a) + 1)..Len(b) : b[i] \in S

LEMMA GrowsNot ==
  ASSUME NEW a \in Seq(RunEvent), NEW S
  PROVE  GrowsBy(a, a, S)
BY DEF GrowsBy

LEMMA GrowsOne ==
  ASSUME NEW a \in Seq(RunEvent), NEW e \in RunEvent, NEW S, e \in S
  PROVE  GrowsBy(a, Append(a, e), S)
<1> DEFINE b == Append(a, e)
<1>1. /\ b \in Seq(RunEvent) /\ Len(b) = Len(a) + 1 /\ Len(a) \in Nat
      /\ \A i \in 1..Len(a) : b[i] = a[i]
      /\ b[Len(a) + 1] = e
  BY AppendProperties
<1> HIDE DEF b
<1>2. \A i \in (Len(a) + 1)..Len(b) : i = Len(a) + 1
  BY <1>1
<1>3. GrowsBy(a, b, S)
  BY <1>1, <1>2 DEF GrowsBy
<1>4. QED  BY <1>3 DEF b

LEMMA GrowsAgain ==
  ASSUME NEW a \in Seq(RunEvent), NEW b, NEW c, NEW S, NEW T,
         GrowsBy(a, b, S), GrowsBy(b, c, T)
  PROVE  GrowsBy(a, c, S \cup T)
<1>1. /\ Len(a) \in Nat /\ Len(b) \in Nat /\ Len(c) \in Nat
      /\ b \in Seq(RunEvent) /\ c \in Seq(RunEvent) /\ Len(a) <= Len(b) /\ Len(b) <= Len(c)
  BY DEF GrowsBy
<1>2. \A i \in 1..Len(a) : i \in 1..Len(b) /\ c[i] = a[i]
  BY <1>1 DEF GrowsBy
<1>3. ASSUME NEW i \in (Len(a) + 1)..Len(c)
      PROVE  c[i] \in S \cup T
  <2>1. CASE i <= Len(b)
    BY <1>1, <2>1 DEF GrowsBy
  <2>2. CASE i > Len(b)
    BY <1>1, <2>2 DEF GrowsBy
  <2>3. QED  BY <1>1, <2>1, <2>2
<1>4. QED  BY <1>1, <1>2, <1>3 DEF GrowsBy

\* What each piece is to what is not yet drained.
LEMMA GrowsConcat ==
  ASSUME NEW a \in Seq(RunEvent), NEW e \in RunEvent
  PROVE  a \o <<e>> = Append(a, e) /\ a \o <<>> = a
BY AppendIsConcat, ConcatEmptySeq

\* A property of the events holds of all if it holds of the new ones.
LEMMA GrowsAll ==
  ASSUME NEW a \in Seq(RunEvent), NEW b, NEW S, GrowsBy(a, b, S)
  PROVE  \A i \in 1..Len(b) : \/ i \in 1..Len(a) /\ b[i] = a[i]
                              \/ i > Len(a) /\ b[i] \in S
<1>1. Len(a) \in Nat /\ Len(b) \in Nat
  BY DEF GrowsBy
<1>2. QED  BY <1>1 DEF GrowsBy

\* The shell prints nothing, or what S names, which is of runs accepted and of
\* a shell that is hooked; the terminal and the run are what they were.
LEMMA PrintKeeps ==
  ASSUME RunsInv, NEW S, GrowsBy(out, out', S),
         UNCHANGED <<term, used>>,
         \A x \in S : /\ x.k <= used.runs
                      /\ x.e = "exit" => x.code = Exit
                      /\ x.e \in {"C", "D"} => shell'.hooked
                      /\ x.e = "C" => shell'.hasC,
         shell.hooked => shell'.hooked, shell'.hasC = shell.hasC
  PROVE  /\ out' \in Seq(RunEvent) /\ ExitsOK' /\ HookOK'
         /\ \A i \in 1..Len(out') : out'[i].k <= used'.runs
<1>1. out \in Seq(RunEvent) /\ out' \in Seq(RunEvent)
  BY DEF RunsInv, RunsTyped, GrowsBy
<1>2. \A i \in 1..Len(out') : \/ i \in 1..Len(out) /\ out'[i] = out[i]
                              \/ out'[i] \in S
  BY <1>1, GrowsAll
<1>3. ExitsOK'
  BY <1>2 DEF RunsInv, ExitsOK
<1>4. HookOK'
  BY <1>2 DEF RunsInv, HookOK
<1>5. \A i \in 1..Len(out') : out'[i].k <= used'.runs
  BY <1>2 DEF RunsInv, NumbersOK
<1>6. QED  BY <1>1, <1>3, <1>4, <1>5

\* Steps of the shell leave the gate, the terminal and the callers alone.
LEMMA ShellKeeps ==
  ASSUME RunsInv, UNCHANGED <<phase, run, term, fate, told, known>>, used'.runs = used.runs
  PROVE  /\ GateOK' /\ CaptureOK' /\ KnownOK' /\ FinishedExact' /\ LossNamed'
<1>1. GateOK'
  BY DEF RunsInv, GateOK
<1>2. CaptureOK'
  BY DEF RunsInv, CaptureOK
<1>3. KnownOK'
  BY DEF RunsInv, KnownOK, InHand
<1>4. FinishedExact' /\ LossNamed'
  BY DEF RunsInv, FinishedExact, LossNamed
<1>5. QED  BY <1>1, <1>2, <1>3, <1>4

-----------------------------------------------------------------------------
(* Steps of the shell                                                       *)

\* What is behind an announced start was behind it before.
LEMMA PrintEnds ==
  ASSUME RunsInv, NEW S, GrowsBy(out, out', S), term' = term, NEW k, EndsOf(k),
         \/ \A x \in S : x.e # "D"
         \/ \A x \in S : /\ x.e # "C"
                         /\ x.e = "D" /\ (Begun \/ ~term.sawC) => x.code = k
  PROVE  EndsOf(k)'
<1>1. Len(out) \in Nat /\ Len(out') \in Nat /\ out \in Seq(RunEvent)
  BY DEF GrowsBy, RunsInv, RunsTyped
<1>2. \A i \in 1..Len(out') : \/ i \in 1..Len(out) /\ out'[i] = out[i]
                              \/ i > Len(out) /\ out'[i] \in S
  BY <1>1, GrowsAll
<1>3. SUFFICES ASSUME NEW j \in 1..Len(out'), out'[j].e = "D", BegunBy(j)'
               PROVE  out'[j].code = k'
  BY DEF EndsOf
<1>4. CASE j \in 1..Len(out)
  <2>1. \A i \in 1..(j - 1) : i \in 1..Len(out) /\ out'[i] = out[i]
    BY <1>1, <1>4 DEF GrowsBy
  <2>2. BegunBy(j)
    BY <1>3, <2>1 DEF BegunBy
  <2>3. out'[j] = out[j]
    BY <1>4 DEF GrowsBy
  <2>4. QED  BY <1>3, <1>4, <2>2, <2>3 DEF EndsOf
<1>5. CASE j > Len(out)
  <2>1. out'[j] \in S
    BY <1>1, <1>2, <1>5
  <2>2. \A x \in S : /\ x.e # "C"
                     /\ x.e = "D" /\ (Begun \/ ~term.sawC) => x.code = k
    BY <1>3, <2>1
  <2>3. Begun \/ ~term.sawC
    <3>1. CASE \E i \in 1..(j - 1) : out'[i].e = "C"
      <4>1. PICK i \in 1..(j - 1) : out'[i].e = "C"
        BY <3>1
      <4>2. i \in 1..Len(out')
        BY <1>1
      <4>3. i \in 1..Len(out) /\ out[i].e = "C"
        BY <1>2, <2>2, <4>1, <4>2
      <4>4. QED  BY <4>3 DEF Begun
    <3>2. QED  BY <1>3, <3>1 DEF BegunBy, Begun
  <2>4. QED  BY <1>3, <2>1, <2>2, <2>3
<1>6. QED  BY <1>1, <1>4, <1>5

\* What begun has stays begun.
LEMMA PrintBegun ==
  ASSUME RunsInv, NEW S, GrowsBy(out, out', S), term' = term
  PROVE  /\ Begun => Begun'
         /\ (\A x \in S : x.e # "C") => (Begun' => Begun)
<1>1. Len(out) \in Nat /\ Len(out') \in Nat /\ out \in Seq(RunEvent)
  BY DEF GrowsBy, RunsInv, RunsTyped
<1>2. \A i \in 1..Len(out') : \/ i \in 1..Len(out) /\ out'[i] = out[i]
                              \/ i > Len(out) /\ out'[i] \in S
  BY <1>1, GrowsAll
<1>3. \A i \in 1..Len(out) : i \in 1..Len(out') /\ out'[i] = out[i]
  BY <1>1 DEF GrowsBy
<1>4. QED  BY <1>2, <1>3 DEF Begun

LEMMA StatusTypes ==
  ASSUME NEW l \in RunLine
  PROVE  /\ l.kind # "blank" => StatusOf(l) \in RunIds
         /\ l.kind = "run" => StatusOf(l) = l.k
<1>1. l.k \in RunIds
  BY DEF RunLine
<1>2. QED  BY <1>1, RunNumbers DEF StatusOf

\* The events of a line that ends.
EndEvent(x) ==
    \/ x.e = "M" /\ shell.fg.kind = "mark" /\ x.k = shell.fg.k /\ x.code = shell.last
    \/ x.e = "D" /\ x.k = 0 /\ x.code = StatusOf(shell.fg)

LEMMA FinishFacts ==
  ASSUME RunsInv, Finish(shell.fg)
  PROVE  /\ shell' \in Shells /\ shell'.fg = NoLine /\ shell'.last = StatusOf(shell.fg)
         /\ shell'.hasC = shell.hasC /\ (shell.hooked => shell'.hooked)
         /\ \E S : /\ GrowsBy(out, out', S)
                   /\ \A x \in S : EndEvent(x) /\ (x.e = "D" => shell'.hooked)
<1>1. shell \in Shells /\ out \in Seq(RunEvent)
  BY DEF RunsInv, RunsTyped
<1>2. PICK l : l = shell.fg
  OBVIOUS
<1>3. /\ l \in RunLine /\ l.k \in RunIds /\ shell.last \in Codes /\ StatusOf(l) \in Codes
      /\ shell.hooked \in BOOLEAN
  BY <1>1, <1>2, ShellTypes, StatusTypes, RunNumbers DEF StatusOf
<1> DEFINE h == shell.hooked \/ l.kind = "hook"
           m == [e |-> "M", k |-> l.k, code |-> shell.last]
           d == [e |-> "D", k |-> 0, code |-> StatusOf(l)]
           ms == IF l.kind = "mark" THEN <<m>> ELSE <<>>
           ds == IF h THEN <<d>> ELSE <<>>
<1>4. /\ shell' = [shell EXCEPT !.fg = NoLine, !.hooked = h, !.last = StatusOf(l)]
      /\ out' = (out \o ms) \o ds
  BY <1>2 DEF Finish
<1>5. m \in RunEvent /\ d \in RunEvent /\ h \in BOOLEAN
  BY <1>3, RunNumbers DEF RunEvent
<1>6. /\ m.e = "M" /\ m.k = l.k /\ m.code = shell.last
      /\ d.e = "D" /\ d.k = 0 /\ d.code = StatusOf(l)
      /\ shell.hooked => h
  OBVIOUS
<1> HIDE DEF m, d, h
<1>7. /\ shell' \in Shells /\ shell'.fg = NoLine /\ shell'.last = StatusOf(l)
      /\ shell'.hasC = shell.hasC /\ shell'.hooked = h
  <2>1. NoLine \in RunLine
    BY LineTypes
  <2> HIDE DEF ms, ds
  <2>2. QED  BY <1>1, <1>3, <1>4, <1>5, <2>1 DEF Shells
<1> DEFINE M == IF l.kind = "mark" THEN {m} ELSE {}
           D == IF h THEN {d} ELSE {}
<1>8. GrowsBy(out, out \o ms, M) /\ out \o ms \in Seq(RunEvent)
  <2>1. CASE l.kind = "mark"
    <3>1. out \o <<m>> = Append(out, m)
      BY <1>1, <1>5, GrowsConcat
    <3>2. GrowsBy(out, Append(out, m), {m})
      BY <1>1, <1>5, GrowsOne
    <3>3. Append(out, m) \in Seq(RunEvent)
      BY <3>2 DEF GrowsBy
    <3>4. QED  BY <2>1, <3>1, <3>2, <3>3
  <2>2. CASE l.kind # "mark"
    BY <1>1, <1>5, <2>2, GrowsConcat, GrowsNot
  <2>3. QED  BY <2>1, <2>2
<1>9. PICK a : a = out \o ms
  OBVIOUS
<1>10. GrowsBy(a, a \o ds, D)
  <2> HIDE DEF ms, M
  <2>1. CASE h
    BY <1>5, <1>8, <1>9, <2>1, GrowsConcat, GrowsOne
  <2>2. CASE ~h
    BY <1>5, <1>8, <1>9, <2>2, GrowsConcat, GrowsNot
  <2>3. QED  BY <2>1, <2>2
<1>11. GrowsBy(out, out', M \cup D)
  <2> HIDE DEF ms, ds, M, D
  <2>1. QED  BY <1>1, <1>4, <1>8, <1>9, <1>10, GrowsAgain
<1>12. \A x \in M \cup D : EndEvent(x) /\ (x.e = "D" => h)
  BY <1>2, <1>6 DEF EndEvent
<1>13. QED
  <2> HIDE DEF M, D
  <2>1. QED  BY <1>2, <1>6, <1>7, <1>11, <1>12

LEMMA HeadTypes ==
  ASSUME RunsInv, todo # <<>>
  PROVE  /\ Head(todo) \in RunLine /\ Head(todo).k \in RunIds /\ Head(todo).k <= used.runs
         /\ Tail(todo) \in Seq(RunLine)
         /\ \A i \in 1..Len(Tail(todo)) : Tail(todo)[i].k <= used.runs
<1>1. todo \in Seq(RunLine)
  BY DEF RunsInv, RunsTyped
<1>2. /\ Head(todo) \in RunLine /\ Tail(todo) \in Seq(RunLine)
      /\ Len(Tail(todo)) = Len(todo) - 1 /\ Len(todo) \in Nat
      /\ \A i \in 1..Len(Tail(todo)) : Tail(todo)[i] = todo[i + 1]
  BY <1>1, HeadTailProperties
<1>3. Head(todo) = todo[1] /\ 1 \in 1..Len(todo)
  BY <1>1, EmptySeq
<1>4. \A i \in 1..Len(Tail(todo)) : i + 1 \in 1..Len(todo)
  BY <1>2
<1>5. QED  BY <1>2, <1>3, <1>4 DEF RunsInv, NumbersOK, RunLine

\* A command, its mark, and the sequences they make.
LEMMA Batches ==
  ASSUME NEW k \in RunIds
  PROVE  /\ Command(k) \in RunLine /\ Mark(k) \in RunLine
         /\ Command(k) # Mark(k) /\ Command(k) # NoLine /\ Mark(k) # NoLine
         /\ Head(<<Command(k), Mark(k)>>) = Command(k)
         /\ Tail(<<Command(k), Mark(k)>>) = <<Mark(k)>>
         /\ Head(<<Command(k)>>) = Command(k) /\ Tail(<<Command(k)>>) = <<>>
         /\ Head(<<Mark(k)>>) = Mark(k) /\ Tail(<<Mark(k)>>) = <<>>
         /\ <<Command(k), Mark(k)>> # <<>> /\ <<Command(k)>> # <<>> /\ <<Mark(k)>> # <<>>
<1>1. /\ Command(k) \in RunLine /\ Mark(k) \in RunLine
      /\ Command(k).kind = "run" /\ Mark(k).kind = "mark" /\ NoLine.kind = "none"
  BY LineTypes
<1>2. QED  BY <1>1

\* While a clean run is watched, only it and its mark are in the line.
LEMMA CleanLine ==
  ASSUME RunsInv, run # NoRun, run.clean, term.cap # NoCapture
  PROVE  /\ todo \in {<<>>, <<Command(run.id)>>, <<Mark(run.id)>>,
                      <<Command(run.id), Mark(run.id)>>}
         /\ run.id \in RunIds
         /\ \A i \in 1..Len(todo) : todo[i].kind \in {"run", "mark"}
         /\ term.cap.mode = "mark" \/ term.cap.mode = "osc"
         /\ run.result = NoCode /\ term.done = NoCode
<1>1. run.id \in RunIds
  BY RunTypes DEF RunsInv
<1>2. term.cap.mode = "mark" \/ term.cap.mode = "osc"
  BY TermTypes DEF RunsInv, RunsTyped, CaptureOK
<1>3. todo \in {<<>>, <<Command(run.id)>>, <<Mark(run.id)>>, <<Command(run.id), Mark(run.id)>>}
  BY <1>2 DEF RunsInv, CleanOK, MarkOK, AtMark, OscOK
<1>4. Command(run.id).kind = "run" /\ Mark(run.id).kind = "mark"
  BY <1>1, LineTypes
<1>5. run.result = NoCode /\ term.done = NoCode
  BY DEF RunsInv, CaptureOK
<1>6. QED  BY <1>1, <1>2, <1>3, <1>4, <1>5

LEMMA ShellTakesStep ==
  ASSUME RunsInv, ShellTakes
  PROVE  RunsInv'
<1>1. /\ todo # <<>> /\ shell.fg = NoLine /\ todo' = Tail(todo)
      /\ shell' = [shell EXCEPT !.fg = Head(todo)]
      /\ UNCHANGED <<phase, run, term, line, fate, told, known, used>>
  BY DEF ShellTakes, HasLine
<1>2. /\ shell \in Shells /\ out \in Seq(RunEvent) /\ todo \in Seq(RunLine)
      /\ term \in Terms /\ used \in Spent
  BY DEF RunsInv, RunsTyped
<1>3. PICK l : l = Head(todo)
  OBVIOUS
<1>4. /\ l \in RunLine /\ l.k \in RunIds /\ l.k <= used.runs /\ todo' \in Seq(RunLine)
      /\ \A i \in 1..Len(todo') : todo'[i].k <= used.runs
  BY <1>1, <1>3, HeadTypes
<1>5. /\ shell' \in Shells /\ shell'.fg = l /\ shell'.hooked = shell.hooked
      /\ shell'.hasC = shell.hasC /\ shell'.last = shell.last
  BY <1>1, <1>2, <1>3, <1>4 DEF Shells
<1> DEFINE c == [e |-> "C", k |-> 0, code |-> 0]
           says == shell.hooked /\ shell.hasC /\ l.kind # "blank"
           S == IF says THEN {c} ELSE {}
<1>6. c \in RunEvent /\ c.e = "C" /\ c.k = 0 /\ used.runs \in Nat
  BY <1>2, RunNumbers DEF RunEvent, Spent, RunIds
<1>7. out' = IF says THEN Append(out, c) ELSE out
  BY <1>3 DEF ShellTakes
<1> HIDE DEF c
<1>8. GrowsBy(out, out', S)
  BY <1>2, <1>6, <1>7, GrowsOne, GrowsNot
<1>9. \A x \in S : x = c /\ says
  OBVIOUS
<1> HIDE DEF S
<1>10. /\ out' \in Seq(RunEvent) /\ ExitsOK' /\ HookOK'
       /\ \A i \in 1..Len(out') : out'[i].k <= used'.runs
  BY <1>1, <1>5, <1>6, <1>8, <1>9, PrintKeeps
<1>11. /\ GateOK' /\ CaptureOK' /\ KnownOK' /\ FinishedExact' /\ LossNamed'
  BY <1>1, ShellKeeps
<1>12. RunsTyped'
  BY <1>1, <1>4, <1>5, <1>10 DEF RunsInv, RunsTyped
<1>13. NumbersOK'
  BY <1>1, <1>4, <1>5, <1>10 DEF NumbersOK
<1>14. CleanOK'
  <2> SUFFICES ASSUME run # NoRun, run.clean
               PROVE  /\ term.cap.mode = "mark" => MarkOK(run.id)'
                      /\ term.cap.mode = "osc" => OscOK(run.id)'
    BY <1>1 DEF RunsInv, CleanOK
  <2>1. PICK k : k = run.id
    OBVIOUS
  <2>2. k \in RunIds /\ k = run'.id
    BY <1>1, <2>1, RunTypes DEF RunsInv
  <2>3. ASSUME term.cap.mode = "mark"  PROVE MarkOK(k)'
    <3>1. MarkOK(k)
      BY <2>1, <2>3 DEF RunsInv, CleanOK
    <3>2. AtMark(k)'
      <4>1. \/ todo = <<Command(k), Mark(k)>>
            \/ todo = <<Mark(k)>> /\ shell.last = k
        BY <1>1, <2>2, <3>1, Batches DEF MarkOK, AtMark
      <4>2. \/ l = Command(k) /\ todo' = <<Mark(k)>>
            \/ l = Mark(k) /\ todo' = <<>> /\ shell.last = k
        BY <1>1, <1>3, <2>2, <4>1, Batches
      <4>3. QED  BY <1>5, <4>2, Rigid DEF AtMark
    <3>3. \A i \in 1..Len(out') : \/ i \in 1..Len(out) /\ out'[i] = out[i]
                                  \/ out'[i].e = "C"
      BY <1>2, <1>6, <1>8, <1>9, GrowsAll
    <3>4. QED  BY <3>1, <3>2, <3>3 DEF MarkOK
  <2>4. ASSUME term.cap.mode = "osc"  PROVE OscOK(k)'
    <3>1. OscOK(k)
      BY <2>1, <2>4 DEF RunsInv, CleanOK
    <3>2. l = Command(k) /\ todo' = <<>> /\ ~Begun
      BY <1>1, <1>3, <2>2, <3>1, Batches DEF OscOK
    <3>3. EndsOf(k)'
      BY <1>1, <1>6, <1>8, <1>9, <3>1, PrintEnds DEF OscOK
    <3>4. QED  BY <1>1, <1>5, <3>1, <3>2, <3>3, Rigid DEF OscOK
  <2>5. QED  BY <1>1, <2>1, <2>3, <2>4
<1>15. QED  BY <1>10, <1>11, <1>12, <1>13, <1>14 DEF RunsInv

LEMMA ProgramSwallowsStep ==
  ASSUME RunsInv, ProgramSwallows
  PROVE  RunsInv'
<1>1. /\ todo # <<>> /\ todo' = Tail(todo) /\ shell.fg.kind \in {"run", "line"}
      /\ UNCHANGED <<phase, run, term, line, shell, out, fate, told, known, used>>
  BY DEF ProgramSwallows
<1>2. todo' \in Seq(RunLine) /\ \A i \in 1..Len(todo') : todo'[i].k <= used.runs
  BY <1>1, HeadTypes
<1>3. RunsTyped' /\ NumbersOK'
  BY <1>1, <1>2 DEF RunsInv, RunsTyped, NumbersOK
<1>4. GateOK' /\ CaptureOK' /\ KnownOK' /\ FinishedExact' /\ LossNamed'
  BY <1>1, ShellKeeps
<1>5. ExitsOK' /\ HookOK'
  BY <1>1 DEF RunsInv, ExitsOK, HookOK
<1>6. CleanOK'
  <2> SUFFICES ASSUME run # NoRun, run.clean
               PROVE  /\ term.cap.mode = "mark" => MarkOK(run.id)'
                      /\ term.cap.mode = "osc" => OscOK(run.id)'
    BY <1>1 DEF RunsInv, CleanOK
  <2>1. PICK k : k = run.id
    OBVIOUS
  <2>2. k \in RunIds /\ k = run'.id
    BY <1>1, <2>1, RunTypes DEF RunsInv
  <2>3. ASSUME term.cap.mode = "mark"  PROVE MarkOK(k)'
    <3>1. MarkOK(k)
      BY <2>1, <2>3 DEF RunsInv, CleanOK
    <3>2. shell.fg # NoLine /\ shell.fg # Mark(k)
      BY <1>1, <2>2, LineTypes
    <3>3. AtMark(k)'
      BY <1>1, <2>2, <3>1, <3>2, Batches DEF MarkOK, AtMark
    <3>4. QED  BY <1>1, <3>1, <3>3 DEF MarkOK
  <2>4. ASSUME term.cap.mode = "osc"  PROVE OscOK(k)'
    <3>1. OscOK(k) /\ (Begun' <=> Begun) /\ (EndsOf(k)' <=> EndsOf(k))
      BY <1>1, <2>1, <2>4 DEF RunsInv, CleanOK, Begun, EndsOf, BegunBy
    <3>2. todo' = <<>> /\ ~Begun
      BY <1>1, <2>2, <3>1, Batches DEF OscOK
    <3>3. QED  BY <1>1, <3>1, <3>2, Rigid DEF OscOK
  <2>5. QED  BY <1>1, <2>1, <2>3, <2>4
<1>7. QED  BY <1>3, <1>4, <1>5, <1>6 DEF RunsInv

\* The line in front ends: what holds whatever becomes of the lines behind it.
LEMMA FinishKeeps ==
  ASSUME RunsInv, Finish(shell.fg),
         UNCHANGED <<phase, run, term, line, fate, told, known, used>>,
         todo' \in Seq(RunLine), \A i \in 1..Len(todo') : todo'[i].k <= used.runs
  PROVE  /\ RunsTyped' /\ GateOK' /\ NumbersOK' /\ ExitsOK' /\ CaptureOK' /\ HookOK'
         /\ KnownOK' /\ FinishedExact' /\ LossNamed'
<1>1. /\ shell' \in Shells /\ shell'.fg = NoLine /\ shell'.last = StatusOf(shell.fg)
      /\ shell'.hasC = shell.hasC /\ (shell.hooked => shell'.hooked)
  BY FinishFacts
<1>2. PICK S : /\ GrowsBy(out, out', S)
               /\ \A x \in S : EndEvent(x) /\ (x.e = "D" => shell'.hooked)
  BY FinishFacts
<1>3. shell.fg.k <= used.runs /\ 0 <= used.runs
  BY DEF RunsInv, NumbersOK, RunsTyped, Spent, RunIds
<1>4. \A x \in S : /\ x.k <= used.runs
                   /\ x.e # "exit" /\ x.e # "C"
                   /\ x.e \in {"C", "D"} => shell'.hooked
  BY <1>2, <1>3 DEF EndEvent
<1>5. /\ out' \in Seq(RunEvent) /\ ExitsOK' /\ HookOK'
      /\ \A i \in 1..Len(out') : out'[i].k <= used'.runs
  <2>1. UNCHANGED <<term, used>>
    OBVIOUS
  <2>2. QED  BY <1>1, <1>2, <1>4, <2>1, PrintKeeps
<1>6. GateOK' /\ CaptureOK' /\ KnownOK' /\ FinishedExact' /\ LossNamed'
  BY ShellKeeps
<1>7. RunsTyped'
  BY <1>1, <1>5 DEF RunsInv, RunsTyped
<1>8. NumbersOK'
  BY <1>1, <1>3, <1>5, LineTypes DEF NumbersOK
<1>9. QED  BY <1>5, <1>6, <1>7, <1>8

LEMMA ShellEndsStep ==
  ASSUME RunsInv, ShellEnds
  PROVE  RunsInv'
<1>1. /\ shell.fg # NoLine /\ Finish(shell.fg)
      /\ UNCHANGED <<phase, run, term, line, todo, fate, told, known, used>>
  BY DEF ShellEnds
<1>2. todo' \in Seq(RunLine) /\ \A i \in 1..Len(todo') : todo'[i].k <= used.runs
  BY <1>1 DEF RunsInv, RunsTyped, NumbersOK
<1>3. /\ RunsTyped' /\ GateOK' /\ NumbersOK' /\ ExitsOK' /\ CaptureOK' /\ HookOK'
      /\ KnownOK' /\ FinishedExact' /\ LossNamed'
  BY <1>1, <1>2, FinishKeeps
<1>4. /\ shell'.fg = NoLine /\ shell'.last = StatusOf(shell.fg)
      /\ shell.fg \in RunLine /\ out \in Seq(RunEvent)
  BY <1>1, FinishFacts, ShellTypes DEF RunsInv, RunsTyped
<1>5. PICK S : GrowsBy(out, out', S) /\ \A x \in S : EndEvent(x)
  BY <1>1, FinishFacts
<1>6. CleanOK'
  <2> SUFFICES ASSUME run # NoRun, run.clean
               PROVE  /\ term.cap.mode = "mark" => MarkOK(run.id)'
                      /\ term.cap.mode = "osc" => OscOK(run.id)'
    BY <1>1 DEF RunsInv, CleanOK
  <2>1. PICK k : k = run.id
    OBVIOUS
  <2>2. k \in RunIds /\ k = run'.id
    BY <1>1, <2>1, RunTypes DEF RunsInv
  <2>3. Command(k).kind = "run" /\ Command(k).k = k /\ Mark(k).kind = "mark" /\ Mark(k).k = k
    BY <2>2, LineTypes
  <2>4. ASSUME term.cap.mode = "mark"  PROVE MarkOK(k)'
    <3>1. MarkOK(k)
      BY <2>1, <2>4 DEF RunsInv, CleanOK
    <3>2. shell.fg = Command(k) => shell'.last = k
      BY <1>4, <2>3, StatusTypes
    <3>3. AtMark(k)'
      BY <1>1, <1>4, <3>1, <3>2 DEF MarkOK, AtMark
    <3>4. shell.fg.kind = "mark" => shell.fg = Mark(k) /\ shell.last = k
      BY <1>1, <2>3, <3>1 DEF MarkOK, AtMark
    <3>5. \A x \in S : x.e = "M" => x.code = k
      BY <1>5, <3>4 DEF EndEvent
    <3>6. \A i \in 1..Len(out') : \/ i \in 1..Len(out) /\ out'[i] = out[i]
                                  \/ out'[i] \in S
      BY <1>4, <1>5, GrowsAll
    <3>7. QED  BY <3>1, <3>3, <3>5, <3>6 DEF MarkOK
  <2>5. ASSUME term.cap.mode = "osc"  PROVE OscOK(k)'
    <3>1. OscOK(k)
      BY <2>1, <2>5 DEF RunsInv, CleanOK
    <3>2. Begun \/ ~term.sawC => StatusOf(shell.fg) = k
      BY <1>1, <1>4, <2>3, <3>1, StatusTypes DEF OscOK
    <3>3. \A x \in S : /\ x.e # "C"
                       /\ x.e = "D" /\ (Begun \/ ~term.sawC) => x.code = k
      BY <1>5, <3>2 DEF EndEvent
    <3>4. EndsOf(k)'
      BY <1>1, <1>5, <3>1, <3>3, PrintEnds DEF OscOK
    <3>5. Begun' => Begun
      BY <1>1, <1>5, <3>3, PrintBegun
    <3>6. QED  BY <1>1, <1>4, <3>1, <3>4, <3>5, Rigid DEF OscOK
  <2>6. QED  BY <1>1, <2>1, <2>4, <2>5
<1>7. QED  BY <1>3, <1>6 DEF RunsInv

\* Nothing is claimed of a run whose capture is over.
LEMMA CleanIdle ==
  ASSUME RunsInv, UNCHANGED <<run, term>>,
         run # NoRun /\ run.clean => term.cap = NoCapture
  PROVE  CleanOK'
BY DEF RunsInv, CleanOK, NoCapture

LEMMA InterruptArrivesStep ==
  ASSUME RunsInv, InterruptArrives
  PROVE  RunsInv'
<1>1. PICK i \in 1..Len(todo) :
        todo[i].kind = "intr" /\ todo' = SubSeq(todo, i + 1, Len(todo))
  BY DEF InterruptArrives
<1>2. /\ UNCHANGED <<phase, run, term, line, fate, told, known, used>>
      /\ Finish(shell.fg) \/ UNCHANGED <<shell, out>>
  BY DEF InterruptArrives
<1>3. todo \in Seq(RunLine) /\ Len(todo) \in Nat
  BY DEF RunsInv, RunsTyped
<1>4. /\ todo' \in Seq(RunLine)
      /\ \A j \in 1..Len(todo') : j + i \in 1..Len(todo) /\ todo'[j] = todo[j + i]
  <2>1. \A j \in (i + 1)..Len(todo) : todo[j] \in RunLine
    BY <1>3, ElementOfSeq
  <2>2. /\ SubSeq(todo, i + 1, Len(todo)) \in Seq(RunLine)
        /\ Len(SubSeq(todo, i + 1, Len(todo))) = Len(todo) - i
        /\ \A j \in 1..(Len(todo) - i) : SubSeq(todo, i + 1, Len(todo))[j] = todo[j + i]
    <3> DEFINE q == SubSeq(todo, i + 1, Len(todo))
               n == Len(todo) - i
    <3>1. i + 1 \in Int /\ Len(todo) \in Int
      BY <1>3
    <3>2. /\ n \in Nat /\ Len(todo) - (i + 1) + 1 = n
          /\ IF i + 1 <= Len(todo) THEN Len(todo) - (i + 1) + 1 = n ELSE n = 0
          /\ \A j \in 1..n : (i + 1) + j - 1 = j + i
      BY <1>3
    <3>3. /\ q \in Seq(RunLine)
          /\ Len(q) = IF i + 1 <= Len(todo) THEN Len(todo) - (i + 1) + 1 ELSE 0
          /\ \A j \in 1..(Len(todo) - (i + 1) + 1) : q[j] = todo[(i + 1) + j - 1]
      BY <2>1, <3>1, SubSeqProperties
    <3> HIDE DEF q, n
    <3>4. q \in Seq(RunLine) /\ Len(q) = n /\ \A j \in 1..n : q[j] = todo[j + i]
      BY <3>2, <3>3
    <3>5. QED  BY <3>4 DEF q, n
  <2>3. QED  BY <1>1, <1>3, <2>2
<1>5. \A j \in 1..Len(todo') : todo'[j].k <= used.runs
  BY <1>4 DEF RunsInv, NumbersOK
<1>6. /\ RunsTyped' /\ GateOK' /\ NumbersOK' /\ ExitsOK' /\ CaptureOK' /\ HookOK'
      /\ KnownOK' /\ FinishedExact' /\ LossNamed'
  <2>1. CASE Finish(shell.fg)
    BY <1>2, <1>4, <1>5, <2>1, FinishKeeps
  <2>2. CASE UNCHANGED <<shell, out>>
    <3>1. RunsTyped' /\ NumbersOK'
      BY <1>2, <1>4, <1>5, <2>2 DEF RunsInv, RunsTyped, NumbersOK
    <3>2. GateOK' /\ CaptureOK' /\ KnownOK' /\ FinishedExact' /\ LossNamed'
      BY <1>2, ShellKeeps
    <3>3. ExitsOK' /\ HookOK'
      BY <1>2, <2>2 DEF RunsInv, ExitsOK, HookOK
    <3>4. QED  BY <3>1, <3>2, <3>3
  <2>3. QED  BY <1>2, <2>1, <2>2
<1>7. run # NoRun /\ run.clean => term.cap = NoCapture
  BY <1>1, CleanLine
<1>8. CleanOK'
  BY <1>2, <1>7, CleanIdle
<1>9. QED  BY <1>6, <1>8 DEF RunsInv

LEMMA WorkerEndsStep ==
  ASSUME RunsInv, WorkerEnds
  PROVE  RunsInv'
<1>1. /\ shell' = [shell EXCEPT !.alive = FALSE, !.fg = NoLine]
      /\ todo' = <<>> /\ line' = [line EXCEPT !.open = FALSE]
      /\ used' = [used EXCEPT !.drops = @ + 1]
      /\ UNCHANGED <<phase, run, term, fate, told, known>>
  BY DEF WorkerEnds, Spend
<1>2. /\ shell \in Shells /\ out \in Seq(RunEvent) /\ line \in Lines /\ used \in Spent
  BY DEF RunsInv, RunsTyped
<1>3. used' \in Spent /\ used'.runs = used.runs /\ used.runs \in Nat
  BY <1>1, <1>2, RunNumbers DEF Spent, RunIds
<1>4. line' \in Lines
  BY <1>1, <1>2 DEF Lines
<1>5. /\ shell' \in Shells /\ shell'.fg = NoLine /\ shell'.hooked = shell.hooked
      /\ shell'.hasC = shell.hasC
  BY <1>1, <1>2, LineTypes DEF Shells
<1> DEFINE x == [e |-> "exit", k |-> 0, code |-> Exit]
           z == [e |-> "lost", k |-> 0, code |-> 0]
<1>6. PICK exits \in BOOLEAN : out' = (out \o (IF exits THEN <<x>> ELSE <<>>)) \o <<z>>
  BY DEF WorkerEnds
<1>7. /\ x \in RunEvent /\ x.e = "exit" /\ x.k = 0 /\ x.code = Exit
      /\ z \in RunEvent /\ z.e = "lost" /\ z.k = 0
  BY RunNumbers DEF RunEvent
<1> HIDE DEF x, z
<1>8. PICK b : b = out \o (IF exits THEN <<x>> ELSE <<>>)
  OBVIOUS
<1>9. GrowsBy(out, b, {x}) /\ b \in Seq(RunEvent)
  <2>1. CASE exits
    <3>1. b = Append(out, x)
      BY <1>2, <1>7, <1>8, <2>1, GrowsConcat
    <3>2. GrowsBy(out, b, {x})
      BY <1>2, <1>7, <3>1, GrowsOne
    <3>3. QED  BY <3>2 DEF GrowsBy
  <2>2. CASE ~exits
    BY <1>2, <1>7, <1>8, <2>2, GrowsConcat, GrowsNot
  <2>3. QED  BY <2>1, <2>2
<1>10. GrowsBy(b, out', {z})
  <2>1. out' = Append(b, z)
    BY <1>6, <1>7, <1>8, <1>9, GrowsConcat
  <2>2. QED  BY <1>7, <1>9, <2>1, GrowsOne
<1>11. PICK S : S = {x} \cup {z}
  OBVIOUS
<1>12. GrowsBy(out, out', S)
  BY <1>2, <1>9, <1>10, <1>11, GrowsAgain
<1>13. \A y \in S : y.e # "C" /\ y.e # "D" /\ y.e # "M" /\ y.k <= used.runs
                    /\ (y.e = "exit" => y.code = Exit)
  BY <1>3, <1>7, <1>11
<1>14. \A i \in 1..Len(out') : \/ i \in 1..Len(out) /\ out'[i] = out[i]
                               \/ out'[i] \in S
  BY <1>2, <1>12, GrowsAll
<1>15. ExitsOK' /\ HookOK' /\ out' \in Seq(RunEvent)
  <2>1. ExitsOK'
    BY <1>13, <1>14 DEF RunsInv, ExitsOK
  <2>2. HookOK'
    BY <1>1, <1>5, <1>13, <1>14 DEF RunsInv, HookOK
  <2>3. QED  BY <1>12, <2>1, <2>2 DEF GrowsBy
<1>16. RunsTyped'
  BY <1>1, <1>3, <1>4, <1>5, <1>15 DEF RunsInv, RunsTyped
<1>17. NumbersOK'
  BY <1>1, <1>3, <1>5, <1>13, <1>14, LineTypes DEF RunsInv, NumbersOK
<1>18. GateOK' /\ CaptureOK' /\ KnownOK' /\ FinishedExact' /\ LossNamed'
  BY <1>1, <1>3, ShellKeeps
<1>19. CleanOK'
  <2> SUFFICES ASSUME run # NoRun, run.clean
               PROVE  /\ term.cap.mode = "mark" => MarkOK(run.id)'
                      /\ term.cap.mode = "osc" => OscOK(run.id)'
    BY <1>1 DEF RunsInv, CleanOK
  <2>1. PICK k : k = run.id
    OBVIOUS
  <2>2. ASSUME term.cap.mode = "mark"  PROVE MarkOK(k)'
    <3>1. MarkOK(k)
      BY <2>1, <2>2 DEF RunsInv, CleanOK
    <3>2. AtMark(k)'
      BY <1>1, <1>5, Rigid DEF AtMark
    <3>3. QED  BY <1>13, <1>14, <3>1, <3>2 DEF MarkOK
  <2>3. ASSUME term.cap.mode = "osc"  PROVE OscOK(k)'
    <3>1. OscOK(k)
      BY <2>1, <2>3 DEF RunsInv, CleanOK
    <3>2. EndsOf(k)'
      BY <1>1, <1>12, <1>13, <3>1, PrintEnds DEF OscOK
    <3>3. QED  BY <1>1, <1>5, <3>1, <3>2, Rigid DEF OscOK
  <2>4. QED  BY <1>1, <2>1, <2>2, <2>3
<1>20. QED  BY <1>15, <1>16, <1>17, <1>18, <1>19 DEF RunsInv

-----------------------------------------------------------------------------
(* Ends of a run                                                            *)

Named == {"told", "gone", "interrupt", "offline", "replaced"}

\* The run ends for a reason; its caller may be told a code.
LEMMA EndKeeps ==
  ASSUME RunsInv, run # NoRun, run' = NoRun,
         NEW why \in Fates \ {"open"}, fate' = [fate EXCEPT ![run.id] = why],
         run.id \in known => why \in Named,
         \/ told' = told
         \/ \E code \in Codes : /\ run.clean => code \in {run.id, Exit}
                                /\ told' = IF run.clean THEN [told EXCEPT ![run.id] = code]
                                           ELSE told,
         term' \in Terms, term'.cap = NoCapture, term'.done = NoCode,
         UNCHANGED <<known, used>>
  PROVE  /\ fate' \in [Runs -> Fates] /\ told' \in [Runs -> {NoCode} \cup Codes]
         /\ run' = NoRun
         /\ GateOK' /\ CaptureOK' /\ CleanOK' /\ KnownOK' /\ FinishedExact' /\ LossNamed'
<1>1. /\ run.id \in Runs /\ run.clean \in BOOLEAN
      /\ fate \in [Runs -> Fates] /\ told \in [Runs -> {NoCode} \cup Codes]
      /\ known \subseteq Runs
  BY RunTypes DEF RunsInv, RunsTyped
<1>2. NoRun' = NoRun /\ NoCapture' = NoCapture /\ NoRun.id = 0 /\ 0 \notin Runs
      /\ NoCapture.mode = "none"
  BY RunNumbers DEF NoRun, NoCapture
<1>3. /\ fate' \in [Runs -> Fates] /\ fate'[run.id] = why
      /\ \A k \in Runs : k # run.id => fate'[k] = fate[k]
  BY <1>1
<1>4. /\ told' \in [Runs -> {NoCode} \cup Codes]
      /\ \A k \in Runs : k # run.id => told'[k] = told[k]
      /\ told'[run.id] = told[run.id] \/ told'[run.id] \in {run.id, Exit}
  <2>1. CASE told' = told
    BY <1>1, <2>1
  <2>2. CASE ~(told' = told)
    <3>1. PICK code \in Codes : run.clean /\ code \in {run.id, Exit}
                                /\ told' = [told EXCEPT ![run.id] = code]
      BY <2>2
    <3>2. QED  BY <1>1, <3>1
  <2>3. QED  BY <2>1, <2>2
<1>5. GateOK'
  <2>1. run.id = used.runs /\ used.runs \in Nat
    BY DEF RunsInv, GateOK, RunsTyped, Spent, RunIds
  <2>2. \A k \in Runs : (fate'[k] = "open") <=> (k > used.runs)
    BY <1>1, <1>3, <2>1 DEF RunsInv, GateOK
  <2>3. QED  BY <1>2, <2>2 DEF RunsInv, GateOK
<1>6. CaptureOK' /\ CleanOK' /\ KnownOK'
  BY <1>2 DEF CaptureOK, CleanOK, KnownOK
<1>7. FinishedExact'
  BY <1>1, <1>4 DEF RunsInv, FinishedExact
<1>8. LossNamed'
  BY <1>1, <1>3 DEF RunsInv, LossNamed, Named
<1>9. QED  BY <1>2, <1>3, <1>4, <1>5, <1>6, <1>7, <1>8

\* What a step that leaves the shell and its queues alone keeps of them.
LEMMA QuietKeeps ==
  ASSUME RunsInv, UNCHANGED <<todo, shell, out, used>>,
         term'.active = term.active, term'.sawC = term.sawC
  PROVE  NumbersOK' /\ ExitsOK' /\ HookOK'
<1>1. NumbersOK' /\ ExitsOK'
  BY DEF RunsInv, NumbersOK, ExitsOK
<1>2. HookOK'
  BY DEF RunsInv, HookOK
<1>3. QED  BY <1>1, <1>2

\* Clearing the capture leaves what the terminal has seen.
LEMMA ClearedTerm ==
  ASSUME RunsInv
  PROVE  /\ NoCaptureIn(term) \in Terms
         /\ NoCaptureIn(term).cap = NoCapture /\ NoCaptureIn(term).done = NoCode
         /\ NoCaptureIn(term).active = term.active /\ NoCaptureIn(term).sawC = term.sawC
<1>1. term \in Terms
  BY DEF RunsInv, RunsTyped
<1>2. NoCapture \in Capture
  BY DEF NoCapture, Capture
<1>3. QED  BY <1>1, <1>2 DEF NoCaptureIn, Terms

-----------------------------------------------------------------------------
(* The calls                                                                *)

\* One more line is typed.
LEMMA TypedBehind ==
  ASSUME NEW q \in Seq(RunLine), NEW n \in Nat, \A i \in 1..Len(q) : q[i].k <= n,
         NEW l \in RunLine, l.k <= n
  PROVE  /\ Append(q, l) \in Seq(RunLine) /\ q \o <<l>> = Append(q, l) /\ q \o <<>> = q
         /\ \A i \in 1..Len(Append(q, l)) : Append(q, l)[i].k <= n
<1> DEFINE a == Append(q, l)
<1>1. /\ a \in Seq(RunLine) /\ Len(a) = Len(q) + 1 /\ Len(q) \in Nat
      /\ \A i \in 1..Len(q) : a[i] = q[i]
      /\ a[Len(q) + 1] = l
  BY AppendProperties
<1>2. q \o <<l>> = a /\ q \o <<>> = q
  BY AppendIsConcat, ConcatEmptySeq
<1> HIDE DEF a
<1>3. \A i \in 1..Len(a) : i \in 1..Len(q) \/ i = Len(q) + 1
  BY <1>1
<1>4. \A i \in 1..Len(a) : a[i].k <= n
  BY <1>1, <1>3
<1>5. QED  BY <1>1, <1>2, <1>4 DEF a

LEMMA PairOf ==
  ASSUME NEW S, NEW a \in S, NEW b \in S
  PROVE  <<a>> \o <<b>> = <<a, b>>
<1> DEFINE s == <<a>>
           t == <<b>>
           u == <<a, b>>
           v == s \o t
<1>1. s \in Seq(S) /\ Len(s) = 1 /\ s[1] = a
  OBVIOUS
<1>2. t \in Seq(S) /\ Len(t) = 1 /\ t[1] = b
  OBVIOUS
<1>3. u \in Seq(S) /\ Len(u) = 2 /\ u[1] = a /\ u[2] = b
  OBVIOUS
<1> HIDE DEF s, t, u
<1>4. v \in Seq(S) /\ Len(v) = 2 /\ v[1] = a /\ v[2] = b
  BY <1>1, <1>2, ConcatProperties
<1> HIDE DEF v
<1>5. \A i \in 1..2 : i = 1 \/ i = 2
  OBVIOUS
<1>6. v = u
  BY <1>3, <1>4, <1>5, SeqEqual
<1>7. QED  BY <1>6 DEF u, v, s, t

LEMMA RunCommandStep ==
  ASSUME RunsInv, RunCommand
  PROVE  RunsInv'
<1>1. PICK k : k = used.runs + 1
  OBVIOUS
<1> DEFINE mark == IF term.active THEN <<>> ELSE <<Mark(k)>>
           mode == IF term.active THEN "osc" ELSE "mark"
           calm == Settled
           cap == [mode |-> mode, started |-> FALSE]
<1>2. /\ run = NoRun /\ used.runs < MaxRuns
      /\ todo' = (todo \o <<Command(k)>>) \o mark
      /\ term' = [term EXCEPT !.done = NoCode, !.cap = cap]
      /\ run' = [id |-> k, waiter |-> "live", result |-> NoCode, clean |-> calm]
      /\ used' = [used EXCEPT !.runs = @ + 1]
      /\ UNCHANGED <<phase, line, shell, out, fate, told, known>>
  BY <1>1 DEF RunCommand, RunMayStart, Spend, Command, Mark, TypedLine
<1>3. /\ used \in Spent /\ term \in Terms /\ todo \in Seq(RunLine) /\ shell \in Shells
      /\ out \in Seq(RunEvent) /\ used.runs \in Nat
  BY DEF RunsInv, RunsTyped, Spent, RunIds
<1>4. /\ k \in Runs /\ k \in RunIds /\ k \in Nat /\ k # 0 /\ k > used.runs
  BY <1>1, <1>2, <1>3, RunNumbers DEF RunIds, Runs
<1>21. used' \in Spent /\ used'.runs = k
  <2>1. used' = [used EXCEPT !.runs = k]
    BY <1>1, <1>2
  <2>2. QED  BY <1>3, <1>4, <2>1 DEF Spent
<1>5. Settled \in BOOLEAN
  BY <1>3, TermTypes DEF Settled
<1>6. mode \in {"osc", "mark"} /\ (mode = "osc" <=> term.active) /\ (mode = "mark" <=> ~term.active)
  OBVIOUS
<1> HIDE DEF mode, calm
<1>7. /\ cap \in Capture /\ cap.mode = mode /\ ~cap.started
  BY <1>6 DEF Capture
<1> HIDE DEF cap
<1>8. /\ term' \in Terms /\ term'.cap = cap /\ term'.done = NoCode
      /\ term'.active = term.active /\ term'.sawC = term.sawC
  BY <1>2, <1>3, <1>7 DEF Terms
<1>9. /\ run' \in RunType /\ run'.id = k /\ run'.result = NoCode /\ run'.waiter = "live"
      /\ (run'.clean <=> Settled)
  BY <1>2, <1>4, <1>5 DEF RunType, calm
<1>10. run' # NoRun /\ run' # NoRun' /\ NoRun.id = 0
  BY <1>4, <1>9 DEF NoRun
<1>11. /\ todo' \in Seq(RunLine)
       /\ \A i \in 1..Len(todo') : todo'[i].k <= k
  <2>1. \A i \in 1..Len(todo) : todo[i].k <= k
    <3>1. \A i \in 1..Len(todo) : todo[i].k \in RunIds /\ todo[i].k <= used.runs
      <4>1. \A i \in 1..Len(todo) : todo[i] \in RunLine
        BY <1>3, ElementOfSeq
      <4>2. QED  BY <4>1 DEF RunsInv, NumbersOK, RunLine
    <3>2. QED  BY <1>3, <1>4, <3>1 DEF RunIds
  <2>2. Command(k) \in RunLine /\ Command(k).k = k /\ Mark(k) \in RunLine /\ Mark(k).k = k
    BY <1>4, LineTypes
  <2>3. PICK q : q = todo \o <<Command(k)>>
    OBVIOUS
  <2>4. q \in Seq(RunLine) /\ \A i \in 1..Len(q) : q[i].k <= k
    BY <1>3, <1>4, <2>1, <2>2, <2>3, TypedBehind
  <2>5. CASE term.active
    <3>1. todo' = q
      BY <1>2, <2>2, <1>4, <2>3, <2>4, <2>5, TypedBehind
    <3>2. QED  BY <2>4, <3>1
  <2>6. CASE ~term.active
    <3>1. todo' = q \o <<Mark(k)>>
      BY <1>2, <2>3, <2>6
    <3>2. PICK m : m = Mark(k)
      OBVIOUS
    <3>3. m \in RunLine /\ m.k <= k /\ todo' = q \o <<m>>
      BY <1>4, <2>2, <3>1, <3>2
    <3>4. /\ Append(q, m) \in Seq(RunLine) /\ q \o <<m>> = Append(q, m)
          /\ \A i \in 1..Len(Append(q, m)) : Append(q, m)[i].k <= k
      BY <1>4, <2>4, <3>3, TypedBehind
    <3>5. QED  BY <3>3, <3>4
  <2>7. QED  BY <2>5, <2>6
<1>12. RunsTyped'
  BY <1>2, <1>8, <1>9, <1>11, <1>21 DEF RunsInv, RunsTyped
<1>13. GateOK'
  <2>1. known \subseteq Runs /\ \A j \in known : j <= used.runs
    BY DEF RunsInv, RunsTyped, GateOK
  <2>2. \A j \in Runs : (fate[j] = "open") <=> (j > used.runs)
    BY <1>2, <1>10, RunNumbers DEF RunsInv, GateOK, Runs
  <2>3. \A j \in Runs : j > used.runs <=> (k = j \/ j > k)
    BY <1>1, <1>3 DEF Runs
  <2>4. \A j \in known : j <= k
    BY <1>1, <1>3, <2>1 DEF Runs
  <2>5. QED  BY <1>2, <1>9, <1>21, <2>2, <2>3, <2>4 DEF GateOK
<1>14. NumbersOK'
  <2>1. shell.fg.k <= k
    BY <1>1, <1>3, ShellTypes DEF RunsInv, NumbersOK, RunIds
  <2>2. \A i \in 1..Len(out) : out[i].k \in RunIds
    <3>1. \A i \in 1..Len(out) : out[i] \in RunEvent
      BY <1>3, ElementOfSeq
    <3>2. QED  BY <3>1 DEF RunEvent
  <2>3. \A i \in 1..Len(out) : out[i].k <= k
    BY <1>1, <1>3, <2>2 DEF RunsInv, NumbersOK, RunIds
  <2>4. QED  BY <1>2, <1>11, <1>21, <2>1, <2>3 DEF NumbersOK
<1>15. ExitsOK' /\ HookOK'
  BY <1>2, <1>8 DEF RunsInv, ExitsOK, HookOK
<1>16. CaptureOK'
  BY <1>6, <1>7, <1>8, <1>9, <1>10 DEF CaptureOK
<1>17. KnownOK'
  <2>1. k \notin known
    BY <1>1, <1>3 DEF RunsInv, GateOK
  <2>2. QED  BY <1>2, <1>9, <2>1 DEF KnownOK
<1>18. FinishedExact' /\ LossNamed'
  BY <1>2 DEF RunsInv, FinishedExact, LossNamed
<1>19. CleanOK'
  <2> SUFFICES ASSUME Settled
               PROVE  /\ mode = "mark" => MarkOK(k)'
                      /\ mode = "osc" => OscOK(k)'
    BY <1>7, <1>8, <1>9 DEF CleanOK
  <2>1. todo = <<>>
    BY DEF Settled
  <2>2. Command(k) \in RunLine /\ todo \o <<Command(k)>> = <<Command(k)>>
    BY <1>4, <2>1, LineTypes
  <2>3. ASSUME mode = "mark"  PROVE MarkOK(k)'
    <3>1. ~term.active /\ shell.fg = NoLine
      BY <1>6, <2>3 DEF Settled
    <3>2. todo' = <<Command(k)>> \o <<Mark(k)>>
      BY <1>2, <2>2, <3>1
    <3>3. <<Command(k)>> \o <<Mark(k)>> = <<Command(k), Mark(k)>>
      <4>1. Command(k) \in RunLine /\ Mark(k) \in RunLine
        BY <1>4, LineTypes
      <4>2. QED  BY <4>1, PairOf
    <3>4. AtMark(k)'
      BY <1>2, <3>1, <3>2, <3>3, Rigid DEF AtMark
    <3>5. \A i \in 1..Len(out) : out[i].k # k
      BY <1>1, <1>3 DEF RunsInv, NumbersOK
    <3>6. QED  BY <1>2, <3>4, <3>5 DEF MarkOK
  <2>4. ASSUME mode = "osc"  PROVE OscOK(k)'
    <3>1. term.active
      BY <1>6, <2>4
    <3>2. todo' = <<Command(k)>>
      <4>1. todo' = <<Command(k)>> \o <<>>
        BY <1>2, <2>2, <3>1
      <4>2. QED  BY <2>2, <4>1
    <3>3. /\ \A i \in 1..Len(out) : out[i].e # "C"
          /\ term.sawC \/ (shell.fg = NoLine /\ out = <<>>)
      BY <3>1 DEF Settled
    <3>4. ~Begun'
      BY <1>2, <1>7, <1>8, <3>3 DEF Begun
    <3>5. EndsOf(k)'
      <4>1. \A j \in 1..Len(out) : ~BegunBy(j)'
        <5> TAKE j \in 1..Len(out)
        <5>1. term.sawC
          BY <3>3
        <5>2. \A i \in 1..(j - 1) : i \in 1..Len(out)
          BY <1>3
        <5>3. QED  BY <1>2, <1>7, <1>8, <3>3, <5>1, <5>2 DEF BegunBy
      <4>2. QED  BY <1>2, <4>1 DEF EndsOf
    <3>6. QED  BY <1>2, <1>8, <3>1, <3>2, <3>3, <3>4, <3>5, Rigid DEF OscOK
  <2>5. QED  BY <2>3, <2>4
<1>20. QED  BY <1>12, <1>13, <1>14, <1>15, <1>16, <1>17, <1>18, <1>19 DEF RunsInv

\* A caller comes or goes, and nothing else changes.
LEMMA WaiterKeeps ==
  ASSUME RunsInv, run # NoRun, NEW w \in {"none", "live", "closed"},
         run' = [run EXCEPT !.waiter = w], phase' \in {"calls", "events"},
         UNCHANGED <<term, line, todo, shell, out, fate, told, known>>,
         used' \in Spent, used'.runs = used.runs
  PROVE  RunsInv'
<1>1. run \in RunType
  BY RunTypes DEF RunsInv
<1>2. /\ run' \in RunType /\ run'.id = run.id /\ run'.result = run.result
      /\ run'.clean = run.clean /\ NoRun' = NoRun
  BY <1>1 DEF RunType, NoRun
<1>3. run' # NoRun
  BY <1>2, RunTypes DEF RunsInv, NoRun
<1>4. RunsTyped'
  BY <1>2 DEF RunsInv, RunsTyped
<1>5. GateOK' /\ NumbersOK' /\ ExitsOK'
  BY <1>2, <1>3 DEF RunsInv, GateOK, NumbersOK, ExitsOK
<1>6. CaptureOK' /\ HookOK'
  BY <1>2, <1>3 DEF RunsInv, CaptureOK, HookOK
<1>7. CleanOK'
  <2> SUFFICES ASSUME run.clean
               PROVE  /\ term.cap.mode = "mark" => MarkOK(run.id)'
                      /\ term.cap.mode = "osc" => OscOK(run.id)'
    BY <1>2 DEF RunsInv, CleanOK
  <2>1. PICK k : k = run.id
    OBVIOUS
  <2>2. term.cap.mode = "mark" => MarkOK(k)'
    BY <2>1, Rigid DEF RunsInv, CleanOK, MarkOK, AtMark
  <2>3. term.cap.mode = "osc" => OscOK(k)'
    BY <2>1, Rigid DEF RunsInv, CleanOK, OscOK, EndsOf, BegunBy, Begun
  <2>4. QED  BY <1>2, <2>1, <2>2, <2>3
<1>8. KnownOK' /\ FinishedExact' /\ LossNamed'
  BY <1>2, <1>3 DEF RunsInv, KnownOK, InHand, FinishedExact, LossNamed
<1>9. QED  BY <1>4, <1>5, <1>6, <1>7, <1>8 DEF RunsInv

LEMMA SpendCall ==
  ASSUME RunsInv, Spend("calls")
  PROVE  used' \in Spent /\ used'.runs = used.runs
BY DEF RunsInv, RunsTyped, Spend, Spent

LEMMA PollRunStep ==
  ASSUME RunsInv, PollRun
  PROVE  RunsInv'
<1>1. /\ run # NoRun /\ run' = [run EXCEPT !.waiter = "live"] /\ Spend("calls")
      /\ UNCHANGED <<phase, term, line, todo, shell, out, fate, told, known>>
  BY DEF PollRun
<1>2. phase' \in {"calls", "events"}
  BY <1>1 DEF RunsInv, RunsTyped
<1>3. QED  BY <1>1, <1>2, SpendCall, WaiterKeeps

LEMMA CallerGoesStep ==
  ASSUME RunsInv, CallerGoes
  PROVE  RunsInv'
<1>1. /\ run # NoRun /\ run' = [run EXCEPT !.waiter = "closed"]
      /\ UNCHANGED <<phase, term, line, todo, shell, out, fate, told, known, used>>
  BY DEF CallerGoes
<1>2. /\ phase' \in {"calls", "events"} /\ used' \in Spent /\ used'.runs = used.runs
  BY <1>1 DEF RunsInv, RunsTyped
<1>3. QED  BY <1>1, <1>2, WaiterKeeps

\* The pending run is dropped for a reason, or there was none.
LEMMA DiscardKeeps ==
  ASSUME RunsInv, NEW why \in Fates \ {"open"}, Discard(why),
         run # NoRun /\ run.id \in known => why \in Named,
         UNCHANGED <<line, known, used>>, phase' \in {"calls", "events"},
         todo' \in Seq(RunLine), \A i \in 1..Len(todo') : todo'[i].k <= used.runs,
         UNCHANGED <<shell, out>>
  PROVE  RunsInv'
<1>1. /\ term' = NoCaptureIn(term) /\ UNCHANGED told
      /\ IF run = NoRun THEN UNCHANGED <<run, fate>>
         ELSE run' = NoRun /\ fate' = [fate EXCEPT ![run.id] = why]
  BY DEF Discard, EndRun
<1>2. /\ term' \in Terms /\ term'.cap = NoCapture /\ term'.done = NoCode
      /\ term'.active = term.active /\ term'.sawC = term.sawC
  BY <1>1, ClearedTerm
<1>3. /\ fate' \in [Runs -> Fates] /\ told' \in [Runs -> {NoCode} \cup Codes]
      /\ run' = NoRun
      /\ GateOK' /\ CaptureOK' /\ CleanOK' /\ KnownOK' /\ FinishedExact' /\ LossNamed'
  <2>1. CASE run # NoRun
    BY <1>1, <1>2, <2>1, EndKeeps
  <2>2. CASE run = NoRun
    <3>1. UNCHANGED <<run, fate, told>> /\ run' = NoRun' /\ NoCapture' = NoCapture
      BY <1>1, <2>2 DEF NoRun, NoCapture
    <3>2. fate' \in [Runs -> Fates] /\ told' \in [Runs -> {NoCode} \cup Codes]
      BY <3>1 DEF RunsInv, RunsTyped
    <3>3. GateOK' /\ FinishedExact' /\ LossNamed'
      BY <3>1 DEF RunsInv, GateOK, FinishedExact, LossNamed
    <3>4. CaptureOK' /\ CleanOK' /\ KnownOK'
      BY <1>2, <3>1 DEF CaptureOK, CleanOK, KnownOK
    <3>5. QED  BY <2>2, <3>1, <3>2, <3>3, <3>4
  <2>3. QED  BY <2>1, <2>2
<1>4. RunsTyped'
  BY <1>2, <1>3 DEF RunsInv, RunsTyped, NoRun
<1>5. NumbersOK' /\ ExitsOK'
  BY DEF RunsInv, NumbersOK, ExitsOK
<1>6. HookOK'
  BY <1>2 DEF RunsInv, HookOK
<1>7. QED  BY <1>3, <1>4, <1>5, <1>6 DEF RunsInv

\* A line that belongs to no run is typed.
LEMMA PlainLine ==
  ASSUME RunsInv, NEW kind \in LineKinds, todo' = Append(todo, TypedLine(kind, 0))
  PROVE  todo' \in Seq(RunLine) /\ \A i \in 1..Len(todo') : todo'[i].k <= used.runs
<1>1. todo \in Seq(RunLine) /\ used.runs \in Nat
  BY DEF RunsInv, RunsTyped, Spent, RunIds
<1>2. PICK l : l = TypedLine(kind, 0)
  OBVIOUS
<1>3. l \in RunLine /\ l.k = 0 /\ todo' = Append(todo, l)
  BY <1>2, LineTypes
<1>4. \A i \in 1..Len(todo) : todo[i].k <= used.runs
  BY DEF RunsInv, NumbersOK
<1>5. l.k <= used.runs
  BY <1>1, <1>3
<1>6. QED  BY <1>1, <1>3, <1>4, <1>5, TypedBehind

LEMMA InterruptStep ==
  ASSUME RunsInv, Interrupt
  PROVE  RunsInv'
<1>1. /\ todo' = Append(todo, TypedLine("intr", 0)) /\ Discard("interrupt")
      /\ UNCHANGED <<phase, line, shell, out, known, used>>
  BY DEF Interrupt, TypedLine
<1>2. "intr" \in LineKinds /\ "interrupt" \in Fates \ {"open"} /\ "interrupt" \in Named
  BY DEF LineKinds, Fates, Named
<1>3. phase' \in {"calls", "events"}
  BY <1>1 DEF RunsInv, RunsTyped
<1>4. todo' \in Seq(RunLine) /\ \A i \in 1..Len(todo') : todo'[i].k <= used.runs
  BY <1>1, <1>2, PlainLine
<1>5. QED  BY <1>1, <1>2, <1>3, <1>4, DiscardKeeps

LEMMA SendInputStep ==
  ASSUME RunsInv, SendInput
  PROVE  RunsInv'
<1>1. PICK kind \in {"line", "blank"} : todo' = Append(todo, TypedLine(kind, 0))
  BY DEF SendInput, TypedLine
<1> DEFINE f == FALSE
<1>2. /\ run' = IF run # NoRun /\ run.result = NoCode THEN [run EXCEPT !.clean = f] ELSE run
      /\ Spend("calls")
      /\ UNCHANGED <<phase, term, line, shell, out, fate, told, known>>
  BY DEF SendInput
<1>3. used' \in Spent /\ used'.runs = used.runs
  BY <1>2, SpendCall
<1>4. todo' \in Seq(RunLine) /\ \A i \in 1..Len(todo') : todo'[i].k <= used.runs
  <2>1. kind \in LineKinds
    BY DEF LineKinds
  <2>2. QED  BY <1>1, <2>1, PlainLine
<1>5. f \in BOOLEAN /\ ~f
  OBVIOUS
<1> HIDE DEF f
<1>6. /\ run' = NoRun \/ run' \in RunType
      /\ run' = NoRun <=> run = NoRun
      /\ run'.id = run.id
      /\ run # NoRun => run'.result = run.result
      /\ run # NoRun /\ run'.clean => run' = run /\ run.result # NoCode
  <2>1. CASE run # NoRun /\ run.result = NoCode
    <3>1. run \in RunType /\ run.id # 0
      BY <2>1, RunTypes DEF RunsInv
    <3>2. run' = [run EXCEPT !.clean = f]
      BY <1>2, <2>1
    <3>3. /\ run' \in RunType /\ run'.id = run.id /\ run'.result = run.result
          /\ run'.clean = f
      BY <1>5, <3>1, <3>2 DEF RunType
    <3>4. run' # NoRun
      BY <3>1, <3>3 DEF NoRun
    <3>5. QED  BY <1>5, <2>1, <3>3, <3>4
  <2>2. CASE ~(run # NoRun /\ run.result = NoCode)
    BY <1>2, <2>2, RunTypes DEF RunsInv
  <2>3. QED  BY <2>1, <2>2
<1>7. RunsTyped'
  BY <1>2, <1>3, <1>4, <1>6 DEF RunsInv, RunsTyped, NoRun
<1>8. NumbersOK' /\ ExitsOK' /\ HookOK'
  BY <1>2, <1>3, <1>4 DEF RunsInv, NumbersOK, ExitsOK, HookOK
<1>9. NoRun' = NoRun
  BY DEF NoRun
<1>10. GateOK' /\ CaptureOK'
  BY <1>2, <1>3, <1>6, <1>9 DEF RunsInv, GateOK, CaptureOK
<1>11. KnownOK' /\ FinishedExact' /\ LossNamed'
  BY <1>2, <1>6, <1>9 DEF RunsInv, KnownOK, InHand, FinishedExact, LossNamed
<1>12. CleanOK'
  <2>1. ASSUME run # NoRun, run'.clean  PROVE UNCHANGED <<run, term>> /\ term.cap = NoCapture
    BY <1>2, <1>6, <2>1 DEF RunsInv, CaptureOK
  <2>2. QED  BY <1>6, <1>9, <2>1 DEF RunsInv, CleanOK, NoCapture
<1>13. QED  BY <1>7, <1>8, <1>10, <1>11, <1>12 DEF RunsInv

-----------------------------------------------------------------------------
(* The frame                                                                *)

LEMMA ReclaimStep ==
  ASSUME RunsInv, Drains(Reclaim)
  PROVE  RunsInv'
<1>1. /\ run # NoRun /\ Abandoned /\ Discard("reclaimed") /\ phase' = "events"
      /\ UNCHANGED <<line, todo, shell, out, known, used>>
  BY DEF Drains, Reclaim
<1>2. run.id \notin known
  BY <1>1 DEF Abandoned, RunsInv, KnownOK, InHand
<1>3. "reclaimed" \in Fates \ {"open"} /\ phase' \in {"calls", "events"}
  BY <1>1 DEF Fates
<1>4. todo' \in Seq(RunLine) /\ \A i \in 1..Len(todo') : todo'[i].k <= used.runs
  BY <1>1 DEF RunsInv, RunsTyped, NumbersOK
<1>5. QED  BY <1>1, <1>2, <1>3, <1>4, DiscardKeeps

\* A code goes to the caller or is kept for the next poll: how it is found does
\* not matter, if it is the command's own or the shell's last.
LEMMA CodeKeeps ==
  ASSUME RunsInv, run # NoRun, NEW code \in Codes,
         run.clean => code \in {run.id, Exit},
         IF run.waiter # "none" THEN Deliver(run, code)
         ELSE run' = [run EXCEPT !.result = code] /\ UNCHANGED <<fate, told>>,
         term' \in Terms, term'.cap = NoCapture, term'.done = NoCode,
         UNCHANGED <<known, used>>
  PROVE  /\ fate' \in [Runs -> Fates] /\ told' \in [Runs -> {NoCode} \cup Codes]
         /\ run' = NoRun \/ run' \in RunType
         /\ GateOK' /\ CaptureOK' /\ CleanOK' /\ KnownOK' /\ FinishedExact' /\ LossNamed'
<1>1. CASE run.waiter # "none"
  <2>1. /\ run' = NoRun
        /\ fate' = [fate EXCEPT ![run.id] = IF run.waiter = "live" THEN "told" ELSE "gone"]
        /\ told' = IF run.waiter = "live" /\ run.clean THEN [told EXCEPT ![run.id] = code]
                   ELSE told
    BY <1>1 DEF Deliver
  <2>2. PICK why : why = IF run.waiter = "live" THEN "told" ELSE "gone"
    OBVIOUS
  <2>3. why \in Fates \ {"open"} /\ why \in Named /\ fate' = [fate EXCEPT ![run.id] = why]
    BY <2>1, <2>2 DEF Fates, Named
  <2>4. \/ told' = told
        \/ /\ run.clean => code \in {run.id, Exit}
           /\ told' = IF run.clean THEN [told EXCEPT ![run.id] = code] ELSE told
    BY <2>1
  <2>5. QED  BY <2>1, <2>3, <2>4, EndKeeps
<1>2. CASE run.waiter = "none"
  <2>1. run' = [run EXCEPT !.result = code] /\ UNCHANGED <<fate, told>> /\ run \in RunType
    BY <1>2, RunTypes DEF RunsInv
  <2>2. /\ run' \in RunType /\ run'.id = run.id /\ run'.clean = run.clean
        /\ run'.result = code
    BY <2>1 DEF RunType
  <2>3. NoRun' = NoRun /\ NoCapture' = NoCapture /\ run' # NoRun /\ NoCapture.mode = "none"
    BY <2>2, RunTypes DEF RunsInv, NoRun, NoCapture
  <2>4. code # NoCode
    BY RunNumbers
  <2>5. fate' \in [Runs -> Fates] /\ told' \in [Runs -> {NoCode} \cup Codes]
    BY <2>1 DEF RunsInv, RunsTyped
  <2>6. GateOK' /\ FinishedExact' /\ LossNamed'
    BY <2>1, <2>2, <2>3 DEF RunsInv, GateOK, FinishedExact, LossNamed
  <2>7. CaptureOK' /\ KnownOK'
    BY <2>2, <2>3, <2>4 DEF CaptureOK, KnownOK, InHand
  <2>8. CleanOK'
    BY <2>2, <2>3 DEF CleanOK
  <2>9. QED  BY <2>2, <2>5, <2>6, <2>7, <2>8
<1>3. QED  BY <1>1, <1>2

\* A code found leaves no capture to look after.
LEMMA TakenTerm ==
  ASSUME RunsInv, run # NoRun, InHand # NoCode,
         term' = IF run.result = NoCode THEN [term EXCEPT !.done = NoCode] ELSE term
  PROVE  /\ term' \in Terms /\ term'.cap = NoCapture
         /\ term'.active = term.active /\ term'.sawC = term.sawC
         /\ term'.done = NoCode
<1>1. term \in Terms
  BY DEF RunsInv, RunsTyped
<1>2. term.cap = NoCapture /\ (run.result # NoCode => term.done = NoCode)
  BY DEF InHand, RunsInv, CaptureOK
<1>3. CASE run.result = NoCode
  BY <1>1, <1>2, <1>3 DEF Terms
<1>4. CASE run.result # NoCode
  BY <1>1, <1>2, <1>4
<1>5. QED  BY <1>3, <1>4

LEMMA TakeResultStep ==
  ASSUME RunsInv, Drains(TakeResult)
  PROVE  RunsInv'
<1>1. /\ run # NoRun /\ InHand # NoCode /\ phase' = "events"
      /\ term' = IF run.result = NoCode THEN [term EXCEPT !.done = NoCode] ELSE term
      /\ IF run.waiter # "none" THEN Deliver(run, InHand)
         ELSE run' = [run EXCEPT !.result = InHand] /\ UNCHANGED <<fate, told>>
      /\ UNCHANGED <<line, todo, shell, out, known, used>>
  BY DEF Drains, TakeResult
<1>2. PICK code : code = InHand
  OBVIOUS
<1>3. code \in Codes
  <2>1. run.result \in {NoCode} \cup Codes /\ term.done \in {NoCode} \cup Codes
    BY <1>1, RunTypes, TermTypes DEF RunsInv, RunsTyped
  <2>2. QED  BY <1>1, <1>2, <2>1 DEF InHand
<1>4. run.clean => code \in {run.id, Exit}
  BY <1>1, <1>2 DEF InHand, RunsInv, CleanOK
<1>5. /\ term' \in Terms /\ term'.cap = NoCapture
      /\ term'.active = term.active /\ term'.sawC = term.sawC
      /\ term'.done = NoCode
  BY <1>1, TakenTerm
<1>6. NumbersOK' /\ ExitsOK' /\ HookOK'
  BY <1>1, <1>5, QuietKeeps
<1>7. /\ fate' \in [Runs -> Fates] /\ told' \in [Runs -> {NoCode} \cup Codes]
      /\ run' = NoRun \/ run' \in RunType
      /\ GateOK' /\ CaptureOK' /\ CleanOK' /\ KnownOK' /\ FinishedExact' /\ LossNamed'
  BY <1>1, <1>2, <1>3, <1>4, <1>5, CodeKeeps
<1>8. RunsTyped'
  BY <1>1, <1>5, <1>7 DEF RunsInv, RunsTyped, NoRun
<1>9. QED  BY <1>6, <1>7, <1>8 DEF RunsInv

LEMMA PatienceEndsStep ==
  ASSUME RunsInv, Drains(PatienceEnds)
  PROVE  RunsInv'
<1>1. /\ run # NoRun /\ run' = [run EXCEPT !.waiter = "none"] /\ phase' = "events"
      /\ UNCHANGED <<term, line, todo, shell, out, fate, told, known, used>>
  BY DEF Drains, PatienceEnds
<1>2. used' \in Spent /\ used'.runs = used.runs
  BY <1>1 DEF RunsInv, RunsTyped
<1>3. QED  BY <1>1, <1>2, WaiterKeeps

\* Nothing the invariant speaks of changes.
LEMMA StandsStill ==
  ASSUME RunsInv, phase' \in {"calls", "events"}, line' \in Lines,
         UNCHANGED <<run, term, todo, shell, out, fate, told, known, used>>
  PROVE  RunsInv'
<1>1. RunsTyped' /\ NumbersOK' /\ ExitsOK' /\ HookOK'
  BY DEF RunsInv, RunsTyped, NumbersOK, ExitsOK, HookOK, NoRun
<1>2. GateOK' /\ CaptureOK' /\ KnownOK' /\ FinishedExact' /\ LossNamed'
  BY DEF RunsInv, GateOK, CaptureOK, KnownOK, InHand, FinishedExact, LossNamed,
         NoRun, NoCapture
<1>3. CleanOK'
  <2> SUFFICES ASSUME run # NoRun, run.clean
               PROVE  /\ term.cap.mode = "mark" => MarkOK(run.id)'
                      /\ term.cap.mode = "osc" => OscOK(run.id)'
    BY DEF RunsInv, CleanOK
  <2>1. PICK k : k = run.id
    OBVIOUS
  <2>2. term.cap.mode = "mark" => MarkOK(k)'
    BY <2>1, Rigid DEF RunsInv, CleanOK, MarkOK, AtMark
  <2>3. term.cap.mode = "osc" => OscOK(k)'
    BY <2>1, Rigid DEF RunsInv, CleanOK, OscOK, EndsOf, BegunBy, Begun
  <2>4. QED  BY <2>1, <2>2, <2>3
<1>4. QED  BY <1>1, <1>2, <1>3 DEF RunsInv

LEMMA NothingDueStep ==
  ASSUME RunsInv, Drains(NothingDue)
  PROVE  RunsInv'
<1>1. /\ phase' = "events"
      /\ UNCHANGED <<run, term, line, todo, shell, out, fate, told, known, used>>
  BY DEF Drains, NothingDue
<1>2. line' \in Lines
  BY <1>1 DEF RunsInv, RunsTyped
<1>3. QED  BY <1>1, <1>2, StandsStill

LEMMA EndFrameStep ==
  ASSUME RunsInv, EndFrame
  PROVE  RunsInv'
<1>1. /\ phase' \in {"calls", "events"}
      /\ UNCHANGED <<run, term, shell, out, fate, told, known, used>>
  BY DEF EndFrame
<1>2. line \in Lines /\ todo \in Seq(RunLine)
  BY DEF RunsInv, RunsTyped
<1>3. CASE UNCHANGED <<todo, line>>
  BY <1>1, <1>2, <1>3, StandsStill
<1>4. CASE /\ MayInject /\ line' = [line EXCEPT !.typed = TRUE]
           /\ todo' = IF line.open THEN Append(todo, [kind |-> "hook", k |-> 0]) ELSE todo
  <2>1. run = NoRun /\ line' \in Lines
    BY <1>2, <1>4 DEF MayInject, Lines
  <2>2. todo' \in Seq(RunLine) /\ \A i \in 1..Len(todo') : todo'[i].k <= used.runs
    <3>1. CASE line.open
      <4>1. "hook" \in LineKinds /\ todo' = Append(todo, TypedLine("hook", 0))
        BY <1>4, <3>1 DEF LineKinds, TypedLine
      <4>2. QED  BY <4>1, PlainLine
    <3>2. CASE ~line.open
      BY <1>2, <1>4, <3>2 DEF RunsInv, NumbersOK
    <3>3. QED  BY <3>1, <3>2
  <2>3. RunsTyped' /\ NumbersOK' /\ ExitsOK' /\ HookOK'
    BY <1>1, <2>1, <2>2 DEF RunsInv, RunsTyped, NumbersOK, ExitsOK, HookOK, NoRun
  <2>4. GateOK' /\ CaptureOK' /\ KnownOK' /\ FinishedExact' /\ LossNamed'
    <3>1. UNCHANGED <<run, term, fate, told, known>> /\ used'.runs = used.runs
      BY <1>1
    <3>2. GateOK' /\ CaptureOK' /\ KnownOK'
      BY <3>1 DEF RunsInv, GateOK, CaptureOK, KnownOK, InHand, NoRun, NoCapture
    <3>3. FinishedExact' /\ LossNamed'
      BY <3>1 DEF RunsInv, FinishedExact, LossNamed, NoRun
    <3>4. QED  BY <3>2, <3>3
  <2>5. CleanOK'
    BY <1>1, <2>1 DEF CleanOK, NoRun
  <2>6. QED  BY <2>3, <2>4, <2>5 DEF RunsInv
<1>5. QED  BY <1>3, <1>4 DEF EndFrame

LEMMA FreshTermTypes ==
  FreshTerm \in Terms /\ FreshTerm.cap = NoCapture /\ FreshTerm.done = NoCode
  /\ ~FreshTerm.active /\ ~FreshTerm.sawC
<1> DEFINE f == FALSE
<1>1. f \in BOOLEAN /\ ~f
  OBVIOUS
<1>2. NoCapture \in Capture
  BY DEF NoCapture, Capture
<1>3. FreshTerm = [cap |-> NoCapture, done |-> NoCode, active |-> f, sawC |-> f]
  BY DEF FreshTerm
<1> HIDE DEF f
<1>4. QED  BY <1>1, <1>2, <1>3 DEF Terms

LEMMA FreshShellTypes ==
  ASSUME NEW hasC \in BOOLEAN
  PROVE  /\ FreshShell(hasC) \in Shells /\ FreshShell(hasC).fg = NoLine
         /\ FreshShell(hasC).hasC = hasC
<1> DEFINE f == FALSE
           t == TRUE
<1>1. f \in BOOLEAN /\ t \in BOOLEAN
  OBVIOUS
<1>2. FreshShell(hasC) =
        [alive |-> t, fg |-> NoLine, hooked |-> f, last |-> 0, hasC |-> hasC]
  BY DEF FreshShell
<1> HIDE DEF f, t
<1>3. QED  BY <1>1, <1>2, LineTypes, RunNumbers DEF Shells

LEMMA ReconnectStep ==
  ASSUME RunsInv, Reconnect
  PROVE  RunsInv'
<1> DEFINE x == [e |-> "up", k |-> 0, code |-> 0]
           f == FALSE
           t == TRUE
<1>1. /\ run' = NoRun /\ term' = FreshTerm /\ shell' = FreshShell(shell.hasC)
      /\ todo' = <<>> /\ out' = <<x>>
      /\ line' = [connected |-> f, open |-> t, typed |-> f]
      /\ UNCHANGED <<phase, told, known, used>>
      /\ run # NoRun => fate' = [fate EXCEPT ![run.id] = "replaced"]
      /\ run = NoRun => fate' = fate
  BY DEF Reconnect
<1>2. x \in RunEvent /\ x.e = "up" /\ x.k = 0 /\ f \in BOOLEAN /\ t \in BOOLEAN
  BY RunNumbers DEF RunEvent
<1> HIDE DEF x, f, t
<1>3. line' \in Lines
  BY <1>1, <1>2 DEF Lines
<1>4. out' \in Seq(RunEvent) /\ \A i \in 1..Len(out') : out'[i] = x
  BY <1>1, <1>2
<1>5. todo' \in Seq(RunLine) /\ Len(todo') = 0
  BY <1>1
<1>6. /\ term' \in Terms /\ term'.cap = NoCapture /\ term'.done = NoCode
      /\ ~term'.active /\ ~term'.sawC
  BY <1>1, FreshTermTypes
<1>7. shell' \in Shells /\ shell'.fg = NoLine
  BY <1>1, FreshShellTypes, ShellTypes DEF RunsInv, RunsTyped
<1>8. /\ fate' \in [Runs -> Fates] /\ told' \in [Runs -> {NoCode} \cup Codes]
      /\ GateOK' /\ CaptureOK' /\ CleanOK' /\ KnownOK' /\ FinishedExact' /\ LossNamed'
  <2>1. CASE run # NoRun
    <3>1. "replaced" \in Fates \ {"open"} /\ "replaced" \in Named
      BY DEF Fates, Named
    <3>2. QED  BY <1>1, <1>6, <2>1, <3>1, EndKeeps
  <2>2. CASE run = NoRun
    <3>1. UNCHANGED <<run, fate, told, known, used>> /\ run' = NoRun' /\ NoCapture' = NoCapture
      BY <1>1, <2>2 DEF NoRun, NoCapture
    <3>2. fate' \in [Runs -> Fates] /\ told' \in [Runs -> {NoCode} \cup Codes]
      BY <3>1 DEF RunsInv, RunsTyped
    <3>3. GateOK' /\ FinishedExact' /\ LossNamed'
      BY <3>1 DEF RunsInv, GateOK, FinishedExact, LossNamed
    <3>4. CaptureOK' /\ CleanOK' /\ KnownOK'
      BY <1>6, <3>1 DEF CaptureOK, CleanOK, KnownOK
    <3>5. QED  BY <3>2, <3>3, <3>4
  <2>3. QED  BY <2>1, <2>2
<1>9. RunsTyped'
  BY <1>1, <1>3, <1>4, <1>5, <1>6, <1>7, <1>8 DEF RunsInv, RunsTyped, NoRun
<1>10. NumbersOK'
  <2>1. used.runs \in Nat /\ used' = used
    BY <1>1 DEF RunsInv, RunsTyped, Spent, RunIds
  <2>2. QED  BY <1>2, <1>4, <1>5, <1>7, <2>1, LineTypes DEF NumbersOK
<1>11. ExitsOK' /\ HookOK'
  BY <1>2, <1>4, <1>6 DEF ExitsOK, HookOK
<1>12. QED  BY <1>8, <1>9, <1>10, <1>11 DEF RunsInv

\* The first event is taken.
LEMMA FirstEvent ==
  ASSUME RunsInv, out # <<>>, out' = Tail(out)
  PROVE  /\ Head(out) = out[1] /\ 1 \in 1..Len(out) /\ out[1] \in RunEvent
         /\ out' \in Seq(RunEvent) /\ Len(out) \in Nat /\ Len(out') = Len(out) - 1
         /\ \A i \in 1..Len(out') : i + 1 \in 1..Len(out) /\ out'[i] = out[i + 1]
<1>1. out \in Seq(RunEvent)
  BY DEF RunsInv, RunsTyped
<1>2. /\ out' \in Seq(RunEvent) /\ Len(out') = Len(out) - 1 /\ Len(out) \in Nat \ {0}
      /\ \A i \in 1..Len(out') : out'[i] = out[i + 1]
  BY <1>1, HeadTailProperties, EmptySeq
<1>3. Head(out) = out[1]
  BY <1>1
<1>4. 1 \in 1..Len(out)
  BY <1>2
<1>5. out[1] \in RunEvent
  BY <1>1, <1>4, ElementOfSeq
<1>6. \A i \in 1..Len(out') : i + 1 \in 1..Len(out)
  BY <1>2
<1>7. QED  BY <1>2, <1>3, <1>4, <1>5, <1>6

LEMMA EventTaken ==
  ASSUME RunsInv, out # <<>>, out' = Tail(out), UNCHANGED <<todo, shell, used>>,
         term'.active => term.active \/ out[1].e \in {"C", "D"},
         term'.sawC => term'.active /\ (term.sawC \/ out[1].e = "C")
  PROVE  NumbersOK' /\ ExitsOK' /\ HookOK'
<1>1. /\ 1 \in 1..Len(out)
      /\ \A i \in 1..Len(out') : i + 1 \in 1..Len(out) /\ out'[i] = out[i + 1]
  BY FirstEvent
<1>2. NumbersOK' /\ ExitsOK'
  BY <1>1 DEF RunsInv, NumbersOK, ExitsOK
<1>3. HookOK'
  BY <1>1 DEF RunsInv, HookOK
<1>4. QED  BY <1>2, <1>3

\* What the capture makes of one event.
LEMMA CapturedFacts ==
  ASSUME RunsInv, NEW ev \in RunEvent, ev.e \in {"C", "D", "M"}, NEW u, u = Captured(ev)
  PROVE  /\ u \in Terms
         /\ u.active <=> term.active \/ ev.e \in {"C", "D"}
         /\ u.sawC <=> term.sawC \/ ev.e = "C"
         /\ \/ /\ u.cap = NoCapture /\ u.done = ev.code
               /\ \/ ev.e = "D" /\ term.cap.mode = "osc" /\ (term.cap.started \/ ~term.sawC)
                  \/ ev.e = "M" /\ term.cap.mode = "mark" /\ run # NoRun /\ ev.k = run.id
            \/ /\ u.done = term.done /\ u.cap.mode = term.cap.mode
               /\ term.cap.mode = "osc" /\ ev.e = "C" /\ u.cap.started
            \/ /\ u.done = term.done /\ u.cap = term.cap
               /\ term.cap.mode = "osc" => ev.e # "C"
               /\ term.cap.mode = "osc" /\ ev.e = "D" => ~term.cap.started /\ term.sawC
<1> DEFINE a == term.active \/ ev.e \in {"C", "D"}
           s == term.sawC \/ ev.e = "C"
           t == [term EXCEPT !.active = a, !.sawC = s]
           taken == [t EXCEPT !.cap = NoCapture, !.done = ev.code]
           begun == [t EXCEPT !.cap.started = TRUE]
<1>1. term \in Terms /\ ev.code \in Codes /\ ev.k \in RunIds
  BY DEF RunsInv, RunsTyped, RunEvent
<1>2. a \in BOOLEAN /\ s \in BOOLEAN
  BY <1>1, TermTypes
<1>3. u = IF ev.e = "C" /\ t.cap.mode = "osc" THEN begun
          ELSE IF ev.e = "D" /\ t.cap.mode = "osc" /\ EndsCommand(t) THEN taken
          ELSE IF ev.e = "M" /\ t.cap.mode = "mark" /\ run # NoRun /\ ev.k = run.id THEN taken
          ELSE t
  BY DEF Captured
<1> HIDE DEF a, s
<1>4. t \in Terms /\ t.active = a /\ t.sawC = s /\ t.cap = term.cap /\ t.done = term.done
  BY <1>1, <1>2 DEF Terms
<1> HIDE DEF t
<1>5. NoCapture \in Capture
  BY DEF NoCapture, Capture
<1>6. /\ taken \in Terms /\ taken.active = a /\ taken.sawC = s
      /\ taken.cap = NoCapture /\ taken.done = ev.code
  BY <1>1, <1>4, <1>5 DEF Terms
<1>7. /\ begun \in Terms /\ begun.active = a /\ begun.sawC = s
      /\ begun.cap.mode = term.cap.mode /\ begun.cap.started /\ begun.done = term.done
  <2> DEFINE yes == TRUE
             c == [t.cap EXCEPT !.started = yes]
  <2>1. yes \in BOOLEAN /\ yes
    OBVIOUS
  <2>2. begun = [t EXCEPT !.cap = c]
    BY <1>4 DEF Terms
  <2> HIDE DEF yes
  <2>3. c \in Capture /\ c.started /\ c.mode = term.cap.mode
    BY <1>4, <2>1, TermTypes DEF Capture
  <2> HIDE DEF c, begun
  <2>4. QED  BY <1>4, <2>2, <2>3 DEF Terms
<1> HIDE DEF taken, begun
<1>8. a <=> (term.active \/ ev.e \in {"C", "D"})
  BY DEF a
<1>9. s <=> (term.sawC \/ ev.e = "C")
  BY DEF s
<1>10. CASE ev.e = "C" /\ term.cap.mode = "osc"
  BY <1>3, <1>4, <1>7, <1>8, <1>9, <1>10
<1>11. CASE ev.e = "D" /\ term.cap.mode = "osc" /\ EndsCommand(t)
  BY <1>3, <1>4, <1>6, <1>8, <1>9, <1>11 DEF EndsCommand
<1>12. CASE ev.e = "M" /\ term.cap.mode = "mark" /\ run # NoRun /\ ev.k = run.id
  BY <1>3, <1>4, <1>6, <1>8, <1>9, <1>12
<1>13. CASE /\ ~(ev.e = "C" /\ term.cap.mode = "osc")
            /\ ~(ev.e = "D" /\ term.cap.mode = "osc" /\ EndsCommand(t))
            /\ ~(ev.e = "M" /\ term.cap.mode = "mark" /\ run # NoRun /\ ev.k = run.id)
  <2>1. u = t
    BY <1>3, <1>4, <1>13
  <2>2. term.cap.mode = "osc" /\ ev.e = "D" => ~term.cap.started /\ term.sawC
    BY <1>4, <1>9, <1>13 DEF EndsCommand
  <2>3. QED  BY <1>4, <1>8, <1>9, <1>13, <2>1, <2>2
<1>14. QED  BY <1>10, <1>11, <1>12, <1>13

\* The end of a line that the capture of a clean run takes is its command's,
\* and until then the capture waits for nothing else.
LEMMA CleanTaken ==
  ASSUME RunsInv, out # <<>>, out' = Tail(out), run' = run, run # NoRun, run.clean,
         UNCHANGED <<todo, shell>>, out[1].e \in {"C", "D", "M"}, term' = Captured(out[1])
  PROVE  /\ term'.done \in {NoCode, run.id}
         /\ term'.cap.mode = "mark" => MarkOK(run.id)'
         /\ term'.cap.mode = "osc" => OscOK(run.id)'
<1>1. /\ 1 \in 1..Len(out) /\ out[1] \in RunEvent /\ Len(out) \in Nat
      /\ \A i \in 1..Len(out') : i + 1 \in 1..Len(out) /\ out'[i] = out[i + 1]
  BY FirstEvent
<1>2. PICK k : k = run.id
  OBVIOUS
<1>3. PICK ev \in RunEvent : ev = out[1]
  BY <1>1
<1>4. /\ term'.active <=> term.active \/ ev.e \in {"C", "D"}
      /\ term'.sawC <=> term.sawC \/ ev.e = "C"
      /\ \/ /\ term'.cap = NoCapture /\ term'.done = ev.code
            /\ \/ ev.e = "D" /\ term.cap.mode = "osc" /\ (term.cap.started \/ ~term.sawC)
               \/ ev.e = "M" /\ term.cap.mode = "mark" /\ run # NoRun /\ ev.k = run.id
         \/ /\ term'.done = term.done /\ term'.cap.mode = term.cap.mode
            /\ term.cap.mode = "osc" /\ ev.e = "C" /\ term'.cap.started
         \/ /\ term'.done = term.done /\ term'.cap = term.cap
            /\ term.cap.mode = "osc" => ev.e # "C"
            /\ term.cap.mode = "osc" /\ ev.e = "D" => ~term.cap.started /\ term.sawC
  BY <1>3, CapturedFacts
<1>5. /\ term.done \in {NoCode, k}
      /\ term.cap.mode = "mark" => MarkOK(k)
      /\ term.cap.mode = "osc" => OscOK(k)
  BY <1>2 DEF RunsInv, CleanOK
<1>6. NoCapture.mode = "none"
  BY DEF NoCapture
<1>7. CASE term'.cap = NoCapture /\ term'.done = ev.code
  <2>1. CASE ev.e = "D" /\ term.cap.mode = "osc" /\ (term.cap.started \/ ~term.sawC)
    <3>1. EndsOf(k) /\ BegunBy(1)
      BY <1>5, <2>1 DEF OscOK, BegunBy
    <3>2. ev.code = k
      BY <1>1, <1>3, <2>1, <3>1 DEF EndsOf
    <3>3. QED  BY <1>2, <1>6, <1>7, <3>2
  <2>2. CASE ev.e = "M" /\ term.cap.mode = "mark" /\ run # NoRun /\ ev.k = run.id
    <3>1. ev.code = k
      BY <1>1, <1>2, <1>3, <1>5, <2>2 DEF MarkOK
    <3>2. QED  BY <1>2, <1>6, <1>7, <3>1
  <2>3. CASE term'.done = term.done
    BY <1>2, <1>5, <1>6, <1>7, <2>3
  <2>4. QED  BY <1>4, <2>1, <2>2, <2>3
<1>8. CASE /\ term'.done = term.done /\ term'.cap.mode = term.cap.mode
           /\ term.cap.mode = "osc" /\ ev.e = "C" /\ term'.cap.started
  <2>1. Begun /\ OscOK(k)
    BY <1>1, <1>3, <1>5, <1>8 DEF Begun
  <2>2. EndsOf(k)'
    <3>1. \A j \in 1..Len(out') : BegunBy(j + 1)
      <4> TAKE j \in 1..Len(out')
      <4>1. 1 \in 1..((j + 1) - 1)
        BY <1>1
      <4>2. QED  BY <1>3, <1>8, <4>1 DEF BegunBy
    <3>2. QED  BY <1>1, <2>1, <3>1 DEF OscOK, EndsOf
  <2>3. OscOK(k)'
    BY <1>4, <1>8, <2>1, <2>2, Rigid DEF OscOK
  <2>4. QED  BY <1>2, <1>5, <1>8, <2>3
<1>9. CASE /\ term'.done = term.done /\ term'.cap = term.cap
           /\ term.cap.mode = "osc" => ev.e # "C"
  <2>1. ASSUME term.cap.mode = "mark"  PROVE MarkOK(k)'
    <3>1. MarkOK(k)
      BY <1>5, <2>1
    <3>2. QED  BY <1>1, <3>1, Rigid DEF MarkOK, AtMark
  <2>2. ASSUME term.cap.mode = "osc"  PROVE OscOK(k)'
    <3>1. OscOK(k) /\ ev.e # "C" /\ (term'.sawC <=> term.sawC)
      BY <1>4, <1>5, <1>9, <2>2
    <3>2. Begun' => Begun
      BY <1>1, <1>9 DEF Begun
    <3>3. \A j \in 1..Len(out') : BegunBy(j)' => BegunBy(j + 1)
      <4> TAKE j \in 1..Len(out')
      <4>1. \A i \in 1..(j - 1) : /\ i \in 1..Len(out') /\ i + 1 \in 1..((j + 1) - 1)
                                  /\ out'[i] = out[i + 1]
        BY <1>1
      <4>2. QED  BY <1>9, <3>1, <4>1 DEF BegunBy
    <3>4. EndsOf(k)'
      BY <1>1, <3>1, <3>3 DEF OscOK, EndsOf
    <3>5. QED  BY <1>4, <3>1, <3>2, <3>4, Rigid DEF OscOK
  <2>3. QED  BY <1>2, <1>5, <1>9, <2>1, <2>2
<1>10. QED  BY <1>4, <1>7, <1>8, <1>9

LEMMA TakeOutput ==
  ASSUME RunsInv, out # <<>>, out' = Tail(out), out[1].e \in {"C", "D", "M"},
         term' = Captured(out[1]),
         known' = IF term'.done # NoCode /\ run # NoRun THEN known \union {run.id} ELSE known,
         UNCHANGED <<phase, run, line, todo, shell, fate, told, used>>
  PROVE  RunsInv'
<1>1. PICK ev \in RunEvent : ev = out[1]
  BY FirstEvent
<1>2. PICK u : u = term'
  OBVIOUS
<1>3. u = Captured(ev) /\ ev.e \in {"C", "D", "M"}
  BY <1>1, <1>2
<1>4. /\ u \in Terms
      /\ u.active <=> term.active \/ ev.e \in {"C", "D"}
      /\ u.sawC <=> term.sawC \/ ev.e = "C"
      /\ \/ /\ u.cap = NoCapture /\ u.done = ev.code
            /\ \/ ev.e = "D" /\ term.cap.mode = "osc"
               \/ ev.e = "M" /\ term.cap.mode = "mark"
         \/ /\ u.done = term.done /\ u.cap.mode = term.cap.mode
            /\ term.cap.mode = "osc"
         \/ u.done = term.done /\ u.cap = term.cap
  BY <1>3, CapturedFacts
<1>5. NoRun' = NoRun /\ NoCapture' = NoCapture /\ NoCapture.mode = "none"
  BY DEF NoRun, NoCapture
<1>6. /\ run = NoRun => term.cap = NoCapture /\ term.done = NoCode
      /\ term.done # NoCode => term.cap = NoCapture
      /\ term.cap.mode = "none" => term.cap = NoCapture
      /\ run # NoRun /\ run.result # NoCode => term.cap = NoCapture /\ term.done = NoCode
  BY DEF RunsInv, CaptureOK
<1>7. term.cap.mode \in {"osc", "mark"} => term.done = NoCode
  BY <1>5, <1>6
<1>8. CaptureOK'
  BY <1>2, <1>4, <1>5, <1>6, <1>7 DEF CaptureOK
<1>9. NumbersOK' /\ ExitsOK' /\ HookOK'
  <2>1. u.sawC => u.active
    BY <1>4 DEF RunsInv, HookOK
  <2>2. QED  BY <1>1, <1>2, <1>4, <2>1, EventTaken
<1>10. RunsTyped'
  <2>1. known' \subseteq Runs
    BY RunTypes DEF RunsInv, RunsTyped
  <2>2. out' \in Seq(RunEvent)
    BY FirstEvent
  <2>3. QED  BY <1>2, <1>4, <1>5, <2>1, <2>2 DEF RunsInv, RunsTyped
<1>11. GateOK'
  <2>1. used.runs \in Nat
    BY DEF RunsInv, RunsTyped, Spent, RunIds
  <2>2. QED  BY <1>5, <2>1 DEF RunsInv, GateOK
<1>12. KnownOK'
  <2> SUFFICES ASSUME run # NoRun, run.id \in known'
               PROVE  run.result # NoCode \/ term'.done # NoCode
    BY <1>5 DEF KnownOK, InHand
  <2>1. CASE run.id \in known
    <3>1. run.result # NoCode \/ term.done # NoCode
      BY <2>1 DEF RunsInv, KnownOK, InHand
    <3>2. term.done # NoCode => u.done = term.done
      BY <1>4, <1>5, <1>6
    <3>3. QED  BY <1>2, <3>1, <3>2
  <2>2. CASE run.id \notin known
    BY <2>2
  <2>3. QED  BY <2>1, <2>2
<1>13. FinishedExact'
  BY DEF RunsInv, FinishedExact
<1>14. LossNamed'
  BY <1>5 DEF RunsInv, LossNamed
<1>15. CleanOK'
  <2> SUFFICES ASSUME run # NoRun, run.clean
               PROVE  /\ term'.done \in {NoCode, run.id}
                      /\ term'.cap.mode = "mark" => MarkOK(run.id)'
                      /\ term'.cap.mode = "osc" => OscOK(run.id)'
    BY <1>5 DEF RunsInv, CleanOK
  <2>1. QED  BY CleanTaken
<1>16. QED  BY <1>8, <1>9, <1>10, <1>11, <1>12, <1>13, <1>14, <1>15 DEF RunsInv

LEMMA TakeExit ==
  ASSUME RunsInv, out # <<>>, out' = Tail(out), out[1].e = "exit",
         FinishWithExitCode(out[1].code),
         UNCHANGED <<phase, line, todo, shell, known, used>>
  PROVE  RunsInv'
<1>1. out[1].code = Exit /\ Exit \in Codes
  BY FirstEvent, RunNumbers DEF RunsInv, ExitsOK
<1>2. out' \in Seq(RunEvent)
  BY FirstEvent
<1>3. CASE run = NoRun
  <2>1. UNCHANGED <<run, term, fate, told>> /\ run' = NoRun' /\ NoCapture' = NoCapture
    BY <1>3 DEF FinishWithExitCode, NoRun, NoCapture
  <2>2. NumbersOK' /\ ExitsOK' /\ HookOK'
    <3>1. term.sawC => term.active
      BY DEF RunsInv, HookOK
    <3>2. QED  BY <2>1, <3>1, EventTaken
  <2>3. RunsTyped'
    BY <1>2, <1>3, <2>1 DEF RunsInv, RunsTyped
  <2>4. GateOK' /\ CaptureOK' /\ FinishedExact' /\ LossNamed'
    BY <1>3, <2>1 DEF RunsInv, GateOK, CaptureOK, FinishedExact, LossNamed
  <2>5. CleanOK' /\ KnownOK'
    BY <2>1 DEF CleanOK, KnownOK
  <2>6. QED  BY <2>2, <2>3, <2>4, <2>5 DEF RunsInv
<1>4. CASE run # NoRun
  <2>1. /\ term' = NoCaptureIn(term)
        /\ IF run.waiter # "none" THEN Deliver(run, Exit)
           ELSE run' = [run EXCEPT !.result = Exit] /\ UNCHANGED <<fate, told>>
    BY <1>1, <1>4 DEF FinishWithExitCode
  <2>2. /\ term' \in Terms /\ term'.cap = NoCapture /\ term'.done = NoCode
        /\ term'.active = term.active /\ term'.sawC = term.sawC
    BY <2>1, ClearedTerm
  <2>3. PICK code \in Codes : code = Exit
    BY <1>1
  <2>4. /\ fate' \in [Runs -> Fates] /\ told' \in [Runs -> {NoCode} \cup Codes]
        /\ run' = NoRun \/ run' \in RunType
        /\ GateOK' /\ CaptureOK' /\ CleanOK' /\ KnownOK' /\ FinishedExact' /\ LossNamed'
    BY <1>4, <2>1, <2>2, <2>3, CodeKeeps
  <2>5. NumbersOK' /\ ExitsOK' /\ HookOK'
    <3>1. term.sawC => term.active
      BY DEF RunsInv, HookOK
    <3>2. QED  BY <2>2, <3>1, EventTaken
  <2>6. RunsTyped'
    BY <1>2, <2>2, <2>4 DEF RunsInv, RunsTyped, NoRun
  <2>7. QED  BY <2>4, <2>5, <2>6 DEF RunsInv
<1>5. QED  BY <1>3, <1>4

LEMMA TakeLost ==
  ASSUME RunsInv, out # <<>>, out' = Tail(out), CancelRun, line' \in Lines,
         UNCHANGED <<phase, todo, shell, known, used>>
  PROVE  RunsInv'
<1>1. /\ term' = NoCaptureIn(term) /\ UNCHANGED told
      /\ IF run = NoRun \/ run.result # NoCode THEN UNCHANGED <<run, fate>>
         ELSE run' = NoRun /\ fate' = [fate EXCEPT ![run.id] = "offline"]
  BY DEF CancelRun, EndRun
<1>2. /\ term' \in Terms /\ term'.cap = NoCapture /\ term'.done = NoCode
      /\ term'.active = term.active /\ term'.sawC = term.sawC
  BY <1>1, ClearedTerm
<1>3. out' \in Seq(RunEvent)
  BY FirstEvent
<1>4. NumbersOK' /\ ExitsOK' /\ HookOK'
  <2>1. term.sawC => term.active
    BY DEF RunsInv, HookOK
  <2>2. QED  BY <1>2, <2>1, EventTaken
<1>5. NoRun' = NoRun /\ NoCapture' = NoCapture /\ NoCapture.mode = "none"
  BY DEF NoRun, NoCapture
<1>6. /\ fate' \in [Runs -> Fates] /\ told' \in [Runs -> {NoCode} \cup Codes]
      /\ run' = NoRun \/ run' \in RunType
      /\ GateOK' /\ CaptureOK' /\ CleanOK' /\ KnownOK' /\ FinishedExact' /\ LossNamed'
  <2>1. CASE run = NoRun \/ run.result # NoCode
    <3>1. UNCHANGED <<run, fate, told>>
      BY <1>1, <2>1
    <3>2. /\ fate' \in [Runs -> Fates] /\ told' \in [Runs -> {NoCode} \cup Codes]
          /\ run' = NoRun \/ run' \in RunType
      BY <3>1 DEF RunsInv, RunsTyped
    <3>3. GateOK' /\ FinishedExact' /\ LossNamed'
      BY <1>5, <3>1 DEF RunsInv, GateOK, FinishedExact, LossNamed
    <3>4. CaptureOK'
      BY <1>2, <1>5 DEF CaptureOK
    <3>5. KnownOK'
      BY <1>5, <2>1, <3>1 DEF KnownOK, InHand
    <3>6. CleanOK'
      BY <1>2, <1>5, <3>1 DEF RunsInv, CleanOK
    <3>7. QED  BY <3>2, <3>3, <3>4, <3>5, <3>6
  <2>2. CASE ~(run = NoRun \/ run.result # NoCode)
    <3>1. "offline" \in Fates \ {"open"} /\ "offline" \in Named
      BY DEF Fates, Named
    <3>2. QED  BY <1>1, <1>2, <2>2, <3>1, EndKeeps
  <2>3. QED  BY <2>1, <2>2
<1>7. RunsTyped'
  BY <1>2, <1>3, <1>6 DEF RunsInv, RunsTyped, NoRun
<1>8. QED  BY <1>4, <1>6, <1>7 DEF RunsInv

LEMMA TakeEventStep ==
  ASSUME RunsInv, TakeEvent
  PROVE  RunsInv'
<1>1. /\ out # <<>> /\ out' = Tail(out) /\ UNCHANGED <<phase, todo, shell, used>>
  BY DEF TakeEvent
<1>2. Head(out) = out[1] /\ out[1] \in RunEvent
  BY <1>1, FirstEvent
<1>3. line \in Lines
  BY DEF RunsInv, RunsTyped
<1>4. PICK ev : ev = out[1]
  OBVIOUS
<1>5. CASE /\ ev.e \in {"C", "D", "M"} /\ term' = Captured(ev)
           /\ known' = IF term'.done # NoCode /\ run # NoRun
                       THEN known \union {run.id} ELSE known
           /\ UNCHANGED <<run, line, fate, told>>
  BY <1>1, <1>4, <1>5, TakeOutput
<1>6. CASE ev.e = "exit" /\ FinishWithExitCode(ev.code) /\ UNCHANGED <<line, known>>
  BY <1>1, <1>4, <1>6, TakeExit
<1>7. CASE /\ ev.e = "lost" /\ CancelRun /\ line' = [line EXCEPT !.connected = FALSE]
           /\ UNCHANGED known
  <2>1. line' \in Lines
    BY <1>3, <1>7 DEF Lines
  <2>2. QED  BY <1>1, <1>7, <2>1, TakeLost
<1>8. CASE /\ ev.e = "up" /\ line' = [line EXCEPT !.connected = TRUE]
           /\ UNCHANGED <<run, term, fate, told, known>>
  <2>1. line' \in Lines
    BY <1>3, <1>8 DEF Lines
  <2>2. out' \in Seq(RunEvent)
    BY <1>1, FirstEvent
  <2>3. NumbersOK' /\ ExitsOK' /\ HookOK'
    <3>1. term.sawC => term.active
      BY DEF RunsInv, HookOK
    <3>2. QED  BY <1>1, <1>8, <3>1, EventTaken
  <2>4. RunsTyped'
    BY <1>1, <1>8, <2>1, <2>2 DEF RunsInv, RunsTyped, NoRun
  <2>5. GateOK' /\ CaptureOK' /\ KnownOK' /\ FinishedExact' /\ LossNamed'
    BY <1>1, <1>8 DEF RunsInv, GateOK, CaptureOK, KnownOK, InHand, FinishedExact,
       LossNamed, NoRun, NoCapture
  <2>6. CleanOK'
    <3> SUFFICES ASSUME run # NoRun, run.clean
                 PROVE  /\ term.cap.mode = "mark" => MarkOK(run.id)'
                        /\ term.cap.mode = "osc" => OscOK(run.id)'
      BY <1>8 DEF RunsInv, CleanOK, NoRun
    <3>1. PICK k : k = run.id
      OBVIOUS
    <3>2. /\ Len(out) \in Nat /\ out[1].e = "up" /\ 1 \in 1..Len(out)
          /\ \A i \in 1..Len(out') : i + 1 \in 1..Len(out) /\ out'[i] = out[i + 1]
      BY <1>1, <1>4, <1>8, FirstEvent
    <3>3. term.cap.mode = "mark" => MarkOK(k)'
      BY <1>1, <1>8, <3>1, <3>2, Rigid DEF RunsInv, CleanOK, MarkOK, AtMark
    <3>4. ASSUME term.cap.mode = "osc"  PROVE OscOK(k)'
      <4>1. OscOK(k)
        BY <3>1, <3>4 DEF RunsInv, CleanOK
      <4>2. Begun' => Begun
        BY <1>8, <3>2 DEF Begun
      <4>3. \A j \in 1..Len(out') : BegunBy(j)' => BegunBy(j + 1)
        <5> TAKE j \in 1..Len(out')
        <5>1. \A i \in 1..(j - 1) : /\ i \in 1..Len(out') /\ i + 1 \in 1..((j + 1) - 1)
                                    /\ out'[i] = out[i + 1]
          BY <3>2
        <5>2. QED  BY <1>8, <5>1 DEF BegunBy
      <4>4. EndsOf(k)'
        BY <3>2, <4>1, <4>3 DEF OscOK, EndsOf
      <4>5. QED  BY <1>1, <1>8, <4>1, <4>2, <4>4, Rigid DEF OscOK
    <3>5. QED  BY <1>8, <3>1, <3>3, <3>4
  <2>7. QED  BY <2>3, <2>4, <2>5, <2>6 DEF RunsInv
<1>9. ev.e \in {"C", "D", "M"} \/ ev.e = "exit" \/ ev.e = "lost" \/ ev.e = "up"
  BY <1>2, <1>4 DEF RunEvent
<1>10. QED  BY <1>2, <1>4, <1>5, <1>6, <1>7, <1>8, <1>9 DEF TakeEvent

-----------------------------------------------------------------------------
(* The invariant and what follows from it                                   *)

LEMMA RunsInitInv ==
  ASSUME RunsInit
  PROVE  RunsInv
<1> DEFINE t == TRUE
           f == FALSE
<1>1. t \in BOOLEAN /\ f \in BOOLEAN
  OBVIOUS
<1>2. /\ phase = "calls" /\ run = NoRun /\ term = FreshTerm
      /\ line = [connected |-> t, open |-> t, typed |-> f]
      /\ todo = <<>> /\ out = <<>> /\ known = {}
      /\ fate = [k \in Runs |-> "open"] /\ told = [k \in Runs |-> NoCode]
      /\ used = [runs |-> 0, calls |-> 0, drops |-> 0]
  BY DEF RunsInit
<1> HIDE DEF t, f
<1>3. PICK hasC \in BOOLEAN : shell = FreshShell(hasC)
  BY DEF RunsInit
<1>4. shell \in Shells /\ shell.fg = NoLine
  BY <1>3, FreshShellTypes
<1>5. /\ term \in Terms /\ term.cap = NoCapture /\ term.done = NoCode
      /\ ~term.active /\ ~term.sawC
  BY <1>2, FreshTermTypes
<1>6. used \in Spent /\ used.runs = 0
  BY <1>2, RunNumbers DEF Spent
<1>7. line \in Lines
  BY <1>1, <1>2 DEF Lines
<1>8. "open" \in Fates /\ NoRun.id = 0
  BY DEF Fates, NoRun
<1>9. RunsTyped
  BY <1>2, <1>4, <1>5, <1>6, <1>7, <1>8 DEF RunsTyped
<1>10. GateOK
  <2>1. \A k \in Runs : fate[k] = "open" /\ k > 0
    BY <1>2 DEF Runs
  <2>2. QED  BY <1>2, <1>6, <2>1 DEF GateOK
<1>11. NumbersOK /\ ExitsOK /\ HookOK
  BY <1>2, <1>4, <1>5, <1>6, LineTypes DEF NumbersOK, ExitsOK, HookOK
<1>12. CaptureOK /\ CleanOK /\ KnownOK
  BY <1>2, <1>5 DEF CaptureOK, CleanOK, KnownOK
<1>13. FinishedExact /\ LossNamed
  BY <1>2 DEF FinishedExact, LossNamed
<1>14. QED  BY <1>9, <1>10, <1>11, <1>12, <1>13 DEF RunsInv

LEMMA RunsNextInv ==
  ASSUME RunsInv, [RunsNext]_runsVars
  PROVE  RunsInv'
<1>1. CASE ShellTakes  BY <1>1, ShellTakesStep
<1>2. CASE ShellEnds  BY <1>2, ShellEndsStep
<1>3. CASE ProgramSwallows  BY <1>3, ProgramSwallowsStep
<1>4. CASE InterruptArrives  BY <1>4, InterruptArrivesStep
<1>5. CASE WorkerEnds  BY <1>5, WorkerEndsStep
<1>6. CASE RunCommand  BY <1>6, RunCommandStep
<1>7. CASE PollRun  BY <1>7, PollRunStep
<1>8. CASE Interrupt  BY <1>8, InterruptStep
<1>9. CASE SendInput  BY <1>9, SendInputStep
<1>10. CASE CallerGoes  BY <1>10, CallerGoesStep
<1>11. CASE DrainRuns
  BY <1>11, ReclaimStep, TakeResultStep, PatienceEndsStep, NothingDueStep DEF DrainRuns
<1>12. CASE TakeEvent  BY <1>12, TakeEventStep
<1>13. CASE EndFrame  BY <1>13, EndFrameStep
<1>14. CASE Reconnect  BY <1>14, ReconnectStep
<1>15. CASE UNCHANGED runsVars
  <2>1. /\ UNCHANGED <<run, term, todo, shell, out, fate, told, known, used>>
        /\ phase' \in {"calls", "events"} /\ line' \in Lines
    BY <1>15 DEF runsVars, RunsInv, RunsTyped
  <2>2. QED  BY <2>1, StandsStill
<1>16. QED
  BY <1>1, <1>2, <1>3, <1>4, <1>5, <1>6, <1>7, <1>8, <1>9, <1>10, <1>11, <1>12,
     <1>13, <1>14, <1>15 DEF RunsNext

LEMMA RunsInvariant == RunsSpec => []RunsInv
<1>1. RunsInit => RunsInv
  BY RunsInitInv
<1>2. RunsInv /\ [RunsNext]_runsVars => RunsInv'
  BY RunsNextInv
<1>3. QED  BY <1>1, <1>2, PTL DEF RunsSpec

\* The session, the capture, the shell's flags and the fates are well typed, and
\* a run that was accepted is the one pending or its tracking has ended: the gate
\* (pending_ai_run) never lets a second run displace the first.
THEOREM RunsTypeCorrect == RunsSpec => []RunsTypeOK
<1>1. ASSUME RunsInv
      PROVE  RunsTypeOK
  <2>1. /\ phase \in {"calls", "events"} /\ (run = NoRun \/ run \in RunType)
        /\ term \in Terms /\ fate \in [Runs -> Fates] /\ known \subseteq Runs
        /\ used \in Spent
    BY <1>1 DEF RunsInv, RunsTyped
  <2>2. term \in [cap : [mode : {"none", "osc", "mark"}, started : BOOLEAN],
                  done : {NoCode} \union Codes, active : BOOLEAN, sawC : BOOLEAN]
    BY <2>1 DEF Terms, Capture
  <2>3. ASSUME NEW k \in 1..used.runs
        PROVE  (fate[k] = "open") <=> (run.id = k)
    <3>1. used.runs \in RunIds
      BY <2>1 DEF Spent
    <3>2. k \in Runs /\ ~(k > used.runs)
      BY <3>1, RunNumbers DEF RunIds, Runs
    <3>3. QED  BY <1>1, <3>2 DEF RunsInv, GateOK
  <2>4. QED  BY <2>1, <2>2, <2>3 DEF RunsTypeOK
<1>2. QED  BY <1>1, RunsInvariant, PTL

\* A caller that let the shell settle and typed nothing else is told the status
\* of its own command or of the shell's end: the capture (capture_progress of
\* feed.rs) takes no end of a blank line, of a line that ended late or of a run
\* that was interrupted for the end of this one.
THEOREM ToldOnlyItsOwnCode == RunsSpec => []FinishedExact
<1>1. RunsInv => FinishedExact
  BY DEF RunsInv
<1>2. QED  BY <1>1, RunsInvariant, PTL

\* A code the terminal has found is told or waits for poll_run, or its loss has
\* one of four names; reclaiming the gate (run_is_abandoned) and a wait that is
\* over (drain_mcp_calls) are not among them.
THEOREM LossesAreNamed == RunsSpec => []LossNamed
<1>1. RunsInv => LossNamed
  BY DEF RunsInv
<1>2. QED  BY <1>1, RunsInvariant, PTL

\* What became of a run that has ended, and what its caller was told, stand.
RunEndsOnce ==
    \A k \in Runs : fate[k] # "open" => fate'[k] = fate[k] /\ told'[k] = told[k]

\* A run ends once: what became of it and the code its caller was told are never
\* written again, by no later answer, end of the shell, interrupt, reclaiming or
\* new connection (the run that is taken out of pending_ai_run is gone).
THEOREM EndsOnce == RunsSpec => [][RunEndsOnce]_runsVars
<1>1. ASSUME RunsInv, RunsNext
      PROVE  RunEndsOnce
  <2>1. /\ run # NoRun => run.id \in Runs /\ fate[run.id] = "open"
        /\ fate \in [Runs -> Fates]
        /\ told \in [Runs -> {NoCode} \cup Codes]
    BY <1>1, RunTypes DEF RunsInv, RunsTyped, GateOK
  <2>2. ASSUME UNCHANGED <<fate, told>>
        PROVE  RunEndsOnce
    BY <2>2 DEF RunEndsOnce
  <2>3. ASSUME NEW code, run # NoRun, Deliver(run, code)
        PROVE  RunEndsOnce
    BY <2>1, <2>3 DEF Deliver, RunEndsOnce
  <2>4. ASSUME NEW keep, NEW why, EndRun(keep, why)
        PROVE  RunEndsOnce
    BY <2>1, <2>4 DEF EndRun, RunEndsOnce
  <2>5. CASE ShellTakes \/ ShellEnds \/ ProgramSwallows \/ InterruptArrives
    BY <2>2, <2>5 DEF ShellTakes, ShellEnds, ProgramSwallows, InterruptArrives
  <2>6. CASE WorkerEnds \/ RunCommand \/ PollRun \/ SendInput \/ CallerGoes \/ EndFrame
    BY <2>2, <2>6 DEF WorkerEnds, RunCommand, PollRun, SendInput, CallerGoes, EndFrame
  <2>7. CASE Interrupt
    BY <2>4, <2>7 DEF Interrupt, Discard
  <2>8. CASE DrainRuns
    <3>1. CASE Reclaim
      BY <2>4, <3>1 DEF Reclaim, Discard
    <3>2. CASE TakeResult
      BY <2>2, <2>3, <3>2 DEF TakeResult
    <3>3. CASE PatienceEnds \/ NothingDue
      BY <2>2, <3>3 DEF PatienceEnds, NothingDue
    <3>4. QED  BY <2>8, <3>1, <3>2, <3>3 DEF DrainRuns, Drains
  <2>9. CASE TakeEvent
    <3> DEFINE ev == Head(out)
    <3>1. CASE ev.e \in {"C", "D", "M"}
      BY <2>2, <2>9, <3>1 DEF TakeEvent
    <3>2. CASE ev.e = "exit"
      <4>1. FinishWithExitCode(ev.code)
        BY <2>9, <3>2 DEF TakeEvent
      <4>2. QED  BY <2>2, <2>3, <4>1 DEF FinishWithExitCode
    <3>3. CASE ev.e = "lost"
      <4>1. EndRun(TRUE, "offline")
        BY <2>9, <3>3 DEF TakeEvent, CancelRun
      <4>2. QED  BY <2>4, <4>1
    <3>4. CASE ev.e = "up"
      BY <2>2, <2>9, <3>4 DEF TakeEvent
    <3>5. out # <<>> /\ out \in Seq(RunEvent)
      BY <1>1, <2>9 DEF TakeEvent, RunsInv, RunsTyped
    <3>6. ev \in RunEvent
      BY <3>5
    <3>7. QED  BY <3>1, <3>2, <3>3, <3>4, <3>6 DEF RunEvent
  <2>10. CASE Reconnect
    BY <2>1, <2>10 DEF Reconnect, RunEndsOnce
  <2>11. QED
    BY <1>1, <2>5, <2>6, <2>7, <2>8, <2>9, <2>10 DEF RunsNext
<1>2. RunsInv /\ [RunsNext]_runsVars => [RunEndsOnce]_runsVars
  BY <1>1
<1>3. QED  BY <1>2, RunsInvariant, PTL DEF RunsSpec
=============================================================================
