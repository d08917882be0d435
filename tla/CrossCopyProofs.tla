---------------------------- MODULE CrossCopyProofs ----------------------------
(***************************************************************************)
(* Proofs about CrossCopy, for every number of copies and of sessions.     *)
(*                                                                         *)
(* The inductive invariant is a conjunction over the copies.  Its parts    *)
(* are operators on the records of one copy (r the job, t the tasks, ev    *)
(* the events that wait, f the file, k the key, v revoked, fl the faults,  *)
(* ws and wd the two workers, cd the connection of the destination, x      *)
(* whether the program has exited), so that one frame can be followed      *)
(* through the stages of Advance, where the job is an intermediate value.  *)
(***************************************************************************)
EXTENDS CrossCopy, Integers, TLAPS

Has(q, m) == \E i \in DOMAIN q : q[i] = m
Once(q, m) == \A i, j \in DOMAIN q : q[i] = m /\ q[j] = m => i = j
OnlyLast(q, m) == \A i \in DOMAIN q : q[i] = m => i = Len(q)

Early == {"none", "trusting", "direct", "untrusting"}
Idle  == {"none", "done"}

(* Commands in a queue: what appending one and taking the first one does. *)
LEMMA HasAppend ==
  ASSUME NEW S, NEW q \in Seq(S), NEW e \in S, NEW m
  PROVE  Has(Append(q, e), m) <=> Has(q, m) \/ e = m
<1>1. /\ DOMAIN q = 1..Len(q) /\ Len(q) \in Nat
      /\ DOMAIN Append(q, e) = 1..(Len(q) + 1)
      /\ \A i \in 1..Len(q) : Append(q, e)[i] = q[i]
      /\ Append(q, e)[Len(q) + 1] = e
  OBVIOUS
<1>2. ASSUME Has(q, m) PROVE Has(Append(q, e), m)
  <2>1. PICK i \in 1..Len(q) : q[i] = m
    BY <1>1, <1>2 DEF Has
  <2>2. i \in 1..(Len(q) + 1) /\ Append(q, e)[i] = m
    BY <1>1, <2>1
  <2>3. QED  BY <1>1, <2>2 DEF Has
<1>3. ASSUME e = m PROVE Has(Append(q, e), m)
  <2>1. Len(q) + 1 \in 1..(Len(q) + 1)
    BY <1>1
  <2>2. QED  BY <1>1, <1>3, <2>1 DEF Has
<1>4. ASSUME Has(Append(q, e), m), e # m PROVE Has(q, m)
  <2>1. PICK i \in 1..(Len(q) + 1) : Append(q, e)[i] = m
    BY <1>1, <1>4 DEF Has
  <2>2. i \in 1..Len(q)
    BY <1>1, <1>4, <2>1
  <2>3. QED  BY <1>1, <2>1, <2>2 DEF Has
<1>5. QED  BY <1>2, <1>3, <1>4

LEMMA HasTail ==
  ASSUME NEW S, NEW q \in Seq(S), q # <<>>, NEW m
  PROVE  Has(q, m) <=> Head(q) = m \/ Has(Tail(q), m)
<1>1. /\ DOMAIN q = 1..Len(q) /\ Len(q) \in Nat \ {0}
      /\ DOMAIN Tail(q) = 1..(Len(q) - 1)
      /\ \A i \in 1..(Len(q) - 1) : Tail(q)[i] = q[i + 1]
      /\ Head(q) = q[1]
  OBVIOUS
<1>2. ASSUME Has(q, m), Head(q) # m PROVE Has(Tail(q), m)
  <2>1. PICK i \in 1..Len(q) : q[i] = m
    BY <1>1, <1>2 DEF Has
  <2>2. i - 1 \in 1..(Len(q) - 1) /\ (i - 1) + 1 = i
    BY <1>1, <1>2, <2>1
  <2>3. Tail(q)[i - 1] = m
    BY <1>1, <2>1, <2>2
  <2>4. QED  BY <1>1, <2>2, <2>3 DEF Has
<1>3. ASSUME Has(Tail(q), m) PROVE Has(q, m)
  <2>1. PICK i \in 1..(Len(q) - 1) : Tail(q)[i] = m
    BY <1>1, <1>3 DEF Has
  <2>2. i + 1 \in 1..Len(q) /\ q[i + 1] = m
    BY <1>1, <2>1
  <2>3. QED  BY <1>1, <2>2 DEF Has
<1>4. ASSUME Head(q) = m PROVE Has(q, m)
  <2>1. 1 \in 1..Len(q)
    BY <1>1
  <2>2. QED  BY <1>1, <1>4, <2>1 DEF Has
<1>5. QED  BY <1>2, <1>3, <1>4

LEMMA OnceAppend ==
  ASSUME NEW S, NEW q \in Seq(S), NEW e \in S, NEW m, Once(q, m),
         e # m \/ ~Has(q, m)
  PROVE  Once(Append(q, e), m)
<1>1. /\ DOMAIN q = 1..Len(q) /\ Len(q) \in Nat
      /\ DOMAIN Append(q, e) = 1..(Len(q) + 1)
      /\ \A i \in 1..Len(q) : Append(q, e)[i] = q[i]
      /\ Append(q, e)[Len(q) + 1] = e
  OBVIOUS
<1>2. SUFFICES ASSUME NEW i \in 1..(Len(q) + 1), NEW j \in 1..(Len(q) + 1),
                      Append(q, e)[i] = m, Append(q, e)[j] = m
               PROVE  i = j
  BY <1>1 DEF Once
<1>3. CASE e = m
  <2>1. \A h \in 1..Len(q) : q[h] # m
    BY <1>1, <1>3 DEF Has
  <2>2. i = Len(q) + 1 /\ j = Len(q) + 1
    BY <1>1, <1>2, <2>1
  <2>3. QED  BY <2>2
<1>4. CASE e # m
  <2>1. i \in 1..Len(q) /\ j \in 1..Len(q)
    BY <1>1, <1>2, <1>4
  <2>2. QED  BY <1>1, <1>2, <2>1 DEF Once
<1>5. QED  BY <1>3, <1>4

LEMMA OnceTail ==
  ASSUME NEW S, NEW q \in Seq(S), q # <<>>, NEW m, Once(q, m)
  PROVE  Once(Tail(q), m) /\ (Head(q) = m => ~Has(Tail(q), m))
<1>1. /\ DOMAIN q = 1..Len(q) /\ Len(q) \in Nat \ {0}
      /\ DOMAIN Tail(q) = 1..(Len(q) - 1)
      /\ \A i \in 1..(Len(q) - 1) : Tail(q)[i] = q[i + 1]
      /\ Head(q) = q[1]
  OBVIOUS
<1>2. ASSUME NEW i \in 1..(Len(q) - 1), NEW j \in 1..(Len(q) - 1),
             Tail(q)[i] = m, Tail(q)[j] = m
      PROVE  i = j
  <2>1. i + 1 \in 1..Len(q) /\ j + 1 \in 1..Len(q) /\ q[i + 1] = m /\ q[j + 1] = m
    BY <1>1, <1>2
  <2>2. i + 1 = j + 1
    BY <1>1, <2>1 DEF Once
  <2>3. QED  BY <2>2
<1>3. ASSUME Head(q) = m, NEW i \in 1..(Len(q) - 1), Tail(q)[i] = m
      PROVE  FALSE
  <2>1. 1 \in 1..Len(q) /\ i + 1 \in 1..Len(q) /\ q[i + 1] = m /\ q[1] = m
    BY <1>1, <1>3
  <2>2. 1 = i + 1
    BY <1>1, <2>1 DEF Once
  <2>3. QED  BY <2>2
<1>4. QED  BY <1>1, <1>2, <1>3 DEF Once, Has

LEMMA LastAppend ==
  ASSUME NEW S, NEW q \in Seq(S), NEW e \in S, ~Has(q, "cancel")
  PROVE  /\ OnlyLast(Append(q, e), "cancel")
         /\ Append(q, e) # <<>> /\ Append(q, e)[Len(Append(q, e))] = e
<1>1. /\ DOMAIN q = 1..Len(q) /\ Len(q) \in Nat
      /\ DOMAIN Append(q, e) = 1..(Len(q) + 1) /\ Len(Append(q, e)) = Len(q) + 1
      /\ \A i \in 1..Len(q) : Append(q, e)[i] = q[i]
      /\ Append(q, e)[Len(q) + 1] = e
      /\ Append(q, e) # <<>>
  OBVIOUS
<1>2. ASSUME NEW i \in 1..(Len(q) + 1), Append(q, e)[i] = "cancel"
      PROVE  i = Len(q) + 1
  BY <1>1, <1>2 DEF Has
<1>3. QED  BY <1>1, <1>2 DEF OnlyLast

LEMMA LastTail ==
  ASSUME NEW S, NEW q \in Seq(S), q # <<>>, OnlyLast(q, "cancel")
  PROVE  /\ OnlyLast(Tail(q), "cancel")
         /\ Head(q) = "cancel" => Tail(q) = <<>>
         /\ (q[Len(q)] = "cancel" /\ Head(q) # "cancel") =>
               Tail(q) # <<>> /\ Tail(q)[Len(Tail(q))] = "cancel"
<1>1. /\ DOMAIN q = 1..Len(q) /\ Len(q) \in Nat \ {0}
      /\ Tail(q) \in Seq(S)
      /\ DOMAIN Tail(q) = 1..(Len(q) - 1) /\ Len(Tail(q)) = Len(q) - 1
      /\ \A i \in 1..(Len(q) - 1) : Tail(q)[i] = q[i + 1]
      /\ Head(q) = q[1]
  OBVIOUS
<1>2. ASSUME NEW i \in 1..(Len(q) - 1), Tail(q)[i] = "cancel"
      PROVE  i = Len(q) - 1
  <2>1. i + 1 \in 1..Len(q) /\ q[i + 1] = "cancel"
    BY <1>1, <1>2
  <2>2. i + 1 = Len(q)
    BY <1>1, <2>1 DEF OnlyLast
  <2>3. Len(q) \in Int /\ i \in Int
    BY <1>1, <1>2
  <2>4. QED  BY <2>2, <2>3
<1>3. ASSUME Head(q) = "cancel" PROVE Tail(q) = <<>>
  <2>1. 1 \in 1..Len(q)
    BY <1>1
  <2>2. Len(q) = 1
    BY <1>1, <1>3, <2>1 DEF OnlyLast
  <2>3. QED  BY <1>1, <2>2
<1>4. ASSUME q[Len(q)] = "cancel", Head(q) # "cancel"
      PROVE  Tail(q) # <<>> /\ Tail(q)[Len(Tail(q))] = "cancel"
  <2>1. Len(q) > 1
    BY <1>1, <1>4
  <2>2. Len(q) - 1 \in 1..(Len(q) - 1) /\ (Len(q) - 1) + 1 = Len(q)
    BY <1>1, <2>1
  <2>3. Tail(q)[Len(q) - 1] = q[Len(q)]
    BY <1>1, <2>2
  <2>4. QED  BY <1>1, <1>4, <2>1, <2>3
<1>5. QED  BY <1>1, <1>2, <1>3, <1>4 DEF OnlyLast

--------------------------------------------------------------------------------
(* Connection and worker of one session. *)
Linked(c, w, l) ==
    /\ l => w # "running" /\ c = "up"
    /\ w = "running" => c = "up"
    /\ c = "gone" => w = "ended"

(* A worker that has left its loop runs no task any more. *)
Manned(t, ws, wd) ==
    /\ wd # "running" => /\ ~t.trust /\ t.revoke = 0
                         /\ t.writer \notin {"open", "cancelled"}
    /\ ws # "running" => /\ t.direct = "none"
                         /\ t.reader \notin {"open", "streaming", "cancelled"}

(* What a success stands on: the order of attempts, one reader, one pipe. *)
Answering(r, t, ev, f, x) ==
    /\ r.ans # "none" <=> r.phase = "done"
    /\ r.late => r.phase \notin Idle
    /\ (r.phase \in Early \/ r.ans = "direct") =>
         /\ t.reader = "none" /\ t.pipe = "open" /\ t.writer = "none"
         /\ ~Has(r.toSrc, "read") /\ ~Has(r.toDest, "write")
    /\ Once(r.toSrc, "read")
    /\ t.reader # "none" => ~Has(r.toSrc, "read")
    /\ (t.pipe # "open" /\ ~x) => t.reader = "over"
    /\ (<<"copied", TRUE>> \in ev \/ r.ans = "relay") => t.pipe = "whole" /\ f # "old"
    /\ (r.phase \in Early /\ (<<"direct", TRUE>> \in ev \/ t.remote = "landed")) => f = "direct"
    /\ r.result = "ok" => r.phase = "untrusting" /\ f = "direct"
    /\ r.ans = "direct" => f = "direct"

(* The cancellation is the last command of a failed copy, and it is there *)
(* as long as a running worker may have something to cancel.              *)
LastCancel(q) == q # <<>> /\ q[Len(q)] = "cancel"

Cancelling(r, t, ws, wd) ==
    /\ Has(r.toSrc, "cancel") \/ Has(r.toDest, "cancel") => r.ans = "error"
    /\ OnlyLast(r.toSrc, "cancel") /\ OnlyLast(r.toDest, "cancel")
    /\ (/\ r.ans = "error" /\ ws = "running"
        /\ t.reader \in {"open", "streaming"} \/ Has(r.toSrc, "read")) => LastCancel(r.toSrc)
    /\ (/\ r.ans = "error" /\ wd = "running"
        /\ t.writer = "open" \/ Has(r.toDest, "write")) => LastCancel(r.toDest)

(* Where the key may stand, phase by phase. *)
Pending(r, t) == t.trust \/ Has(r.toDest, "trust")
Removing(r, t) == t.revoke > 0 \/ Has(r.toDest, "untrust")

\* Something will still be done, or said, about a key that stands.
Explained(r, t, ev, k, fl, wd) == (k /\ ~r.warned) =>
    fl # {} \/ Removing(r, t) \/ <<"untrusted", FALSE>> \in ev \/ wd # "running"

\* The same of a key that may yet be appended when the copy is over.
Settled(r, t, v, fl) == (Pending(r, t) /\ ~r.warned) => fl # {} \/ Removing(r, t) \/ v

\* The key is appended at most once, and its receipt comes after that.
KeyOnce(r, t, ev) ==
    /\ Once(r.toDest, "trust")
    /\ t.trust => ~Has(r.toDest, "trust")
    /\ (<<"trusted", TRUE>> \in ev \/ <<"trusted", FALSE>> \in ev) => ~Pending(r, t)

KeyPhase(r, t, ev, k, fl, x) ==
    /\ r.phase = "none" => /\ r.toDest = <<>> /\ ~t.trust /\ ~k
                           /\ <<"trusted", TRUE>> \notin ev /\ <<"trusted", FALSE>> \notin ev
    /\ (r.phase = "trusting" /\ Pending(r, t)) => ~k
    /\ (r.phase = "trusting" /\ <<"trusted", FALSE>> \in ev /\ k) => fl # {}
    /\ r.phase \in {"none", "trusting", "direct"} =>
         ~Removing(r, t) /\ <<"untrusted", TRUE>> \notin ev /\ <<"untrusted", FALSE>> \notin ev
    /\ r.phase \in {"direct", "untrusting", "reading", "writing"} => ~Pending(r, t)
    /\ (r.phase = "direct" /\ ~x) => r.trusted
    /\ (r.phase = "untrusting" /\ ~r.trusted) => r.warned

Keying(r, t, ev, k, v, fl, wd, cd, x) ==
    /\ KeyOnce(r, t, ev)
    /\ KeyPhase(r, t, ev, k, fl, x)
    /\ r.phase \in {"untrusting", "reading", "writing"} => Explained(r, t, ev, k, fl, wd)
    /\ (cd = "down" /\ r.phase \notin Idle) => r.warned
    /\ (r.phase = "done" /\ k /\ ~r.warned) => fl # {} \/ (Removing(r, t) /\ wd = "running")
    /\ r.phase = "done" => Settled(r, t, v, fl)

CopyInv(o) ==
    /\ Manned(tasks[o], worker[Src[o]], worker[Dest[o]])
    /\ Answering(job[o], tasks[o], inbox[o], file[o], exited)
    /\ Cancelling(job[o], tasks[o], worker[Src[o]], worker[Dest[o]])
    /\ Keying(job[o], tasks[o], inbox[o], keys[o], revoked[o], fault[o],
              worker[Dest[o]], conn[Dest[o]], exited)

IInv ==
    /\ TypeOK
    /\ \A s \in Sessions : Linked(conn[s], worker[s], lost[s])
    /\ exited => \A s \in Sessions : worker[s] = "ended" /\ conn[s] = "gone"
    /\ \A o \in Ops : CopyInv(o)
--------------------------------------------------------------------------------
(* One frame: the stages of Advance.                                       *)

\* The invariant of copy o between two stages, when the events of the frame
\* still count as waiting; Loose while one stage is at work.
Loose(o, ev, r) ==
    /\ r \in Job
    /\ r.phase # "none"
    /\ Answering(r, tasks[o], ev, file[o], FALSE)
    /\ Cancelling(r, tasks[o], worker[Src[o]], worker[Dest[o]])
    /\ KeyOnce(r, tasks[o], ev)

Stage(o, ev, r) ==
    /\ Loose(o, ev, r)
    /\ KeyPhase(r, tasks[o], ev, keys[o], fault[o], FALSE)
    /\ r.phase \in {"untrusting", "reading", "writing", "done"} =>
         Explained(r, tasks[o], ev, keys[o], fault[o], worker[Dest[o]])
    /\ r.phase = "done" => Settled(r, tasks[o], revoked[o], fault[o])

Reachable(o, c) == /\ worker[Src[o]] = "running" => c[Src[o]] = "up"
                   /\ worker[Dest[o]] = "running" => c[Dest[o]] = "up"

LEMMA ResolveFields ==
  ASSUME NEW o \in Ops, NEW c, NEW r \in Job, NEW ans \in {"direct", "relay", "error"},
         NEW q, q = Resolve(c, o, r, ans)
  PROVE  /\ q \in Job /\ q.phase = "done" /\ q.ans = ans /\ q.result = "none"
         /\ ~q.late /\ q.warned = r.warned
         /\ q.toSrc = IF ans = "error" /\ CanSend(c, Src[o])
                      THEN Append(r.toSrc, "cancel") ELSE r.toSrc
         /\ q.toDest = IF ans = "error" /\ CanSend(c, Dest[o])
                       THEN Append(r.toDest, "cancel") ELSE r.toDest
<1>1. r.toSrc \in Seq({"direct", "read", "cancel"})
      /\ r.toDest \in Seq({"trust", "untrust", "write", "cancel"})
  BY DEF Job
<1>2. Append(r.toSrc, "cancel") \in Seq({"direct", "read", "cancel"})
  BY <1>1
<1>3. Append(r.toDest, "cancel") \in Seq({"trust", "untrust", "write", "cancel"})
  BY <1>1
<1> DEFINE ts == IF ans = "error" /\ CanSend(c, Src[o]) THEN Append(r.toSrc, "cancel") ELSE r.toSrc
           td == IF ans = "error" /\ CanSend(c, Dest[o]) THEN Append(r.toDest, "cancel") ELSE r.toDest
<1>4. /\ ts \in Seq({"direct", "read", "cancel"})
      /\ td \in Seq({"trust", "untrust", "write", "cancel"})
  BY <1>1, <1>2, <1>3
<1>5. q = [r EXCEPT !.phase = "done", !.ans = ans, !.started = FALSE, !.result = "none",
                    !.late = FALSE, !.slow = FALSE, !.toSrc = ts, !.toDest = td]
  BY DEF Resolve
<1> HIDE DEF ts, td
<1>6. /\ q \in Job /\ q.phase = "done" /\ q.ans = ans /\ q.result = "none"
      /\ ~q.late /\ q.warned = r.warned /\ q.toSrc = ts /\ q.toDest = td
  BY <1>4, <1>5 DEF Job, Phases
<1>7. QED  BY <1>6 DEF ts, td

LEMMA UntrustFields ==
  ASSUME NEW o \in Ops, NEW c, NEW r \in Job, NEW q, q = BestEffortUntrust(o, c, r)
  PROVE  /\ q \in Job /\ q.phase = r.phase /\ q.ans = r.ans /\ q.result = r.result
         /\ q.late = r.late /\ q.slow = r.slow /\ q.started = r.started
         /\ q.trusted = r.trusted /\ q.toSrc = r.toSrc
         /\ \/ q.warned /\ q.toDest = r.toDest
            \/ /\ q.warned = r.warned /\ c[Dest[o]] = "up"
               /\ q.toDest = Append(r.toDest, "untrust")
<1>1. r.toDest \in Seq({"trust", "untrust", "write", "cancel"})
  BY DEF Job
<1>2. Append(r.toDest, "untrust") \in Seq({"trust", "untrust", "write", "cancel"})
  BY <1>1
<1>3. QED  BY <1>2 DEF BestEffortUntrust, WarnResidue, Job, CanSend

SrcCmd  == {"direct", "read", "cancel"}
DestCmd == {"trust", "untrust", "write", "cancel"}

\* The parts of the type invariant that speak of copy o.
LEMMA CopyTypes ==
  ASSUME TypeOK, NEW o \in Ops
  PROVE  /\ Src[o] \in Sessions /\ Dest[o] \in Sessions /\ Src[o] # Dest[o]
         /\ job[o] \in Job /\ tasks[o] \in Tasks
         /\ keys[o] \in BOOLEAN /\ revoked[o] \in BOOLEAN
         /\ conn[Src[o]] \in {"up", "down", "gone"} /\ conn[Dest[o]] \in {"up", "down", "gone"}
         /\ worker[Src[o]] \in {"running", "draining", "ended"}
         /\ worker[Dest[o]] \in {"running", "draining", "ended"}
         /\ inbox[o] \subseteq Events
BY EndsAssumption DEF TypeOK

LEMMA ResolveStage ==
  ASSUME TypeOK, NEW o \in Ops, NEW c, Reachable(o, c), NEW ev, NEW r,
         Loose(o, ev, r), r.phase \notin Idle, NEW ans \in {"direct", "relay", "error"},
         ans = "direct" => r.phase \in Early /\ file[o] = "direct",
         ans = "relay" => tasks[o].pipe = "whole" /\ file[o] # "old",
         Explained(r, tasks[o], ev, keys[o], fault[o], worker[Dest[o]]),
         Settled(r, tasks[o], revoked[o], fault[o]),
         NEW q, q = Resolve(c, o, r, ans)
  PROVE  Stage(o, ev, q) /\ q.phase = "done" /\ q.warned = r.warned /\ q.ans = ans
<1> DEFINE t == tasks[o]
<1>1. r \in Job /\ r.toSrc \in Seq(SrcCmd) /\ r.toDest \in Seq(DestCmd) /\ r.ans = "none"
  BY DEF Loose, Job, SrcCmd, DestCmd, Answering, Idle
<1>2. /\ q \in Job /\ q.phase = "done" /\ q.ans = ans /\ q.result = "none"
      /\ ~q.late /\ q.warned = r.warned
      /\ q.toSrc = IF ans = "error" /\ CanSend(c, Src[o])
                   THEN Append(r.toSrc, "cancel") ELSE r.toSrc
      /\ q.toDest = IF ans = "error" /\ CanSend(c, Dest[o])
                    THEN Append(r.toDest, "cancel") ELSE r.toDest
  BY <1>1, ResolveFields
<1>3. /\ "cancel" \in SrcCmd /\ "cancel" \in DestCmd
      /\ ~Has(r.toSrc, "cancel") /\ ~Has(r.toDest, "cancel")
  BY <1>1 DEF Loose, Cancelling, SrcCmd, DestCmd
<1>4. Has(q.toSrc, "read") <=> Has(r.toSrc, "read")
  BY <1>1, <1>2, <1>3, HasAppend
<1>5. ASSUME NEW m \in {"trust", "untrust", "write"}
      PROVE  Has(q.toDest, m) <=> Has(r.toDest, m)
  BY <1>1, <1>2, <1>3, HasAppend
<1>6. Once(q.toSrc, "read") /\ Once(q.toDest, "trust")
  <2>1. Once(r.toSrc, "read") /\ Once(r.toDest, "trust")
    BY DEF Loose, Answering, KeyOnce
  <2>2. QED  BY <1>1, <1>2, <1>3, <2>1, OnceAppend
<1>7. Answering(q, t, ev, file[o], FALSE)
  BY <1>1, <1>2, <1>4, <1>5, <1>6 DEF Loose, Answering, Idle, Early
<1>8. Cancelling(q, t, worker[Src[o]], worker[Dest[o]])
  <2>1. OnlyLast(r.toSrc, "cancel") /\ OnlyLast(r.toDest, "cancel")
    BY DEF Loose, Cancelling
  <2>2. OnlyLast(q.toSrc, "cancel") /\ OnlyLast(q.toDest, "cancel")
    BY <1>1, <1>2, <1>3, <2>1, LastAppend
  <2>3. Has(q.toSrc, "cancel") \/ Has(q.toDest, "cancel") => q.ans = "error"
    BY <1>2, <1>3
  <2>4. (ans = "error" /\ worker[Src[o]] = "running") => LastCancel(q.toSrc)
    <3> SUFFICES ASSUME ans = "error", worker[Src[o]] = "running"
                 PROVE  LastCancel(q.toSrc)
      OBVIOUS
    <3>1. CanSend(c, Src[o])
      BY DEF Reachable, CanSend
    <3>2. q.toSrc = Append(r.toSrc, "cancel")
      BY <1>2, <3>1
    <3> DEFINE s == r.toSrc
    <3>3. s \in Seq(SrcCmd) /\ "cancel" \in SrcCmd /\ ~Has(s, "cancel")
      BY <1>1, <1>3
    <3> HIDE DEF s
    <3>4. Append(s, "cancel") # <<>> /\ Append(s, "cancel")[Len(Append(s, "cancel"))] = "cancel"
      BY <3>3, LastAppend
    <3>5. QED  BY <3>2, <3>4 DEF LastCancel, s
  <2>5. (ans = "error" /\ worker[Dest[o]] = "running") => LastCancel(q.toDest)
    <3> SUFFICES ASSUME ans = "error", worker[Dest[o]] = "running"
                 PROVE  LastCancel(q.toDest)
      OBVIOUS
    <3>1. CanSend(c, Dest[o])
      BY DEF Reachable, CanSend
    <3>2. q.toDest = Append(r.toDest, "cancel")
      BY <1>2, <3>1
    <3> DEFINE s == r.toDest
    <3>3. s \in Seq(DestCmd) /\ "cancel" \in DestCmd /\ ~Has(s, "cancel")
      BY <1>1, <1>3
    <3> HIDE DEF s
    <3>4. Append(s, "cancel") # <<>> /\ Append(s, "cancel")[Len(Append(s, "cancel"))] = "cancel"
      BY <3>3, LastAppend
    <3>5. QED  BY <3>2, <3>4 DEF LastCancel, s
  <2>6. QED  BY <1>2, <2>2, <2>3, <2>4, <2>5 DEF Cancelling
<1>9. /\ Pending(q, t) <=> Pending(r, t)
      /\ Removing(q, t) <=> Removing(r, t)
  BY <1>5 DEF Pending, Removing
<1>10. /\ KeyOnce(q, t, ev)
       /\ KeyPhase(q, t, ev, keys[o], fault[o], FALSE)
  BY <1>2, <1>5, <1>6, <1>9 DEF Loose, KeyOnce, KeyPhase
<1>11. /\ Explained(q, t, ev, keys[o], fault[o], worker[Dest[o]])
       /\ Settled(q, t, revoked[o], fault[o])
  BY <1>2, <1>9 DEF Explained, Settled
<1>12. QED  BY <1>2, <1>7, <1>8, <1>10, <1>11 DEF Stage, Loose

\* Two jobs that differ only in what no invariant speaks of.
Alike(q, r) ==
    /\ q \in Job /\ q.phase = r.phase /\ q.trusted = r.trusted /\ q.result = r.result
    /\ q.late = r.late /\ q.ans = r.ans /\ q.warned = r.warned
    /\ q.toSrc = r.toSrc /\ q.toDest = r.toDest

LEMMA AlikeStage ==
  ASSUME NEW o, NEW ev, NEW r, NEW q, Alike(q, r), Stage(o, ev, r)
  PROVE  Stage(o, ev, q)
<1>1. Loose(o, ev, q)
  BY DEF Alike, Stage, Loose, Answering, Cancelling, KeyOnce, Pending
<1>2. KeyPhase(q, tasks[o], ev, keys[o], fault[o], FALSE)
  BY DEF Alike, Stage, KeyPhase, Pending, Removing
<1>3. q.phase \in {"untrusting", "reading", "writing", "done"} =>
        Explained(q, tasks[o], ev, keys[o], fault[o], worker[Dest[o]])
  BY DEF Alike, Stage, Explained, Removing
<1>4. q.phase = "done" => Settled(q, tasks[o], revoked[o], fault[o])
  BY DEF Alike, Stage, Settled, Pending, Removing
<1>5. QED  BY <1>1, <1>2, <1>3, <1>4 DEF Stage

LEMMA UntrustLoose ==
  ASSUME NEW o \in Ops, NEW c, NEW ev, NEW r, Loose(o, ev, r), r.phase \notin Idle,
         NEW q, q = BestEffortUntrust(o, c, r)
  PROVE  /\ Loose(o, ev, q)
         /\ q.phase = r.phase /\ q.trusted = r.trusted /\ q.late = r.late /\ q.result = r.result
         /\ q.slow = r.slow /\ q.started = r.started
         /\ q.warned \/ Removing(q, tasks[o])
         /\ r.warned => q.warned
         /\ Pending(q, tasks[o]) <=> Pending(r, tasks[o])
         /\ c[Dest[o]] # "up" => q.warned
<1>1. r \in Job /\ r.toDest \in Seq(DestCmd) /\ r.ans = "none"
  BY DEF Loose, Job, DestCmd, Answering, Idle
<1>2. /\ q \in Job /\ q.phase = r.phase /\ q.ans = r.ans /\ q.result = r.result
      /\ q.late = r.late /\ q.slow = r.slow /\ q.started = r.started
      /\ q.trusted = r.trusted /\ q.toSrc = r.toSrc
      /\ \/ q.warned /\ q.toDest = r.toDest
         \/ /\ q.warned = r.warned /\ c[Dest[o]] = "up"
            /\ q.toDest = Append(r.toDest, "untrust")
  BY <1>1, UntrustFields
<1>3. "untrust" \in DestCmd /\ ~Has(r.toDest, "cancel")
  BY <1>1 DEF Loose, Cancelling, DestCmd
<1> DEFINE A == Append(r.toDest, "untrust")
<1>31. \A m : Has(A, m) <=> Has(r.toDest, m) \/ "untrust" = m
  BY <1>1, <1>3, HasAppend
<1>32. OnlyLast(A, "cancel")
  BY <1>1, <1>3, LastAppend
<1>33. Once(A, "trust")
  <2>1. Once(r.toDest, "trust")
    BY DEF Loose, KeyOnce
  <2>2. QED  BY <1>1, <1>3, <2>1, OnceAppend
<1>34. q.toDest = r.toDest \/ q.toDest = A
  BY <1>2
<1> HIDE DEF A
<1>4. ASSUME NEW m \in {"trust", "write", "cancel"}
      PROVE  Has(q.toDest, m) <=> Has(r.toDest, m)
  BY <1>31, <1>34
<1>5. Once(q.toDest, "trust")
  BY <1>33, <1>34 DEF Loose, KeyOnce
<1>6. OnlyLast(q.toDest, "cancel")
  BY <1>32, <1>34 DEF Loose, Cancelling
<1>7. Answering(q, tasks[o], ev, file[o], FALSE)
  BY <1>2, <1>4 DEF Loose, Answering
<1>8. Cancelling(q, tasks[o], worker[Src[o]], worker[Dest[o]])
  BY <1>1, <1>2, <1>3, <1>4, <1>6 DEF Loose, Cancelling
<1>9. Pending(q, tasks[o]) <=> Pending(r, tasks[o])
  BY <1>4 DEF Pending
<1>10. KeyOnce(q, tasks[o], ev)
  BY <1>4, <1>5, <1>9 DEF Loose, KeyOnce
<1>11. q.warned \/ Removing(q, tasks[o])
  BY <1>2, <1>31 DEF Removing, A
<1>12. Loose(o, ev, q)
  BY <1>2, <1>7, <1>8, <1>10 DEF Loose
<1>13. QED  BY <1>2, <1>9, <1>11, <1>12

LEMMA StartRelayStage ==
  ASSUME TypeOK, NEW o \in Ops, NEW c, Reachable(o, c), NEW ev, NEW r,
         Loose(o, ev, r), r.phase \in Early, ~Pending(r, tasks[o]),
         Explained(r, tasks[o], ev, keys[o], fault[o], worker[Dest[o]]),
         NEW q, q = StartRelay(o, c, r)
  PROVE  /\ Stage(o, ev, q) /\ q.phase \in {"reading", "done"} /\ q.warned = r.warned
         /\ q.phase = "done" => q.ans = "error"
         /\ q.phase # "done" => q.late = r.late
<1> DEFINE t == tasks[o]
<1>1. r \in Job /\ r.toSrc \in Seq(SrcCmd) /\ r.ans = "none" /\ r.phase \notin Idle
  BY DEF Loose, Job, SrcCmd, Answering, Idle, Early
<1>2. CASE ~CanSend(c, Src[o])
  <2>1. q = Resolve(c, o, r, "error")
    BY <1>2 DEF StartRelay, Fail
  <2>2. Settled(r, t, revoked[o], fault[o])
    BY DEF Settled
  <2>3. QED  BY <1>1, <2>1, <2>2, ResolveStage
<1>3. CASE CanSend(c, Src[o])
  <2> DEFINE A == Append(r.toSrc, "read")
  <2>1. "read" \in SrcCmd /\ ~Has(r.toSrc, "read") /\ ~Has(r.toSrc, "cancel") /\ ~Has(r.toDest, "cancel")
    BY <1>1 DEF SrcCmd, Loose, Answering, Cancelling
  <2>2. A \in Seq(SrcCmd)
    BY <1>1, <2>1
  <2>3. \A m : Has(A, m) <=> Has(r.toSrc, m) \/ "read" = m
    BY <1>1, <2>1, HasAppend
  <2>4. Once(A, "read")
    BY <1>1, <2>1, OnceAppend DEF Loose, Answering
  <2>5. OnlyLast(A, "cancel")
    BY <1>1, <2>1, LastAppend
  <2>6. q = [r EXCEPT !.phase = "reading", !.result = "none", !.started = FALSE,
                      !.slow = FALSE, !.toSrc = A]
    BY <1>3 DEF StartRelay
  <2> HIDE DEF A
  <2>7. /\ q \in Job /\ q.phase = "reading" /\ q.result = "none" /\ q.toSrc = A
        /\ q.ans = "none" /\ q.warned = r.warned /\ q.trusted = r.trusted
        /\ q.late = r.late /\ q.toDest = r.toDest
    BY <1>1, <2>2, <2>6 DEF Job, Phases, SrcCmd
  <2>8. Answering(q, t, ev, file[o], FALSE)
    BY <1>1, <2>3, <2>4, <2>7 DEF Loose, Answering, Idle, Early
  <2>9. Cancelling(q, t, worker[Src[o]], worker[Dest[o]])
    BY <2>1, <2>3, <2>5, <2>7 DEF Loose, Cancelling
  <2>10. Pending(q, t) <=> Pending(r, t)
    BY <2>7 DEF Pending
  <2>11. KeyOnce(q, t, ev) /\ KeyPhase(q, t, ev, keys[o], fault[o], FALSE)
    BY <2>7, <2>10 DEF Loose, KeyOnce, KeyPhase
  <2>12. Explained(q, t, ev, keys[o], fault[o], worker[Dest[o]])
    BY <2>7 DEF Explained, Removing
  <2>13. QED  BY <2>7, <2>8, <2>9, <2>11, <2>12 DEF Stage, Loose
<1>4. QED  BY <1>2, <1>3

LEMMA FinishDirectStage ==
  ASSUME TypeOK, NEW o \in Ops, NEW c, NEW ev, NEW r,
         Stage(o, ev, r), r.phase = "direct", NEW result \in {"ok", "error"},
         result = "ok" => file[o] = "direct",
         NEW q, q = FinishDirect(o, c, r, result)
  PROVE  Stage(o, ev, q) /\ q.phase = "untrusting" /\ (r.warned => q.warned) /\ q.late = r.late
         /\ (c[Dest[o]] # "up" => q.warned)
<1> DEFINE p == [r EXCEPT !.phase = "untrusting", !.result = result, !.started = FALSE, !.slow = FALSE]
<1>1. r \in Job
  BY DEF Stage, Loose
<1>2. /\ p \in Job /\ p.phase = "untrusting" /\ p.result = result /\ p.toSrc = r.toSrc
      /\ p.toDest = r.toDest /\ p.ans = r.ans /\ p.warned = r.warned
      /\ p.trusted = r.trusted /\ p.late = r.late
  BY <1>1 DEF Job, Phases
<1>3. q = BestEffortUntrust(o, c, p)
  BY DEF FinishDirect
<1> HIDE DEF p
<1>4. Loose(o, ev, p)
  <2>1. Answering(p, tasks[o], ev, file[o], FALSE)
    BY <1>2 DEF Stage, Loose, Answering, Early, Idle
  <2>2. Cancelling(p, tasks[o], worker[Src[o]], worker[Dest[o]])
    BY <1>2 DEF Stage, Loose, Cancelling
  <2>3. KeyOnce(p, tasks[o], ev)
    BY <1>2 DEF Stage, Loose, KeyOnce, Pending
  <2>4. QED  BY <1>2, <2>1, <2>2, <2>3 DEF Loose
<1>5. ~Pending(p, tasks[o]) /\ p.trusted
  BY <1>2 DEF Stage, KeyPhase, Pending
<1>6. p.phase \notin Idle
  BY <1>2 DEF Idle
<1>61. /\ Loose(o, ev, q)
       /\ q.phase = p.phase /\ q.trusted = p.trusted /\ q.late = p.late /\ q.result = p.result
       /\ q.slow = p.slow /\ q.started = p.started
       /\ q.warned \/ Removing(q, tasks[o])
       /\ p.warned => q.warned
       /\ Pending(q, tasks[o]) <=> Pending(p, tasks[o])
       /\ c[Dest[o]] # "up" => q.warned
  BY <1>3, <1>4, <1>6, UntrustLoose
<1>7. /\ Loose(o, ev, q) /\ q.phase = "untrusting" /\ q.trusted = p.trusted
      /\ q.late = r.late
      /\ q.warned \/ Removing(q, tasks[o])
      /\ r.warned => q.warned
      /\ ~Pending(q, tasks[o])
      /\ c[Dest[o]] # "up" => q.warned
  BY <1>2, <1>5, <1>61
<1>8. KeyPhase(q, tasks[o], ev, keys[o], fault[o], FALSE)
  BY <1>5, <1>7 DEF KeyPhase
<1>9. Explained(q, tasks[o], ev, keys[o], fault[o], worker[Dest[o]])
  BY <1>7 DEF Explained
<1>10. QED  BY <1>7, <1>8, <1>9 DEF Stage

LEMMA StartDirectStage ==
  ASSUME TypeOK, NEW o \in Ops, NEW c, Reachable(o, c), NEW ev, NEW r,
         Stage(o, ev, r), r.phase = "trusting", r.trusted, <<"trusted", TRUE>> \in ev,
         NEW q, q = StartDirect(o, c, r)
  PROVE  /\ Stage(o, ev, q) /\ q.phase \in {"direct", "reading", "done"}
         /\ r.warned => q.warned
         /\ q.phase = "done" => q.ans = "error"
         /\ q.phase # "done" => q.late = r.late
<1> DEFINE t == tasks[o]
<1>1. /\ r \in Job /\ r.toSrc \in Seq(SrcCmd) /\ r.ans = "none" /\ r.phase \notin Idle
      /\ ~Pending(r, t) /\ r.phase \in Early
  BY DEF Stage, Loose, Job, SrcCmd, Answering, KeyOnce, Idle, Early
<1>2. CASE ~(c[Src[o]] = "up" /\ c[Dest[o]] # "gone" /\ CanSend(c, Src[o]))
  <2>0. PICK p : p = BestEffortUntrust(o, c, r)
    OBVIOUS
  <2>1. q = StartRelay(o, c, p)
    BY <1>2, <2>0 DEF StartDirect
  <2>2. Loose(o, ev, r)
    BY DEF Stage
  <2>21. r.phase \notin Idle
    BY <1>1
  <2>22. Loose(o, ev, p)
    BY <2>0, <2>2, <2>21, UntrustLoose
  <2>23. p.phase = r.phase /\ p.late = r.late
    BY <2>0, <2>2, <2>21, UntrustLoose
  <2>24. p.warned \/ Removing(p, t)
    BY <2>0, <2>2, <2>21, UntrustLoose
  <2>25. r.warned => p.warned
    BY <2>0, <2>2, <2>21, UntrustLoose
  <2>26. Pending(p, t) <=> Pending(r, t)
    BY <2>0, <2>2, <2>21, UntrustLoose
  <2>3. /\ Loose(o, ev, p) /\ p.phase = "trusting" /\ p.late = r.late
        /\ p.warned \/ Removing(p, t)
        /\ r.warned => p.warned
        /\ ~Pending(p, t)
    BY <1>1, <2>22, <2>23, <2>24, <2>25, <2>26
  <2>4. Explained(p, t, ev, keys[o], fault[o], worker[Dest[o]])
    BY <2>3 DEF Explained
  <2>5. p.phase \in Early
    BY <2>3 DEF Early
  <2>6. /\ Stage(o, ev, q) /\ q.phase \in {"reading", "done"} /\ q.warned = p.warned
        /\ q.phase = "done" => q.ans = "error"
        /\ q.phase # "done" => q.late = p.late
    BY <2>1, <2>3, <2>4, <2>5, StartRelayStage
  <2>7. QED  BY <2>3, <2>6
<1>3. CASE c[Src[o]] = "up" /\ c[Dest[o]] # "gone" /\ CanSend(c, Src[o])
  <2> DEFINE A == Append(r.toSrc, "direct")
  <2>1. "direct" \in SrcCmd /\ ~Has(r.toSrc, "cancel")
    BY <1>1 DEF SrcCmd, Stage, Loose, Cancelling
  <2>2. A \in Seq(SrcCmd)
    BY <1>1, <2>1
  <2>3. \A m : Has(A, m) <=> Has(r.toSrc, m) \/ "direct" = m
    BY <1>1, <2>1, HasAppend
  <2>4. Once(A, "read")
    BY <1>1, <2>1, OnceAppend DEF Stage, Loose, Answering
  <2>5. OnlyLast(A, "cancel")
    BY <1>1, <2>1, LastAppend
  <2>6. q = [r EXCEPT !.phase = "direct", !.started = FALSE, !.slow = FALSE, !.toSrc = A]
    BY <1>3 DEF StartDirect
  <2> HIDE DEF A
  <2>7. /\ q \in Job /\ q.phase = "direct" /\ q.result = r.result /\ q.toSrc = A
        /\ q.ans = "none" /\ q.warned = r.warned /\ q.trusted = r.trusted
        /\ q.late = r.late /\ q.toDest = r.toDest
    BY <1>1, <2>2, <2>6 DEF Job, Phases, SrcCmd
  <2>8. Answering(q, t, ev, file[o], FALSE)
    BY <1>1, <2>3, <2>4, <2>7 DEF Stage, Loose, Answering, Idle, Early
  <2>9. Cancelling(q, t, worker[Src[o]], worker[Dest[o]])
    BY <1>1, <2>1, <2>3, <2>5, <2>7 DEF Stage, Loose, Cancelling
  <2>10. /\ Pending(q, t) <=> Pending(r, t)
         /\ Removing(q, t) <=> Removing(r, t)
    BY <2>7 DEF Pending, Removing
  <2>11. KeyOnce(q, t, ev) /\ KeyPhase(q, t, ev, keys[o], fault[o], FALSE)
    BY <1>1, <2>7, <2>10 DEF Stage, Loose, KeyOnce, KeyPhase
  <2>12. QED  BY <2>7, <2>8, <2>9, <2>11 DEF Stage, Loose
<1>4. QED  BY <1>2, <1>3

\* A success that only waits for the receipt of the revocation, or was told.
Won(r) == (r.phase = "untrusting" /\ r.result = "ok") \/ r.ans = "direct"

\* What every stage respects.
Follows(q, r) ==
    /\ r.warned => q.warned
    /\ q.phase # "done" => q.late = r.late
    /\ r.phase = "done" => q = r
    /\ Won(r) => Won(q)

LEMMA FollowsSame == ASSUME NEW r PROVE Follows(r, r)
BY DEF Follows

LEMMA FollowsTransitive ==
  ASSUME NEW p, NEW q, NEW r, Follows(q, p), Follows(r, q)
  PROVE  Follows(r, p)
<1>1. p.warned => r.warned
  BY DEF Follows
<1>2. r.phase # "done" => r.late = p.late
  BY DEF Follows
<1>3. p.phase = "done" => r = p
  BY DEF Follows
<1>4. Won(p) => Won(r)
  BY DEF Follows
<1>5. QED  BY <1>1, <1>2, <1>3, <1>4 DEF Follows

\* The two ways to go on after the revocation.
OrRelay(o, c, r) == FinishAfterUntrust(o, c, r, TRUE)
OrFail(o, c, r)  == FinishAfterUntrust(o, c, r, FALSE)

LEMMA FinishAfterUntrustStage ==
  ASSUME TypeOK, NEW o \in Ops, NEW c, Reachable(o, c), NEW ev, NEW r,
         Loose(o, ev, r), r.phase = "untrusting", ~Pending(r, tasks[o]),
         Explained(r, tasks[o], ev, keys[o], fault[o], worker[Dest[o]]),
         NEW q, q \in {OrRelay(o, c, r), OrFail(o, c, r)}
  PROVE  /\ Stage(o, ev, q) /\ q.phase \in {"reading", "done"} /\ q.warned = r.warned
         /\ q.phase # "done" => q.late = r.late
         /\ r.result = "ok" => q.ans = "direct"
         /\ q = OrFail(o, c, r) => q.phase = "done"
<1>1. /\ r.phase \notin Idle /\ r.phase \in Early
      /\ Settled(r, tasks[o], revoked[o], fault[o])
  BY DEF Idle, Early, Settled
<1>2. CASE r.result = "ok"
  <2>1. q = Resolve(c, o, r, "direct")
    BY <1>2 DEF FinishAfterUntrust, OrRelay, OrFail
  <2>2. file[o] = "direct"
    BY <1>2 DEF Loose, Answering
  <2>3. Stage(o, ev, q) /\ q.phase = "done" /\ q.warned = r.warned /\ q.ans = "direct"
    BY <1>1, <2>1, <2>2, ResolveStage
  <2>4. QED  BY <2>3
<1>3. CASE r.result # "ok" /\ q # OrFail(o, c, r)
  <2>1. q = StartRelay(o, c, r)
    BY <1>3 DEF FinishAfterUntrust, OrRelay, OrFail
  <2>2. /\ Stage(o, ev, q) /\ q.phase \in {"reading", "done"} /\ q.warned = r.warned
        /\ q.phase # "done" => q.late = r.late
    BY <1>1, <2>1, StartRelayStage
  <2>3. QED  BY <1>3, <2>2
<1>4. CASE r.result # "ok" /\ q = OrFail(o, c, r)
  <2>1. q = Fail(o, c, r)
    BY <1>4 DEF FinishAfterUntrust, OrRelay, OrFail
  <2>2. q = Resolve(c, o, r, "error")
    BY <2>1 DEF Fail
  <2>3. Stage(o, ev, q) /\ q.phase = "done" /\ q.warned = r.warned
    BY <1>1, <2>2, ResolveStage
  <2>4. QED  BY <1>4, <2>3
<1>5. QED  BY <1>2, <1>3, <1>4

LEMMA GiveUpStage ==
  ASSUME TypeOK, NEW o \in Ops, NEW c, Reachable(o, c), NEW ev, NEW r,
         Stage(o, ev, r), r.phase \notin Idle,
         NEW q, q = GiveUp(o, c, r)
  PROVE  Stage(o, ev, q) /\ q.phase = "done" /\ (r.warned => q.warned)
<1> DEFINE p == [r EXCEPT !.cancel = @ \/ r.phase = "direct"]
<1>1. r \in Job
  BY DEF Stage, Loose
<1>2. Alike(p, r)
  <2>1. (r.cancel \/ r.phase = "direct") \in BOOLEAN
    BY <1>1 DEF Job
  <2>2. QED  BY <1>1, <2>1 DEF Alike, Job, Phases
<1>3. q = Fail(o, c, IF MaybeTrusted(r) THEN BestEffortUntrust(o, c, p) ELSE p)
  BY DEF GiveUp
<1> HIDE DEF p
<1>4. Stage(o, ev, p) /\ p.phase \notin Idle /\ p.warned = r.warned /\ Loose(o, ev, p)
  BY <1>2, AlikeStage DEF Alike, Stage
<1>5. CASE MaybeTrusted(r)
  <2>1. PICK u : u = BestEffortUntrust(o, c, p)
    OBVIOUS
  <2>2. Loose(o, ev, u)
    BY <1>4, <2>1, UntrustLoose
  <2>3. u.phase = p.phase
    BY <1>4, <2>1, UntrustFields DEF Stage, Loose
  <2>4. u.warned \/ Removing(u, tasks[o])
    BY <1>4, <2>1, UntrustLoose
  <2>5. p.warned => u.warned
    BY <1>4, <2>1, UntrustLoose
  <2>6. /\ Explained(u, tasks[o], ev, keys[o], fault[o], worker[Dest[o]])
        /\ Settled(u, tasks[o], revoked[o], fault[o])
    BY <2>4 DEF Explained, Settled
  <2>7. q = Resolve(c, o, u, "error") /\ u.phase \notin Idle
    BY <1>3, <1>4, <1>5, <2>1, <2>3 DEF Fail
  <2>8. Stage(o, ev, q) /\ q.phase = "done" /\ q.warned = u.warned
    BY <2>2, <2>6, <2>7, ResolveStage
  <2>9. QED  BY <1>4, <2>5, <2>8
<1>6. CASE ~MaybeTrusted(r)
  <2>1. p.phase \in {"untrusting", "reading", "writing"}
    <3>1. p.phase \in Phases /\ p.phase # "trusting" /\ p.phase # "direct"
      BY <1>2, <1>4, <1>6 DEF Alike, Stage, Loose, KeyPhase, MaybeTrusted, Job
    <3>2. QED  BY <1>4, <3>1 DEF Phases, Idle
  <2>2. /\ Explained(p, tasks[o], ev, keys[o], fault[o], worker[Dest[o]])
        /\ Settled(p, tasks[o], revoked[o], fault[o])
    BY <1>4, <2>1 DEF Stage, KeyPhase, Settled
  <2>3. q = Resolve(c, o, p, "error")
    BY <1>3, <1>6 DEF Fail
  <2>4. Stage(o, ev, q) /\ q.phase = "done" /\ q.warned = p.warned
    BY <1>4, <2>2, <2>3, ResolveStage
  <2>5. QED  BY <1>4, <2>4
<1>7. QED  BY <1>5, <1>6

\* A job that is over is left alone by every stage, one in another phase by
\* the stages of that phase.
LEMMA OnTrustedStage ==
  ASSUME TypeOK, NEW o \in Ops, NEW c, Reachable(o, c), NEW ev, NEW in \in SUBSET ev, NEW r,
         Stage(o, ev, r), NEW q, q = OnTrusted(o, c, in, r)
  PROVE  Stage(o, ev, q) /\ Follows(q, r) /\ (r.phase # "trusting" => q = r)
<1>1. CASE r.phase = "trusting" /\ <<"trusted", FALSE>> \in in
  <2>1. q = StartRelay(o, c, r)
    BY <1>1 DEF OnTrusted
  <2>2. ~Pending(r, tasks[o]) /\ r.phase \in Early /\ Loose(o, ev, r) /\ ~Won(r)
    BY <1>1 DEF Stage, Loose, KeyOnce, Early, Won, Answering
  <2>3. Explained(r, tasks[o], ev, keys[o], fault[o], worker[Dest[o]])
    BY <1>1 DEF Stage, KeyPhase, Explained
  <2>4. /\ Stage(o, ev, q) /\ q.warned = r.warned
        /\ q.phase # "done" => q.late = r.late
    BY <2>1, <2>2, <2>3, StartRelayStage
  <2>5. QED  BY <1>1, <2>2, <2>4 DEF Follows
<1>2. CASE r.phase = "trusting" /\ <<"trusted", FALSE>> \notin in /\ <<"trusted", TRUE>> \in in
  <2> DEFINE p == [r EXCEPT !.trusted = TRUE]
  <2>1. r \in Job /\ q = StartDirect(o, c, p)
    BY <1>2 DEF OnTrusted, Stage, Loose
  <2>2. /\ p \in Job /\ p.phase = "trusting" /\ p.trusted /\ p.warned = r.warned
        /\ p.late = r.late /\ p.ans = r.ans /\ p.result = r.result
        /\ p.toSrc = r.toSrc /\ p.toDest = r.toDest
    BY <1>2, <2>1 DEF Job
  <2> HIDE DEF p
  <2>3. Loose(o, ev, p)
    BY <1>2, <2>2 DEF Stage, Loose, Answering, Cancelling, KeyOnce, Pending
  <2>4. KeyPhase(p, tasks[o], ev, keys[o], fault[o], FALSE)
    BY <1>2, <2>2 DEF Stage, KeyPhase, Pending, Removing
  <2>5. Stage(o, ev, p)
    BY <2>2, <2>3, <2>4 DEF Stage
  <2>6. /\ Stage(o, ev, q)
        /\ p.warned => q.warned
        /\ q.phase # "done" => q.late = p.late
    BY <1>2, <2>1, <2>2, <2>5, StartDirectStage
  <2>7. ~Won(r)
    BY <1>2 DEF Stage, Loose, Won, Answering
  <2>8. QED  BY <1>2, <2>2, <2>6, <2>7 DEF Follows
<1>3. CASE r.phase # "trusting" \/ (<<"trusted", FALSE>> \notin in /\ <<"trusted", TRUE>> \notin in)
  <2>1. q = r
    BY <1>3 DEF OnTrusted
  <2>2. QED  BY <2>1, FollowsSame
<1>4. QED  BY <1>1, <1>2, <1>3

LEMMA OnStartedStage ==
  ASSUME NEW o \in Ops, NEW ev, NEW in, NEW r,
         Stage(o, ev, r), NEW q, q = OnStarted(in, r)
  PROVE  Stage(o, ev, q) /\ Follows(q, r) /\ (r.phase # "direct" => q = r)
<1>1. CASE r.phase = "direct" /\ <<"started", TRUE>> \in in
  <2>1. r \in Job /\ q = [r EXCEPT !.started = TRUE]
    BY <1>1 DEF OnStarted, Stage, Loose
  <2>2. Alike(q, r)
    BY <2>1 DEF Alike, Job
  <2>3. Stage(o, ev, q)
    BY <2>2, AlikeStage
  <2>4. QED  BY <1>1, <2>2, <2>3 DEF Follows, Alike, Won
<1>2. CASE ~(r.phase = "direct" /\ <<"started", TRUE>> \in in)
  <2>1. q = r
    BY <1>2 DEF OnStarted
  <2>2. QED  BY <2>1, FollowsSame
<1>3. QED  BY <1>1, <1>2

LEMMA OnDirectDoneStage ==
  ASSUME TypeOK, NEW o \in Ops, NEW c, Reachable(o, c), NEW ev, NEW in \in SUBSET ev, NEW r,
         Stage(o, ev, r), NEW q, q = OnDirectDone(o, c, in, r)
  PROVE  Stage(o, ev, q) /\ Follows(q, r) /\ (r.phase # "direct" => q = r)
<1>1. ASSUME r.phase = "direct", NEW result \in {"ok", "error"},
             result = "ok" => file[o] = "direct", q = FinishDirect(o, c, r, result)
      PROVE  Stage(o, ev, q) /\ Follows(q, r)
  <2>1. Stage(o, ev, q) /\ (r.warned => q.warned) /\ q.late = r.late
    BY <1>1, FinishDirectStage
  <2>2. ~Won(r)
    BY <1>1 DEF Stage, Loose, Won, Answering
  <2>3. QED  BY <1>1, <2>1, <2>2 DEF Follows
<1>2. CASE r.phase = "direct" /\ <<"direct", TRUE>> \in in
  <2>1. q = FinishDirect(o, c, r, "ok")
    BY <1>2 DEF OnDirectDone
  <2>2. file[o] = "direct"
    BY <1>2 DEF Stage, Loose, Answering, Early
  <2>3. QED  BY <1>1, <1>2, <2>1, <2>2
<1>3. CASE r.phase = "direct" /\ <<"direct", TRUE>> \notin in /\ <<"direct", FALSE>> \in in
  <2>1. q = FinishDirect(o, c, r, "error")
    BY <1>3 DEF OnDirectDone
  <2>2. QED  BY <1>1, <1>3, <2>1
<1>4. CASE r.phase # "direct" \/ (<<"direct", TRUE>> \notin in /\ <<"direct", FALSE>> \notin in)
  <2>1. q = r
    BY <1>4 DEF OnDirectDone
  <2>2. QED  BY <2>1, FollowsSame
<1>5. QED  BY <1>2, <1>3, <1>4

\* No revocation fails unheard while the job exists.
LEMMA OnUntrustedStage ==
  ASSUME TypeOK, NEW o \in Ops, NEW c, Reachable(o, c), NEW ev, NEW in \in SUBSET ev, NEW r,
         Stage(o, ev, r), NEW q, q = OnUntrusted(o, c, in, r)
  PROVE  /\ Stage(o, ev, q) /\ Follows(q, r)
         /\ (<<"untrusted", FALSE>> \in in /\ r.phase # "done") => q.warned
<1> DEFINE heard == {ok \in BOOLEAN : <<"untrusted", ok>> \in in}
           p == [r EXCEPT !.warned = @ \/ FALSE \in heard, !.trusted = @ /\ TRUE \notin heard]
<1>1. CASE heard = {} \/ r.phase \in Idle
  <2>1. q = r
    BY <1>1 DEF OnUntrusted, Idle
  <2>2. (<<"untrusted", FALSE>> \in in /\ r.phase # "done") => FALSE
    BY <1>1 DEF Stage, Loose, Idle
  <2>3. QED  BY <2>1, <2>2, FollowsSame
<1>2. CASE heard # {} /\ r.phase \notin Idle
  <2>1. r.phase \in {"untrusting", "reading", "writing"} /\ r \in Job
    <3>1. r \in Job /\ r.phase \in Phases
      BY DEF Stage, Loose, Job
    <3>2. <<"untrusted", TRUE>> \in ev \/ <<"untrusted", FALSE>> \in ev
      BY <1>2
    <3>3. r.phase \notin {"none", "trusting", "direct"}
      BY <3>2 DEF Stage, KeyPhase
    <3>4. QED  BY <1>2, <3>1, <3>3 DEF Phases, Idle
  <2>2. /\ p \in Job /\ p.phase = r.phase /\ p.late = r.late /\ p.ans = r.ans
        /\ p.result = r.result /\ p.toSrc = r.toSrc /\ p.toDest = r.toDest
        /\ r.warned => p.warned
        /\ FALSE \in heard => p.warned
    <3> DEFINE w == r.warned \/ FALSE \in heard
               d == r.trusted /\ TRUE \notin heard
    <3>1. w \in BOOLEAN /\ d \in BOOLEAN
      BY <2>1 DEF Job
    <3>2. p = [r EXCEPT !.warned = w, !.trusted = d]
      OBVIOUS
    <3>3. w = TRUE <=> r.warned = TRUE \/ FALSE \in heard
      BY <2>1 DEF Job
    <3> HIDE DEF w, d, p
    <3>4. /\ p \in Job /\ p.phase = r.phase /\ p.late = r.late /\ p.ans = r.ans
          /\ p.result = r.result /\ p.toSrc = r.toSrc /\ p.toDest = r.toDest
          /\ p.warned = w
      BY <2>1, <3>1, <3>2 DEF Job
    <3>5. QED  BY <3>1, <3>3, <3>4
  <2>3. q = IF r.phase = "untrusting" THEN OrRelay(o, c, p) ELSE p
    BY <1>2, <2>1 DEF OnUntrusted, Idle, OrRelay
  <2> HIDE DEF p
  <2>4. Loose(o, ev, p)
    BY <2>1, <2>2 DEF Stage, Loose, Answering, Cancelling, KeyOnce, Pending
  <2>5. /\ Explained(p, tasks[o], ev, keys[o], fault[o], worker[Dest[o]])
        /\ ~Pending(p, tasks[o])
    BY <2>1, <2>2 DEF Stage, KeyPhase, Explained, Removing, Pending
  <2>6. <<"untrusted", FALSE>> \in in => FALSE \in heard
    OBVIOUS
  <2> HIDE DEF heard
  <2>7. CASE r.phase = "untrusting"
    <3>1. q = OrRelay(o, c, p) /\ p.phase = "untrusting"
      BY <2>2, <2>3, <2>7
    <3>2. /\ Stage(o, ev, q)
          /\ q.warned = p.warned
          /\ q.phase # "done" => q.late = p.late
          /\ p.result = "ok" => q.ans = "direct"
      BY <2>4, <2>5, <3>1, FinishAfterUntrustStage
    <3>3. r.ans # "direct"
      BY <2>7 DEF Stage, Loose, Answering
    <3>4. QED  BY <2>2, <2>6, <2>7, <3>2, <3>3 DEF Follows, Won
  <2>8. CASE r.phase # "untrusting"
    <3>1. q = p
      BY <2>3, <2>8
    <3>2. KeyPhase(p, tasks[o], ev, keys[o], fault[o], FALSE)
      BY <2>1, <2>2, <2>5, <2>8 DEF KeyPhase
    <3>3. Stage(o, ev, q)
      BY <2>1, <2>2, <2>4, <2>5, <3>1, <3>2 DEF Stage
    <3>4. QED  BY <2>1, <2>2, <2>6, <3>1, <3>3 DEF Follows, Won
  <2>9. QED  BY <2>7, <2>8
<1>3. QED  BY <1>1, <1>2

LEMMA FailStage ==
  ASSUME TypeOK, NEW o \in Ops, NEW c, Reachable(o, c), NEW ev, NEW r,
         Stage(o, ev, r), r.phase \in {"reading", "writing"}, NEW q, q = Fail(o, c, r)
  PROVE  Stage(o, ev, q) /\ Follows(q, r) /\ q.phase = "done"
<1>1. /\ Loose(o, ev, r) /\ r.phase \notin Idle /\ ~Won(r)
      /\ Explained(r, tasks[o], ev, keys[o], fault[o], worker[Dest[o]])
      /\ Settled(r, tasks[o], revoked[o], fault[o])
  BY DEF Stage, Loose, Idle, Won, Answering, KeyPhase, Settled
<1>2. q = Resolve(c, o, r, "error")
  BY DEF Fail
<1>3. Stage(o, ev, q) /\ q.phase = "done" /\ q.warned = r.warned
  BY <1>1, <1>2, ResolveStage
<1>4. QED  BY <1>1, <1>3 DEF Follows, Idle

LEMMA OnRelaySourceStage ==
  ASSUME TypeOK, NEW o \in Ops, NEW c, Reachable(o, c), NEW ev, NEW in \in SUBSET ev, NEW r,
         Stage(o, ev, r), NEW q, q = OnRelaySource(o, c, in, r)
  PROVE  Stage(o, ev, q) /\ Follows(q, r)
<1> DEFINE t == tasks[o]
           asked == <<"source", TRUE>> \in in /\ c[Dest[o]] = "up" /\ CanSend(c, Dest[o])
<1>1. CASE r.phase = "reading" /\ asked
  <2> DEFINE A == Append(r.toDest, "write")
  <2>1. /\ r \in Job /\ r.toDest \in Seq(DestCmd) /\ r.ans = "none" /\ r.result # "ok"
        /\ "write" \in DestCmd /\ ~Has(r.toDest, "cancel") /\ ~Pending(r, t)
    BY <1>1 DEF Stage, Loose, Job, DestCmd, Answering, Cancelling, KeyPhase
  <2>2. A \in Seq(DestCmd)
    BY <2>1
  <2>3. \A m : Has(A, m) <=> Has(r.toDest, m) \/ "write" = m
    BY <2>1, HasAppend
  <2>4. Once(A, "trust")
    BY <2>1, OnceAppend DEF Stage, Loose, KeyOnce
  <2>5. OnlyLast(A, "cancel")
    BY <2>1, LastAppend
  <2>6. q = [r EXCEPT !.phase = "writing", !.toDest = A]
    BY <1>1 DEF OnRelaySource
  <2> HIDE DEF A
  <2>7. /\ q \in Job /\ q.phase = "writing" /\ q.result = r.result /\ q.toSrc = r.toSrc
        /\ q.ans = r.ans /\ q.warned = r.warned /\ q.trusted = r.trusted
        /\ q.late = r.late /\ q.toDest = A
    BY <2>1, <2>2, <2>6 DEF Job, Phases, DestCmd
  <2>8. Answering(q, t, ev, file[o], FALSE)
    BY <1>1, <2>1, <2>7 DEF Stage, Loose, Answering, Idle, Early
  <2>9. Cancelling(q, t, worker[Src[o]], worker[Dest[o]])
    BY <2>1, <2>3, <2>5, <2>7 DEF Stage, Loose, Cancelling
  <2>10. /\ Pending(q, t) <=> Pending(r, t)
         /\ Removing(q, t) <=> Removing(r, t)
         /\ Has(q.toDest, "trust") <=> Has(r.toDest, "trust")
    BY <2>3, <2>7 DEF Pending, Removing
  <2>11. KeyOnce(q, t, ev) /\ KeyPhase(q, t, ev, keys[o], fault[o], FALSE)
    BY <2>1, <2>4, <2>7, <2>10 DEF Stage, Loose, KeyOnce, KeyPhase
  <2>12. Explained(q, t, ev, keys[o], fault[o], worker[Dest[o]])
    BY <1>1, <2>7, <2>10 DEF Stage, Explained
  <2>13. Stage(o, ev, q)
    BY <2>7, <2>8, <2>9, <2>11, <2>12 DEF Stage, Loose
  <2>14. QED  BY <1>1, <2>1, <2>7, <2>13 DEF Follows, Won
<1>2. CASE /\ r.phase = "reading" /\ ~asked
           /\ <<"source", TRUE>> \in in \/ <<"source", FALSE>> \in in
  <2>1. q = Fail(o, c, r)
    BY <1>2 DEF OnRelaySource
  <2>2. QED  BY <1>2, <2>1, FailStage
<1>3. CASE r.phase # "reading" \/ (<<"source", TRUE>> \notin in /\ <<"source", FALSE>> \notin in)
  <2>1. q = r
    BY <1>3 DEF OnRelaySource
  <2>2. QED  BY <2>1, FollowsSame
<1>4. QED  BY <1>1, <1>2, <1>3

LEMMA OnCopyDoneStage ==
  ASSUME TypeOK, NEW o \in Ops, NEW c, Reachable(o, c), NEW ev, NEW in \in SUBSET ev, NEW r,
         Stage(o, ev, r), NEW q, q = OnCopyDone(o, c, in, r)
  PROVE  Stage(o, ev, q) /\ Follows(q, r)
<1>1. CASE r.phase = "writing" /\ <<"copied", TRUE>> \in in
  <2>1. /\ Loose(o, ev, r) /\ r.phase \notin Idle /\ ~Won(r)
        /\ Explained(r, tasks[o], ev, keys[o], fault[o], worker[Dest[o]])
        /\ Settled(r, tasks[o], revoked[o], fault[o])
        /\ tasks[o].pipe = "whole" /\ file[o] # "old"
    BY <1>1 DEF Stage, Loose, Idle, Won, Answering, KeyPhase, Settled
  <2>2. q = Resolve(c, o, r, "relay")
    BY <1>1 DEF OnCopyDone
  <2>3. Stage(o, ev, q) /\ q.phase = "done" /\ q.warned = r.warned
    BY <2>1, <2>2, ResolveStage
  <2>4. QED  BY <2>1, <2>3 DEF Follows, Idle
<1>2. CASE r.phase = "writing" /\ <<"copied", TRUE>> \notin in /\ <<"copied", FALSE>> \in in
  <2>1. q = Fail(o, c, r)
    BY <1>2 DEF OnCopyDone
  <2>2. QED  BY <1>2, <2>1, FailStage
<1>3. CASE r.phase # "writing" \/ (<<"copied", TRUE>> \notin in /\ <<"copied", FALSE>> \notin in)
  <2>1. q = r
    BY <1>3 DEF OnCopyDone
  <2>2. QED  BY <2>1, FollowsSame
<1>4. QED  BY <1>1, <1>2, <1>3

\* After this stage the user of a job that goes on with its destination down
\* has been told about the key.
LEMMA OnDeadSessionStage ==
  ASSUME TypeOK, NEW o \in Ops, NEW c, Reachable(o, c), NEW ev, NEW r,
         Stage(o, ev, r), NEW q, q = OnDeadSession(o, c, r)
  PROVE  /\ Stage(o, ev, q) /\ Follows(q, r)
         /\ (q.phase \notin Idle /\ c[Dest[o]] # "up") => q.warned
<1>0. r \in Job
  BY DEF Stage, Loose
<1>1. CASE r.phase = "untrusting" /\ r.trusted /\ c[Dest[o]] # "up"
  <2>1. q = [r EXCEPT !.warned = TRUE, !.trusted = FALSE]
    BY <1>1 DEF OnDeadSession, WarnResidue
  <2>2. /\ q \in Job /\ q.phase = "untrusting" /\ q.warned /\ q.late = r.late /\ q.ans = r.ans
        /\ q.result = r.result /\ q.toSrc = r.toSrc /\ q.toDest = r.toDest
    BY <1>0, <1>1, <2>1 DEF Job
  <2>3. Loose(o, ev, q)
    BY <1>1, <2>2 DEF Stage, Loose, Answering, Cancelling, KeyOnce, Pending
  <2>4. KeyPhase(q, tasks[o], ev, keys[o], fault[o], FALSE)
    BY <1>1, <2>2 DEF Stage, KeyPhase, Pending
  <2>5. Explained(q, tasks[o], ev, keys[o], fault[o], worker[Dest[o]])
    BY <2>2 DEF Explained
  <2>6. Stage(o, ev, q)
    BY <2>2, <2>3, <2>4, <2>5 DEF Stage
  <2>7. QED  BY <1>1, <2>2, <2>6 DEF Follows, Won
<1>2. CASE r.phase = "untrusting" /\ ~(r.trusted /\ c[Dest[o]] # "up")
  <2>1. q = r
    BY <1>2 DEF OnDeadSession
  <2>2. c[Dest[o]] # "up" => r.warned
    BY <1>2 DEF Stage, KeyPhase
  <2>3. QED  BY <2>1, <2>2, FollowsSame
<1>3. CASE r.phase \notin Idle \cup {"untrusting"} /\ (c[Src[o]] # "up" \/ c[Dest[o]] # "up")
  <2>1. q = GiveUp(o, c, r) /\ r.phase \notin Idle
    BY <1>3 DEF OnDeadSession, Idle
  <2>2. Stage(o, ev, q) /\ q.phase = "done" /\ (r.warned => q.warned)
    BY <2>1, GiveUpStage
  <2>3. ~Won(r) /\ r.phase # "done"
    BY <1>3 DEF Won, Stage, Loose, Answering, Idle
  <2>4. QED  BY <2>2, <2>3 DEF Follows, Idle
<1>4. CASE r.phase \in Idle \/ (r.phase # "untrusting" /\ c[Src[o]] = "up" /\ c[Dest[o]] = "up")
  <2>1. q = r
    BY <1>4 DEF OnDeadSession, Idle
  <2>2. QED  BY <1>4, <2>1, FollowsSame
<1>5. QED  BY <1>1, <1>2, <1>3, <1>4

\* After this stage no job whose total deadline has passed is left.
LEMMA OnTimeoutStage ==
  ASSUME TypeOK, NEW o \in Ops, NEW c, Reachable(o, c), NEW ev, NEW r,
         Stage(o, ev, r), (r.phase \notin Idle /\ c[Dest[o]] # "up") => r.warned,
         NEW q, q = OnTimeout(o, c, r)
  PROVE  /\ Stage(o, ev, q) /\ Follows(q, r)
         /\ (q.phase \notin Idle /\ c[Dest[o]] # "up") => q.warned
         /\ q.phase # "done" => ~q.late
<1>0. r \in Job
  BY DEF Stage, Loose
<1>1. CASE r.phase \in Idle
  <2>1. q = r
    BY <1>1 DEF OnTimeout, Idle
  <2>2. r.phase = "done"
    BY <1>1 DEF Stage, Loose, Idle
  <2>3. QED  BY <2>1, <2>2, FollowsSame DEF Idle
<1>2. CASE r.phase = "untrusting" /\ (r.late \/ r.slow)
  <2>1. /\ q \in {OrRelay(o, c, r), OrFail(o, c, r)}
        /\ r.late => q = OrFail(o, c, r)
    BY <1>2 DEF OnTimeout, OrRelay, OrFail
  <2>2. /\ Loose(o, ev, r) /\ ~Pending(r, tasks[o]) /\ r.ans # "direct"
        /\ Explained(r, tasks[o], ev, keys[o], fault[o], worker[Dest[o]])
    BY <1>2 DEF Stage, Loose, KeyPhase, Answering
  <2>3. Stage(o, ev, q) /\ q.warned = r.warned
    BY <1>2, <2>1, <2>2, FinishAfterUntrustStage
  <2>4. q.phase # "done" => q.late = r.late
    BY <1>2, <2>1, <2>2, FinishAfterUntrustStage
  <2>5. r.result = "ok" => q.ans = "direct"
    BY <1>2, <2>1, <2>2, FinishAfterUntrustStage
  <2>6. q = OrFail(o, c, r) => q.phase = "done"
    BY <1>2, <2>1, <2>2, FinishAfterUntrustStage
  <2>7. Follows(q, r)
    BY <1>2, <2>2, <2>3, <2>4, <2>5 DEF Follows, Won
  <2>8. q.phase # "done" => ~q.late
    BY <2>1, <2>4, <2>6
  <2>9. (q.phase \notin Idle /\ c[Dest[o]] # "up") => q.warned
    BY <1>2, <2>3 DEF Idle
  <2>10. QED  BY <2>3, <2>7, <2>8, <2>9
<1>3. CASE r.phase \notin Idle \cup {"untrusting"} /\ r.late
  <2>1. q = GiveUp(o, c, r) /\ r.phase \notin Idle
    BY <1>3 DEF OnTimeout, Idle
  <2>2. Stage(o, ev, q) /\ q.phase = "done" /\ (r.warned => q.warned)
    BY <2>1, GiveUpStage
  <2>3. ~Won(r) /\ r.phase # "done"
    BY <1>3 DEF Won, Stage, Loose, Answering, Idle
  <2>4. QED  BY <2>2, <2>3 DEF Follows, Idle
<1>4. CASE ~r.late /\ r.slow /\ r.phase = "direct" /\ ~r.started
  <2> DEFINE p == [r EXCEPT !.cancel = TRUE]
  <2>1. q = FinishDirect(o, c, p, "error")
    BY <1>4 DEF OnTimeout
  <2>2. Alike(p, r)
    BY <1>0 DEF Alike, Job
  <2> HIDE DEF p
  <2>3. Stage(o, ev, p) /\ p.phase = "direct" /\ p.warned = r.warned /\ p.late = r.late
    BY <1>4, <2>2, AlikeStage DEF Alike
  <2>4. Stage(o, ev, q) /\ (p.warned => q.warned) /\ q.late = p.late
        /\ (c[Dest[o]] # "up" => q.warned)
    BY <2>1, <2>3, FinishDirectStage
  <2>5. ~Won(r)
    BY <1>4 DEF Won, Stage, Loose, Answering
  <2>6. QED  BY <1>4, <2>3, <2>4, <2>5 DEF Follows
<1>5. CASE /\ r.phase \notin Idle /\ ~r.late
           /\ ~(r.slow /\ r.phase = "direct" /\ ~r.started)
           /\ ~(r.slow /\ r.phase = "untrusting")
  <2>1. q = r
    BY <1>5 DEF OnTimeout, Idle
  <2>2. QED  BY <1>5, <2>1, FollowsSame
<1>6. QED  BY <1>1, <1>2, <1>3, <1>4, <1>5

\* What one frame makes of a job that is not over: every request whose total
\* deadline has passed is answered, a success is never turned into a failure,
\* and a failed revocation or a dead destination is told to the user.
LEMMA AdvanceStage ==
  ASSUME TypeOK, NEW o \in Ops, NEW c, Reachable(o, c), NEW ev, NEW in \in SUBSET ev, NEW r,
         Stage(o, ev, r), NEW q, q = Advance(o, c, in, r)
  PROVE  /\ Stage(o, ev, q) /\ Follows(q, r)
         /\ (<<"untrusted", FALSE>> \in in /\ r.phase # "done") => q.warned
         /\ (q.phase \notin Idle /\ c[Dest[o]] # "up") => q.warned
         /\ q.phase # "done" => ~q.late
<1>1. PICK r1 : r1 = OnTrusted(o, c, in, r)
  OBVIOUS
<1>2. PICK r2 : r2 = OnStarted(in, r1)
  OBVIOUS
<1>3. PICK r3 : r3 = OnDirectDone(o, c, in, r2)
  OBVIOUS
<1>4. PICK r4 : r4 = OnUntrusted(o, c, in, r3)
  OBVIOUS
<1>5. PICK r5 : r5 = OnRelaySource(o, c, in, r4)
  OBVIOUS
<1>6. PICK r6 : r6 = OnCopyDone(o, c, in, r5)
  OBVIOUS
<1>7. PICK r7 : r7 = OnDeadSession(o, c, r6)
  OBVIOUS
<1>8. q = OnTimeout(o, c, r7)
  BY <1>1, <1>2, <1>3, <1>4, <1>5, <1>6, <1>7 DEF Advance
<1>11. Stage(o, ev, r1) /\ Follows(r1, r) /\ (r.phase # "trusting" => r1 = r)
  BY <1>1, OnTrustedStage
<1>12. Stage(o, ev, r2) /\ Follows(r2, r1) /\ (r1.phase # "direct" => r2 = r1)
  BY <1>2, <1>11, OnStartedStage
<1>13. Stage(o, ev, r3) /\ Follows(r3, r2) /\ (r2.phase # "direct" => r3 = r2)
  BY <1>3, <1>12, OnDirectDoneStage
<1>14. /\ Stage(o, ev, r4) /\ Follows(r4, r3)
       /\ (<<"untrusted", FALSE>> \in in /\ r3.phase # "done") => r4.warned
  BY <1>4, <1>13, OnUntrustedStage
<1>15. Stage(o, ev, r5) /\ Follows(r5, r4)
  BY <1>5, <1>14, OnRelaySourceStage
<1>16. Stage(o, ev, r6) /\ Follows(r6, r5)
  BY <1>6, <1>15, OnCopyDoneStage
<1>17. /\ Stage(o, ev, r7) /\ Follows(r7, r6)
       /\ (r7.phase \notin Idle /\ c[Dest[o]] # "up") => r7.warned
  BY <1>7, <1>16, OnDeadSessionStage
<1>18. /\ Stage(o, ev, q) /\ Follows(q, r7)
       /\ (q.phase \notin Idle /\ c[Dest[o]] # "up") => q.warned
       /\ q.phase # "done" => ~q.late
  BY <1>8, <1>17, OnTimeoutStage
<1>19. Follows(r2, r) /\ Follows(r3, r) /\ Follows(r5, r4) /\ Follows(r6, r4)
  BY <1>11, <1>12, <1>13, <1>15, <1>16, FollowsTransitive
<1>20. Follows(r7, r4)
  BY <1>17, <1>19, FollowsTransitive
<1>21. Follows(q, r4)
  BY <1>18, <1>20, FollowsTransitive
<1>22. Follows(q, r3)
  BY <1>14, <1>21, FollowsTransitive
<1>23. Follows(q, r)
  BY <1>19, <1>22, FollowsTransitive
<1>24. (<<"untrusted", FALSE>> \in in /\ r.phase # "done") => q.warned
  <2>1. SUFFICES ASSUME <<"untrusted", FALSE>> \in in, r.phase # "done" PROVE q.warned
    OBVIOUS
  <2>2. <<"untrusted", FALSE>> \in ev
    BY <2>1
  <2>3. r.phase # "trusting" /\ r.phase # "direct"
    BY <2>2 DEF Stage, KeyPhase
  <2>4. r1 = r /\ r2 = r /\ r3 = r
    BY <1>11, <1>12, <1>13, <2>3
  <2>5. r4.warned
    BY <1>14, <2>1, <2>4
  <2>6. QED  BY <1>21, <2>5 DEF Follows
<1>25. QED  BY <1>18, <1>23, <1>24

LEMMA AdvanceIdle ==
  ASSUME NEW o, NEW c, NEW in, NEW r, r.phase \in Idle
  PROVE  Advance(o, c, in, r) = r
<1>1. OnTrusted(o, c, in, r) = r
  BY DEF OnTrusted, Idle
<1>2. OnStarted(in, r) = r
  BY DEF OnStarted, Idle
<1>3. OnDirectDone(o, c, in, r) = r
  BY DEF OnDirectDone, Idle
<1>4. OnUntrusted(o, c, in, r) = r
  BY DEF OnUntrusted, Idle
<1>5. OnRelaySource(o, c, in, r) = r
  BY DEF OnRelaySource, Idle
<1>6. OnCopyDone(o, c, in, r) = r
  BY DEF OnCopyDone, Idle
<1>7. OnDeadSession(o, c, r) = r
  BY DEF OnDeadSession, Idle
<1>8. OnTimeout(o, c, r) = r
  BY DEF OnTimeout, Idle
<1>9. QED  BY <1>1, <1>2, <1>3, <1>4, <1>5, <1>6, <1>7, <1>8 DEF Advance

\* Fewer waiting events and more known faults weaken nothing that a copy in
\* the same state relies on.
LEMMA FewerEvents ==
  ASSUME NEW r, NEW t, NEW ev, NEW ev2 \in SUBSET ev, NEW f, NEW k, NEW fl, NEW fl2,
         fl # {} => fl2 # {}
  PROVE  /\ Answering(r, t, ev, f, FALSE) => Answering(r, t, ev2, f, FALSE)
         /\ KeyOnce(r, t, ev) => KeyOnce(r, t, ev2)
         /\ KeyPhase(r, t, ev, k, fl, FALSE) => KeyPhase(r, t, ev2, k, fl2, FALSE)
<1>1. Answering(r, t, ev, f, FALSE) => Answering(r, t, ev2, f, FALSE)
  BY DEF Answering
<1>2. KeyOnce(r, t, ev) => KeyOnce(r, t, ev2)
  BY DEF KeyOnce
<1>3. KeyPhase(r, t, ev, k, fl, FALSE) => KeyPhase(r, t, ev2, k, fl2, FALSE)
  BY DEF KeyPhase
<1>4. QED  BY <1>1, <1>2, <1>3

LEMMA StageOfInv ==
  ASSUME NEW o, CopyInv(o), ~exited, exited \in BOOLEAN, job[o] \in Job, job[o].phase \notin Idle
  PROVE  Stage(o, inbox[o], job[o])
<1>1. exited = FALSE
  OBVIOUS
<1>2. /\ Answering(job[o], tasks[o], inbox[o], file[o], FALSE)
      /\ Cancelling(job[o], tasks[o], worker[Src[o]], worker[Dest[o]])
      /\ KeyOnce(job[o], tasks[o], inbox[o])
      /\ KeyPhase(job[o], tasks[o], inbox[o], keys[o], fault[o], FALSE)
      /\ job[o].phase \in {"untrusting", "reading", "writing"} =>
           Explained(job[o], tasks[o], inbox[o], keys[o], fault[o], worker[Dest[o]])
  BY <1>1 DEF CopyInv, Keying
<1>3. QED  BY <1>2 DEF Stage, Loose, Idle

\* The frame, copy by copy: in the events it handles, c what it knows of the
\* connections.
LEMMA FrameJob ==
  ASSUME IInv, NEW in, NEW c, ~exited,
         \A s \in Sessions : c[s] = conn[s] \/ (c[s] = "down" /\ lost[s]),
         NEW o \in Ops, NEW q, q = Advance(o, c, inbox[o] \cap in, job[o])
  PROVE  /\ q \in Job
         /\ job[o].phase \in Idle => q = job[o]
         /\ job[o].phase \notin Idle =>
              /\ Stage(o, inbox[o], q) /\ Follows(q, job[o])
              /\ <<"untrusted", FALSE>> \in inbox[o] \cap in => q.warned
              /\ (q.phase \notin Idle /\ c[Dest[o]] # "up") => q.warned
              /\ q.phase # "done" => ~q.late
<1>1. TypeOK /\ job[o] \in Job /\ CopyInv(o) /\ exited \in BOOLEAN
      /\ Src[o] \in Sessions /\ Dest[o] \in Sessions
  BY CopyTypes DEF IInv, TypeOK
<1>2. Reachable(o, c)
  <2>1. ASSUME NEW s \in Sessions, worker[s] = "running" PROVE c[s] = "up"
    BY <2>1 DEF IInv, Linked
  <2>2. QED  BY <1>1, <2>1 DEF Reachable
<1>3. CASE job[o].phase \in Idle
  BY <1>1, <1>3, AdvanceIdle
<1>4. CASE job[o].phase \notin Idle
  <2>1. Stage(o, inbox[o], job[o])
    BY <1>1, <1>4, StageOfInv
  <2>2. PICK h \in SUBSET inbox[o] : h = inbox[o] \cap in
    OBVIOUS
  <2>3. q = Advance(o, c, h, job[o])
    BY <2>2
  <2>4. /\ Stage(o, inbox[o], q) /\ Follows(q, job[o])
        /\ (<<"untrusted", FALSE>> \in h /\ job[o].phase # "done") => q.warned
        /\ (q.phase \notin Idle /\ c[Dest[o]] # "up") => q.warned
        /\ q.phase # "done" => ~q.late
    BY <1>1, <1>2, <2>1, <2>3, AdvanceStage
  <2>5. q \in Job
    BY <2>4 DEF Stage, Loose
  <2>6. job[o].phase # "done"
    BY <1>4 DEF Idle
  <2>7. QED  BY <1>4, <2>2, <2>4, <2>5, <2>6
<1>5. QED  BY <1>3, <1>4

LEMMA FrameStep ==
  ASSUME IInv, Frame PROVE IInv'
<1>1. TypeOK /\ ~exited /\ exited \in BOOLEAN
  BY DEF IInv, Frame, TypeOK
<1>2. PICK in \in SUBSET UNION {inbox[o] : o \in Ops} :
        LET left(o)  == inbox[o] \ in
            noted(s) == lost[s] /\ \A o \in Ops : Waiting(o, s) \cap left(o) = {}
            c == [s \in Sessions |-> IF noted(s) THEN "down" ELSE conn[s]]
        IN /\ UNCHANGED <<worker, tasks, keys, file, revoked, losses, exited>>
           /\ conn' = c
           /\ lost' = [s \in Sessions |-> lost[s] /\ ~noted(s)]
           /\ job' = [o \in Ops |-> Advance(o, c, inbox[o] \cap in, job[o])]
           /\ inbox' = [o \in Ops |-> IF job'[o].phase = "done" THEN {} ELSE left(o)]
           /\ fault' = [o \in Ops |-> fault[o] \cup {f \in {"dead", "unheard"} :
                /\ job[o].phase # "done" /\ job'[o].phase = "done" /\ ~job'[o].warned
                /\ f = "dead" => worker[Dest[o]] # "running"
                /\ f = "unheard" => <<"untrusted", FALSE>> \in left(o)}]
  BY DEF Frame
<1> DEFINE noted(s) == lost[s] /\ \A o \in Ops : Waiting(o, s) \cap (inbox[o] \ in) = {}
           c == [s \in Sessions |-> IF noted(s) THEN "down" ELSE conn[s]]
<1>3. /\ UNCHANGED <<worker, tasks, keys, file, revoked, losses, exited>>
      /\ conn' = c
      /\ lost' = [s \in Sessions |-> lost[s] /\ ~noted(s)]
      /\ job' = [o \in Ops |-> Advance(o, c, inbox[o] \cap in, job[o])]
      /\ inbox' = [o \in Ops |-> IF job'[o].phase = "done" THEN {} ELSE inbox[o] \ in]
      /\ fault' = [o \in Ops |-> fault[o] \cup {f \in {"dead", "unheard"} :
           /\ job[o].phase # "done" /\ job'[o].phase = "done" /\ ~job'[o].warned
           /\ f = "dead" => worker[Dest[o]] # "running"
           /\ f = "unheard" => <<"untrusted", FALSE>> \in inbox[o] \ in}]
  BY <1>2
<1>11. c \in [Sessions -> {"up", "down", "gone"}] /\ lost' \in [Sessions -> BOOLEAN]
  BY <1>1, <1>3 DEF TypeOK
<1>12. ASSUME NEW s \in Sessions
       PROVE  \/ c[s] = conn[s] /\ lost'[s] = lost[s]
              \/ c[s] = "down" /\ lost[s] /\ ~lost'[s]
  <2>1. lost[s] \in BOOLEAN /\ lost'[s] = (lost[s] /\ ~noted(s))
        /\ c[s] = IF noted(s) THEN "down" ELSE conn[s]
    BY <1>1, <1>3 DEF TypeOK
  <2>2. noted(s) => lost[s]
    OBVIOUS
  <2> HIDE DEF noted, c
  <2>3. QED  BY <2>1, <2>2
<1> HIDE DEF noted, c
<1>4. \A s \in Sessions : c[s] = conn[s] \/ (c[s] = "down" /\ lost[s])
  BY <1>12
<1>5. ASSUME NEW o \in Ops
      PROVE  /\ job'[o] \in Job
             /\ job[o].phase \in Idle => job'[o] = job[o]
             /\ job[o].phase \notin Idle =>
                  /\ Stage(o, inbox[o], job'[o]) /\ Follows(job'[o], job[o])
                  /\ <<"untrusted", FALSE>> \in inbox[o] \cap in => job'[o].warned
                  /\ (job'[o].phase \notin Idle /\ c[Dest[o]] # "up") => job'[o].warned
                  /\ job'[o].phase # "done" => ~job'[o].late
  <2>1. job'[o] = Advance(o, c, inbox[o] \cap in, job[o])
    BY <1>3
  <2>2. QED  BY <1>1, <1>4, <2>1, FrameJob
<1>6. TypeOK'
  <2>1. job' \in [Ops -> Job]
    BY <1>3, <1>5
  <2>2. inbox' \in [Ops -> SUBSET Events]
    BY <1>1, <1>3 DEF TypeOK
  <2>3. fault' \in [Ops -> SUBSET {"receipt", "outran", "unheard", "swallowed", "dead"}]
    BY <1>1, <1>3 DEF TypeOK
  <2>4. QED  BY <1>1, <1>3, <1>11, <2>1, <2>2, <2>3 DEF TypeOK
<1>7. \A s \in Sessions : Linked(conn'[s], worker'[s], lost'[s])
  BY <1>3, <1>12 DEF IInv, Linked
<1>8. ASSUME NEW o \in Ops PROVE CopyInv(o)'
  <2>1. /\ worker'[Src[o]] = worker[Src[o]] /\ worker'[Dest[o]] = worker[Dest[o]]
        /\ tasks'[o] = tasks[o] /\ keys'[o] = keys[o] /\ file'[o] = file[o]
        /\ revoked'[o] = revoked[o] /\ exited' = FALSE /\ exited = FALSE
        /\ CopyInv(o) /\ Dest[o] \in Sessions
    BY <1>1, <1>3, CopyTypes DEF IInv
  <2>2. /\ inbox'[o] \in SUBSET inbox[o]
        /\ inbox'[o] = IF job'[o].phase = "done" THEN {} ELSE inbox[o] \ in
        /\ fault[o] \subseteq fault'[o] /\ (fault[o] # {} => fault'[o] # {})
        /\ conn'[Dest[o]] = c[Dest[o]]
    BY <1>3
  <2>3. (job[o].phase # "done" /\ job'[o].phase = "done" /\ ~job'[o].warned
          /\ (worker[Dest[o]] # "running" \/ <<"untrusted", FALSE>> \in inbox[o] \ in))
        => fault'[o] # {}
    <3>1. ASSUME job[o].phase # "done", job'[o].phase = "done", ~job'[o].warned,
                 worker[Dest[o]] # "running"
          PROVE  "dead" \in fault'[o]
      BY <1>3, <3>1
    <3>2. ASSUME job[o].phase # "done", job'[o].phase = "done", ~job'[o].warned,
                 <<"untrusted", FALSE>> \in inbox[o] \ in
          PROVE  "unheard" \in fault'[o]
      BY <1>3, <3>2
    <3>3. QED  BY <3>1, <3>2
  <2>4. Manned(tasks'[o], worker'[Src[o]], worker'[Dest[o]])
    BY <2>1 DEF CopyInv
  <2>5. /\ Answering(job'[o], tasks[o], inbox[o], file[o], FALSE)
        /\ Cancelling(job'[o], tasks[o], worker[Src[o]], worker[Dest[o]])
        /\ KeyOnce(job'[o], tasks[o], inbox[o])
        /\ KeyPhase(job'[o], tasks[o], inbox[o], keys[o], fault[o], FALSE)
    <3>1. CASE job[o].phase \in Idle
      BY <1>5, <2>1, <3>1 DEF CopyInv, Keying
    <3>2. CASE job[o].phase \notin Idle
      BY <1>5, <3>2 DEF Stage, Loose
    <3>3. QED  BY <3>1, <3>2
  <2>6. /\ Answering(job'[o], tasks'[o], inbox'[o], file'[o], exited')
        /\ Cancelling(job'[o], tasks'[o], worker'[Src[o]], worker'[Dest[o]])
        /\ KeyOnce(job'[o], tasks'[o], inbox'[o])
        /\ KeyPhase(job'[o], tasks'[o], inbox'[o], keys'[o], fault'[o], exited')
    BY <2>1, <2>2, <2>5, FewerEvents
  <2>7. Keying(job'[o], tasks'[o], inbox'[o], keys'[o], revoked'[o], fault'[o],
               worker'[Dest[o]], conn'[Dest[o]], exited')
    <3>1. CASE job[o].phase \in Idle
      <4>1. job'[o] = job[o]
        BY <1>5, <3>1
      <4>2. job'[o].phase \notin {"untrusting", "reading", "writing"}
        BY <3>1, <4>1 DEF Idle
      <4>3. Keying(job[o], tasks[o], inbox[o], keys[o], revoked[o], fault[o],
                   worker[Dest[o]], conn[Dest[o]], exited)
        BY <2>1 DEF CopyInv
      <4>4. QED  BY <2>1, <2>2, <2>6, <3>1, <4>1, <4>2, <4>3 DEF Keying, Settled
    <3>2. CASE job[o].phase \notin Idle
      <4>1. /\ Stage(o, inbox[o], job'[o])
            /\ <<"untrusted", FALSE>> \in inbox[o] \cap in => job'[o].warned
            /\ (job'[o].phase \notin Idle /\ c[Dest[o]] # "up") => job'[o].warned
            /\ job[o].phase # "done"
        BY <1>5, <3>2 DEF Idle
      <4>2. job'[o].phase \in {"untrusting", "reading", "writing", "done"} =>
              Explained(job'[o], tasks[o], inbox[o], keys[o], fault[o], worker[Dest[o]])
        BY <4>1 DEF Stage
      <4>3. job'[o].phase \in {"untrusting", "reading", "writing"} =>
              Explained(job'[o], tasks'[o], inbox'[o], keys'[o], fault'[o], worker'[Dest[o]])
        BY <2>1, <2>2, <4>1, <4>2 DEF Explained
      <4>4. (conn'[Dest[o]] = "down" /\ job'[o].phase \notin Idle) => job'[o].warned
        BY <2>2, <4>1
      <4>5. (job'[o].phase = "done" /\ keys'[o] /\ ~job'[o].warned) =>
              fault'[o] # {} \/ (Removing(job'[o], tasks'[o]) /\ worker'[Dest[o]] = "running")
        BY <2>1, <2>2, <2>3, <4>1, <4>2 DEF Explained
      <4>6. job'[o].phase = "done" => Settled(job'[o], tasks'[o], revoked'[o], fault'[o])
        BY <2>1, <2>2, <4>1 DEF Stage, Settled
      <4>7. QED  BY <2>6, <4>3, <4>4, <4>5, <4>6 DEF Keying
    <3>3. QED  BY <3>1, <3>2
  <2>8. QED  BY <2>4, <2>6, <2>7 DEF CopyInv
<1>9. exited' = FALSE
  BY <1>1, <1>3
<1>10. QED  BY <1>6, <1>7, <1>8, <1>9 DEF IInv

--------------------------------------------------------------------------------
(* The steps of one copy: the request, the deadlines and the tasks.        *)

\* A step that touches the records of one copy leaves the others as they are.
LEMMA OneCopy ==
  ASSUME IInv, TypeOK', UNCHANGED <<conn, worker, lost, exited>>, NEW o \in Ops, CopyInv(o)',
         \A p \in Ops : p # o =>
            /\ job'[p] = job[p] /\ tasks'[p] = tasks[p] /\ inbox'[p] = inbox[p]
            /\ keys'[p] = keys[p] /\ file'[p] = file[p] /\ revoked'[p] = revoked[p]
            /\ fault'[p] = fault[p]
  PROVE  IInv'
<1>1. ASSUME NEW p \in Ops, p # o PROVE CopyInv(p)'
  BY <1>1 DEF IInv, CopyInv
<1>2. \A p \in Ops : CopyInv(p)'
  BY <1>1
<1>3. QED  BY <1>2 DEF IInv

LEMMA CopyBetweenSessionsStep ==
  ASSUME IInv, NEW o \in Ops, CopyBetweenSessions(o) PROVE IInv'
<1> DEFINE r == job[o]
           q == [r EXCEPT !.phase = "trusting", !.toDest = <<"trust">>]
<1>1. TypeOK /\ CopyInv(o) /\ r \in Job /\ r.phase = "none" /\ conn[Dest[o]] = "up"
  BY CopyTypes DEF IInv, CopyBetweenSessions
<1>2. /\ UNCHANGED <<conn, worker, lost, inbox, tasks, keys, file, revoked, fault, losses, exited>>
      /\ job' = [job EXCEPT ![o] = q] /\ job \in [Ops -> Job]
  BY <1>1 DEF CopyBetweenSessions, TypeOK
<1>3. <<"trust">> \in Seq({"trust", "untrust", "write", "cancel"})
  OBVIOUS
<1>4. /\ q \in Job /\ q.phase = "trusting" /\ q.toDest = <<"trust">> /\ q.toSrc = r.toSrc
      /\ q.ans = r.ans /\ q.late = r.late /\ q.result = r.result /\ q.warned = r.warned
      /\ q.trusted = r.trusted
  BY <1>1, <1>3 DEF Job, Phases
<1>5. job'[o] = q /\ \A p \in Ops : p # o => job'[p] = job[p]
  BY <1>2
<1> HIDE DEF q
<1>6. TypeOK'
  BY <1>1, <1>2, <1>4 DEF TypeOK
<1>7. Manned(tasks[o], worker[Src[o]], worker[Dest[o]])
  BY <1>1 DEF CopyInv
<1>8. /\ Once(q.toDest, "trust") /\ ~Has(q.toDest, "write") /\ ~Has(q.toDest, "untrust")
      /\ ~Has(q.toDest, "cancel") /\ OnlyLast(q.toDest, "cancel")
  BY <1>4 DEF Once, Has, OnlyLast
<1>9. Answering(q, tasks[o], inbox[o], file[o], exited)
  BY <1>1, <1>4, <1>8 DEF CopyInv, Answering, Early, Idle
<1>10. Cancelling(q, tasks[o], worker[Src[o]], worker[Dest[o]])
  BY <1>1, <1>4, <1>8 DEF CopyInv, Cancelling, Answering
<1>11. Keying(q, tasks[o], inbox[o], keys[o], revoked[o], fault[o], worker[Dest[o]],
              conn[Dest[o]], exited)
  BY <1>1, <1>4, <1>8 DEF CopyInv, Keying, KeyOnce, KeyPhase, Removing, Pending, Idle
<1>12. CopyInv(o)'
  BY <1>2, <1>5, <1>7, <1>9, <1>10, <1>11 DEF CopyInv
<1>13. QED  BY <1>2, <1>5, <1>6, <1>12, OneCopy

LEMMA DeadlinePassesStep ==
  ASSUME IInv, NEW o \in Ops, DeadlinePasses(o) PROVE IInv'
<1> DEFINE r == job[o]
<1>1. TypeOK /\ CopyInv(o) /\ r \in Job /\ r.phase \notin Idle
  BY CopyTypes DEF IInv, DeadlinePasses, Idle
<1>2. /\ UNCHANGED <<conn, worker, lost, inbox, tasks, keys, file, revoked, fault, losses, exited>>
      /\ job \in [Ops -> Job]
      /\ \/ job' = [job EXCEPT ![o] = [r EXCEPT !.late = TRUE]]
         \/ job' = [job EXCEPT ![o] = [r EXCEPT !.slow = TRUE]]
  BY <1>1 DEF DeadlinePasses, TypeOK
<1>3. PICK q \in Job :
        /\ q.phase = r.phase /\ q.toDest = r.toDest /\ q.toSrc = r.toSrc
        /\ q.ans = r.ans /\ q.result = r.result /\ q.warned = r.warned /\ q.trusted = r.trusted
        /\ job' = [job EXCEPT ![o] = q]
  <2>1. ASSUME job' = [job EXCEPT ![o] = [r EXCEPT !.late = TRUE]]
        PROVE  [r EXCEPT !.late = TRUE] \in Job
    BY <1>1 DEF Job
  <2>2. ASSUME job' = [job EXCEPT ![o] = [r EXCEPT !.slow = TRUE]]
        PROVE  [r EXCEPT !.slow = TRUE] \in Job
    BY <1>1 DEF Job
  <2>3. CASE job' = [job EXCEPT ![o] = [r EXCEPT !.late = TRUE]]
    <3> DEFINE q == [r EXCEPT !.late = TRUE]
    <3>1. /\ q.phase = r.phase /\ q.toDest = r.toDest /\ q.toSrc = r.toSrc
          /\ q.ans = r.ans /\ q.result = r.result /\ q.warned = r.warned /\ q.trusted = r.trusted
      BY <1>1 DEF Job
    <3>2. q \in Job /\ job' = [job EXCEPT ![o] = q]
      BY <2>1, <2>3
    <3> HIDE DEF q
    <3>3. QED  BY <3>1, <3>2
  <2>4. CASE job' = [job EXCEPT ![o] = [r EXCEPT !.slow = TRUE]]
    <3> DEFINE q == [r EXCEPT !.slow = TRUE]
    <3>1. /\ q.phase = r.phase /\ q.toDest = r.toDest /\ q.toSrc = r.toSrc
          /\ q.ans = r.ans /\ q.result = r.result /\ q.warned = r.warned /\ q.trusted = r.trusted
      BY <1>1 DEF Job
    <3>2. q \in Job /\ job' = [job EXCEPT ![o] = q]
      BY <2>2, <2>4
    <3> HIDE DEF q
    <3>3. QED  BY <3>1, <3>2
  <2>5. QED  BY <1>2, <2>3, <2>4
<1>4. job'[o] = q /\ \A p \in Ops : p # o => job'[p] = job[p]
  BY <1>2, <1>3
<1>5. TypeOK'
  BY <1>1, <1>2, <1>3 DEF TypeOK
<1>6. Answering(q, tasks[o], inbox[o], file[o], exited)
  BY <1>1, <1>3 DEF CopyInv, Answering
<1>7. Cancelling(q, tasks[o], worker[Src[o]], worker[Dest[o]])
  BY <1>1, <1>3 DEF CopyInv, Cancelling
<1>8. Keying(q, tasks[o], inbox[o], keys[o], revoked[o], fault[o], worker[Dest[o]],
             conn[Dest[o]], exited)
  BY <1>1, <1>3 DEF CopyInv, Keying, KeyOnce, KeyPhase, Removing, Pending, Explained, Settled
<1>9. CopyInv(o)'
  BY <1>1, <1>2, <1>4, <1>6, <1>7, <1>8 DEF CopyInv
<1>10. QED  BY <1>2, <1>4, <1>5, <1>9, OneCopy

\* A worker takes the first command of a queue.
LEMMA TakeDestStep ==
  ASSUME IInv, NEW o \in Ops, TakeDest(o) PROVE IInv'
<1> DEFINE r == job[o]
           t == tasks[o]
           q == [r EXCEPT !.toDest = Tail(@)]
           m == Head(r.toDest)
<1>1. /\ TypeOK /\ CopyInv(o) /\ r \in Job /\ t \in Tasks
      /\ ~exited /\ worker[Dest[o]] = "running" /\ r.toDest # <<>>
      /\ UNCHANGED <<conn, worker, lost, inbox, keys, file, revoked, fault, losses, exited>>
      /\ job' = [job EXCEPT ![o] = q]
  BY CopyTypes DEF IInv, TakeDest, TypeOK
<1>2. /\ r.toDest \in Seq(DestCmd) /\ m \in DestCmd /\ Tail(r.toDest) \in Seq(DestCmd)
  BY <1>1 DEF Job, DestCmd
<1>3. PICK u : /\ tasks' = [tasks EXCEPT ![o] = u]
               /\ u = CASE m = "trust"   -> [t EXCEPT !.trust = TRUE]
                       [] m = "untrust" -> [t EXCEPT !.revoke = @ + 1]
                       [] m = "write"   -> [t EXCEPT !.writer = "open"]
                       [] m = "cancel"  -> [t EXCEPT !.writer = IF @ = "open" THEN "cancelled" ELSE @]
  BY DEF TakeDest
<1>4. /\ q \in Job /\ q.phase = r.phase /\ q.toDest = Tail(r.toDest) /\ q.toSrc = r.toSrc
      /\ q.ans = r.ans /\ q.late = r.late /\ q.result = r.result /\ q.warned = r.warned
      /\ q.trusted = r.trusted
  BY <1>1, <1>2 DEF Job, DestCmd
<1>5. /\ u \in Tasks
      /\ u.direct = t.direct /\ u.remote = t.remote /\ u.reader = t.reader /\ u.pipe = t.pipe
      /\ u.trust <=> t.trust \/ m = "trust"
      /\ u.revoke > 0 <=> t.revoke > 0 \/ m = "untrust"
      /\ (u.writer = "open" <=> m = "write" \/ (t.writer = "open" /\ m # "cancel"))
      /\ (u.writer = "none" => t.writer = "none" /\ m # "write")
      /\ (m # "write" /\ t.writer = "none" => u.writer = "none")
  <2>1. CASE m = "trust"
    <3>1. u = [t EXCEPT !.trust = TRUE]
      BY <1>3, <2>1
    <3>2. QED  BY <1>1, <2>1, <3>1 DEF Tasks
  <2>2. CASE m = "untrust"
    <3>1. u = [t EXCEPT !.revoke = t.revoke + 1]
      BY <1>3, <2>2
    <3>2. QED  BY <1>1, <2>2, <3>1 DEF Tasks
  <2>3. CASE m = "write"
    <3>1. u = [t EXCEPT !.writer = "open"]
      BY <1>3, <2>3
    <3>2. QED  BY <1>1, <2>3, <3>1 DEF Tasks
  <2>4. CASE m = "cancel"
    <3>1. u = [t EXCEPT !.writer = IF t.writer = "open" THEN "cancelled" ELSE t.writer]
      BY <1>3, <2>4
    <3>2. QED  BY <1>1, <2>4, <3>1 DEF Tasks
  <2>5. QED  BY <1>2, <2>1, <2>2, <2>3, <2>4 DEF DestCmd
<1>6. /\ job'[o] = q /\ tasks'[o] = u
      /\ \A p \in Ops : p # o => job'[p] = job[p] /\ tasks'[p] = tasks[p]
  BY <1>1, <1>3 DEF TypeOK
<1>7. ASSUME NEW n PROVE Has(r.toDest, n) <=> m = n \/ Has(q.toDest, n)
  BY <1>1, <1>2, <1>4, HasTail
<1>8. /\ Once(r.toDest, "trust") /\ OnlyLast(r.toDest, "cancel")
  BY <1>1 DEF CopyInv, Keying, KeyOnce, Cancelling
<1>9. /\ Once(q.toDest, "trust") /\ (m = "trust" => ~Has(q.toDest, "trust"))
      /\ OnlyLast(q.toDest, "cancel") /\ (m = "cancel" => q.toDest = <<>>)
      /\ (r.toDest[Len(r.toDest)] = "cancel" /\ m # "cancel" => LastCancel(q.toDest))
  BY <1>1, <1>2, <1>4, <1>8, OnceTail, LastTail DEF LastCancel
<1>10. TypeOK'
  BY <1>1, <1>3, <1>4, <1>5 DEF TypeOK
<1> HIDE DEF q, m
<1>11. Manned(u, worker[Src[o]], worker[Dest[o]])
  BY <1>1, <1>5 DEF CopyInv, Manned
<1>12. Answering(q, u, inbox[o], file[o], exited)
  BY <1>1, <1>4, <1>5, <1>7 DEF CopyInv, Answering
<1>13. Cancelling(q, u, worker[Src[o]], worker[Dest[o]])
  <2>1. Cancelling(r, t, worker[Src[o]], worker[Dest[o]])
    BY <1>1 DEF CopyInv
  <2>2. Has(q.toSrc, "cancel") \/ Has(q.toDest, "cancel") => q.ans = "error"
    BY <1>4, <1>7, <2>1 DEF Cancelling
  <2>3. (q.ans = "error" /\ worker[Src[o]] = "running"
          /\ (u.reader \in {"open", "streaming"} \/ Has(q.toSrc, "read"))) => LastCancel(q.toSrc)
    BY <1>4, <1>5, <2>1 DEF Cancelling
  <2>4. ASSUME q.ans = "error", u.writer = "open" \/ Has(q.toDest, "write")
        PROVE  LastCancel(q.toDest)
    <3>1. m # "cancel"
      BY <1>5, <1>9, <2>4 DEF Has
    <3>2. t.writer = "open" \/ Has(r.toDest, "write")
      BY <1>5, <1>7, <2>4
    <3>3. LastCancel(r.toDest)
      BY <1>1, <1>4, <2>1, <2>4, <3>2 DEF Cancelling
    <3>4. QED  BY <1>9, <3>1, <3>3 DEF LastCancel
  <2>5. QED  BY <1>4, <1>8, <1>9, <2>1, <2>2, <2>3, <2>4 DEF Cancelling
<1>14. Keying(q, u, inbox[o], keys[o], revoked[o], fault[o], worker[Dest[o]],
              conn[Dest[o]], exited)
  <2>1. (Pending(q, u) <=> Pending(r, t)) /\ (Removing(q, u) <=> Removing(r, t))
    BY <1>5, <1>7 DEF Pending, Removing
  <2>2. Keying(r, t, inbox[o], keys[o], revoked[o], fault[o], worker[Dest[o]],
               conn[Dest[o]], exited)
    BY <1>1 DEF CopyInv
  <2>3. KeyOnce(q, u, inbox[o])
    <3>1. KeyOnce(r, t, inbox[o])
      BY <2>2 DEF Keying
    <3>2. u.trust => ~Has(q.toDest, "trust")
      BY <1>5, <1>7, <1>9, <3>1 DEF KeyOnce
    <3>3. QED  BY <1>9, <2>1, <3>1, <3>2 DEF KeyOnce
  <2>4. KeyPhase(q, u, inbox[o], keys[o], fault[o], exited)
    BY <1>1, <1>4, <2>1, <2>2 DEF Keying, KeyPhase
  <2>5. QED  BY <1>4, <2>1, <2>2, <2>3, <2>4 DEF Keying, Explained, Settled
<1>15. CopyInv(o)'
  BY <1>1, <1>6, <1>11, <1>12, <1>13, <1>14 DEF CopyInv
<1>16. QED  BY <1>1, <1>6, <1>10, <1>15, OneCopy

LEMMA TakeSrcStep ==
  ASSUME IInv, NEW o \in Ops, TakeSrc(o) PROVE IInv'
<1> DEFINE r == job[o]
           t == tasks[o]
           q == [r EXCEPT !.toSrc = Tail(@)]
           m == Head(r.toSrc)
<1>1. /\ TypeOK /\ CopyInv(o) /\ r \in Job /\ t \in Tasks
      /\ exited = FALSE /\ worker[Src[o]] = "running" /\ r.toSrc # <<>>
      /\ UNCHANGED <<conn, worker, lost, inbox, keys, file, revoked, fault, losses, exited>>
      /\ job' = [job EXCEPT ![o] = q]
  BY CopyTypes DEF IInv, TakeSrc, TypeOK
<1>2. /\ r.toSrc \in Seq(SrcCmd) /\ m \in SrcCmd /\ Tail(r.toSrc) \in Seq(SrcCmd)
  BY <1>1 DEF Job, SrcCmd
<1>3. PICK u : /\ tasks' = [tasks EXCEPT ![o] = u]
               /\ u = CASE m = "direct" -> [t EXCEPT !.direct = "prep"]
                       [] m = "read"   -> [t EXCEPT !.reader = "open"]
                       [] m = "cancel" ->
                   [t EXCEPT !.reader = IF @ \in {"open", "streaming"} THEN "cancelled" ELSE @]
  BY DEF TakeSrc
<1>4. /\ q \in Job /\ q.phase = r.phase /\ q.toSrc = Tail(r.toSrc) /\ q.toDest = r.toDest
      /\ q.ans = r.ans /\ q.late = r.late /\ q.result = r.result /\ q.warned = r.warned
      /\ q.trusted = r.trusted
  BY <1>1, <1>2 DEF Job, SrcCmd
<1>5. /\ u \in Tasks
      /\ u.trust = t.trust /\ u.revoke = t.revoke /\ u.remote = t.remote
      /\ u.writer = t.writer /\ u.pipe = t.pipe
      /\ m = "read" => u.reader = "open"
      /\ (m = "cancel" /\ t.reader \in {"open", "streaming"}) => u.reader = "cancelled"
      /\ (m # "read" /\ (m # "cancel" \/ t.reader \notin {"open", "streaming"})) => u.reader = t.reader
  <2>1. CASE m = "direct"
    <3>1. u = [t EXCEPT !.direct = "prep"]
      BY <1>3, <2>1
    <3>2. QED  BY <1>1, <2>1, <3>1 DEF Tasks
  <2>2. CASE m = "read"
    <3>1. u = [t EXCEPT !.reader = "open"]
      BY <1>3, <2>2
    <3>2. QED  BY <1>1, <2>2, <3>1 DEF Tasks
  <2>3. CASE m = "cancel"
    <3>1. u = [t EXCEPT !.reader = IF t.reader \in {"open", "streaming"} THEN "cancelled" ELSE t.reader]
      BY <1>3, <2>3
    <3>2. QED  BY <1>1, <2>3, <3>1 DEF Tasks
  <2>4. QED  BY <1>2, <2>1, <2>2, <2>3 DEF SrcCmd
<1>6. /\ job'[o] = q /\ tasks'[o] = u
      /\ \A p \in Ops : p # o => job'[p] = job[p] /\ tasks'[p] = tasks[p]
  BY <1>1, <1>3 DEF TypeOK
<1>7. ASSUME NEW n PROVE Has(r.toSrc, n) <=> m = n \/ Has(q.toSrc, n)
  BY <1>1, <1>2, <1>4, HasTail
<1>8. /\ Once(r.toSrc, "read") /\ OnlyLast(r.toSrc, "cancel")
  BY <1>1 DEF CopyInv, Answering, Cancelling
<1>9. /\ Once(q.toSrc, "read") /\ (m = "read" => ~Has(q.toSrc, "read"))
      /\ OnlyLast(q.toSrc, "cancel") /\ (m = "cancel" => q.toSrc = <<>>)
      /\ (r.toSrc[Len(r.toSrc)] = "cancel" /\ m # "cancel" => LastCancel(q.toSrc))
  BY <1>1, <1>2, <1>4, <1>8, OnceTail, LastTail DEF LastCancel
<1>10. TypeOK'
  BY <1>1, <1>3, <1>4, <1>5 DEF TypeOK
<1> HIDE DEF q, m
<1>11. Manned(u, worker[Src[o]], worker[Dest[o]])
  BY <1>1, <1>5 DEF CopyInv, Manned
<1>12. Answering(q, u, inbox[o], file[o], FALSE)
  <2>1. Answering(r, t, inbox[o], file[o], FALSE)
    BY <1>1 DEF CopyInv
  <2>2. u.reader # "none" => ~Has(q.toSrc, "read")
    BY <1>5, <1>7, <1>9, <2>1 DEF Answering
  <2>3. u.pipe # "open" => u.reader = "over"
    BY <1>5, <1>7, <2>1 DEF Answering
  <2>4. (r.phase \in Early \/ r.ans = "direct") => m # "read" /\ u.reader = "none"
    BY <1>5, <1>7, <2>1 DEF Answering
  <2>5. QED  BY <1>4, <1>5, <1>7, <1>9, <2>1, <2>2, <2>3, <2>4 DEF Answering
<1>13. Cancelling(q, u, worker[Src[o]], worker[Dest[o]])
  <2>1. Cancelling(r, t, worker[Src[o]], worker[Dest[o]])
    BY <1>1 DEF CopyInv
  <2>2. Has(q.toSrc, "cancel") \/ Has(q.toDest, "cancel") => q.ans = "error"
    BY <1>4, <1>7, <2>1 DEF Cancelling
  <2>3. (q.ans = "error" /\ worker[Dest[o]] = "running"
          /\ (u.writer = "open" \/ Has(q.toDest, "write"))) => LastCancel(q.toDest)
    BY <1>4, <1>5, <2>1 DEF Cancelling
  <2>4. ASSUME q.ans = "error", u.reader \in {"open", "streaming"} \/ Has(q.toSrc, "read")
        PROVE  LastCancel(q.toSrc)
    <3>1. m # "cancel"
      BY <1>5, <1>9, <2>4 DEF Has
    <3>2. t.reader \in {"open", "streaming"} \/ Has(r.toSrc, "read")
      BY <1>5, <1>7, <2>4, <3>1
    <3>3. LastCancel(r.toSrc)
      BY <1>1, <1>4, <2>1, <2>4, <3>2 DEF Cancelling
    <3>4. QED  BY <1>9, <3>1, <3>3 DEF LastCancel
  <2>5. QED  BY <1>4, <1>8, <1>9, <2>1, <2>2, <2>3, <2>4 DEF Cancelling
<1>14. Keying(q, u, inbox[o], keys[o], revoked[o], fault[o], worker[Dest[o]],
              conn[Dest[o]], exited)
  BY <1>1, <1>4, <1>5 DEF CopyInv, Keying, KeyOnce, KeyPhase, Explained, Settled, Pending, Removing
<1>15. CopyInv(o)'
  BY <1>1, <1>6, <1>11, <1>12, <1>13, <1>14 DEF CopyInv
<1>16. QED  BY <1>1, <1>6, <1>10, <1>15, OneCopy

\* What telling the application an event does to the waiting ones.
LEMMA TellEvent ==
  ASSUME TypeOK, NEW o \in Ops, NEW e \in Events,
         inbox' = [inbox EXCEPT ![o] = IF job[o].phase = "done" THEN @ ELSE @ \cup {e}]
  PROVE  /\ inbox' \in [Ops -> SUBSET Events]
         /\ \A p \in Ops : p # o => inbox'[p] = inbox[p]
         /\ job[o].phase = "done" => inbox'[o] = inbox[o]
         /\ job[o].phase # "done" => inbox'[o] = inbox[o] \cup {e}
BY DEF TypeOK

LEMMA TrustTempKeyStep ==
  ASSUME IInv, NEW o \in Ops, TrustTempKey(o) PROVE IInv'
<1> DEFINE r == job[o]
           t == tasks[o]
           u == [t EXCEPT !.trust = FALSE]
<1>1. PICK appended \in BOOLEAN, ok \in BOOLEAN :
        /\ ok => appended
        /\ tasks' = [tasks EXCEPT ![o] = u]
        /\ keys' = [keys EXCEPT ![o] = @ \/ appended]
        /\ inbox' = [inbox EXCEPT ![o] =
             IF job[o].phase = "done" THEN @ ELSE @ \cup {<<"trusted", ok>>}]
        /\ fault' = [fault EXCEPT ![o] = @ \cup {f \in {"receipt", "outran"} :
             appended /\ (f = "receipt" => ~ok) /\ (f = "outran" => revoked[o])}]
  BY DEF TrustTempKey, Tell
<1>2. /\ TypeOK /\ CopyInv(o) /\ r \in Job /\ t \in Tasks /\ keys[o] \in BOOLEAN
      /\ exited = FALSE /\ t.trust
      /\ UNCHANGED <<job, conn, worker, lost, file, revoked, losses, exited>>
  BY CopyTypes DEF IInv, TrustTempKey, TypeOK
<1>3. /\ u \in Tasks /\ ~u.trust /\ u.revoke = t.revoke /\ u.direct = t.direct
      /\ u.remote = t.remote /\ u.reader = t.reader /\ u.writer = t.writer /\ u.pipe = t.pipe
  BY <1>2 DEF Tasks
<1> HIDE DEF u
<1>4. /\ tasks'[o] = u /\ (\A p \in Ops : p # o => tasks'[p] = tasks[p])
      /\ tasks' \in [Ops -> Tasks]
  BY <1>1, <1>2, <1>3 DEF TypeOK
<1>5. /\ keys'[o] = (keys[o] \/ appended) /\ (\A p \in Ops : p # o => keys'[p] = keys[p])
      /\ keys' \in [Ops -> BOOLEAN]
  BY <1>1, <1>2 DEF TypeOK
<1>6. <<"trusted", ok>> \in Events
  BY DEF Events
<1>7. /\ inbox' \in [Ops -> SUBSET Events]
      /\ \A p \in Ops : p # o => inbox'[p] = inbox[p]
      /\ r.phase = "done" => inbox'[o] = inbox[o]
      /\ r.phase # "done" => inbox'[o] = inbox[o] \cup {<<"trusted", ok>>}
  BY <1>1, <1>2, <1>6, TellEvent
<1>8. /\ fault'[o] = fault[o] \cup {f \in {"receipt", "outran"} :
             appended /\ (f = "receipt" => ~ok) /\ (f = "outran" => revoked[o])}
      /\ \A p \in Ops : p # o => fault'[p] = fault[p]
      /\ fault' \in [Ops -> SUBSET {"receipt", "outran", "unheard", "swallowed", "dead"}]
  BY <1>1, <1>2 DEF TypeOK
<1>9. /\ fault[o] # {} => fault'[o] # {}
      /\ (appended /\ ~ok) => fault'[o] # {}
      /\ (appended /\ revoked[o]) => fault'[o] # {}
  <2>1. ASSUME appended, ~ok PROVE "receipt" \in fault'[o]
    BY <1>8, <2>1
  <2>2. ASSUME appended, revoked[o] PROVE "outran" \in fault'[o]
    BY <1>8, <2>2
  <2>3. QED  BY <1>8, <2>1, <2>2
<1>10. TypeOK'
  BY <1>2, <1>4, <1>5, <1>7, <1>8 DEF TypeOK
<1>11. Manned(u, worker[Src[o]], worker[Dest[o]]) /\ worker[Dest[o]] = "running"
  BY <1>2, <1>3 DEF CopyInv, Manned
<1>12. /\ <<"copied", TRUE>> \in inbox'[o] => <<"copied", TRUE>> \in inbox[o]
       /\ <<"direct", TRUE>> \in inbox'[o] => <<"direct", TRUE>> \in inbox[o]
       /\ <<"untrusted", TRUE>> \in inbox'[o] => <<"untrusted", TRUE>> \in inbox[o]
       /\ <<"untrusted", FALSE>> \in inbox'[o] => <<"untrusted", FALSE>> \in inbox[o]
       /\ inbox[o] \subseteq inbox'[o]
  BY <1>7
<1>13. Answering(r, u, inbox'[o], file[o], FALSE)
  BY <1>2, <1>3, <1>12 DEF CopyInv, Answering
<1>14. Cancelling(r, u, worker[Src[o]], worker[Dest[o]])
  BY <1>2, <1>3 DEF CopyInv, Cancelling
<1>15. Keying(r, t, inbox[o], keys[o], revoked[o], fault[o], worker[Dest[o]],
              conn[Dest[o]], FALSE)
  BY <1>2 DEF CopyInv
<1>16. /\ Pending(r, t) /\ ~Pending(r, u) /\ (Removing(r, u) <=> Removing(r, t))
       /\ r.phase \in {"trusting", "done"}
       /\ <<"trusted", TRUE>> \notin inbox[o] /\ <<"trusted", FALSE>> \notin inbox[o]
  <2>1. Pending(r, t)
    BY <1>2 DEF Pending
  <2>2. /\ ~Pending(r, u) /\ (Removing(r, u) <=> Removing(r, t))
    BY <1>2, <1>3, <1>15 DEF Pending, Removing, Keying, KeyOnce
  <2>3. /\ r.phase \notin {"none", "direct", "untrusting", "reading", "writing"}
        /\ <<"trusted", TRUE>> \notin inbox[o] /\ <<"trusted", FALSE>> \notin inbox[o]
    BY <1>2, <1>15, <2>1 DEF Keying, KeyPhase, KeyOnce
  <2>4. r.phase \in Phases
    BY <1>2 DEF Job
  <2>5. QED  BY <2>1, <2>2, <2>3, <2>4 DEF Phases
<1>17. KeyOnce(r, u, inbox'[o])
  BY <1>3, <1>15, <1>16 DEF Keying, KeyOnce
<1>18. KeyPhase(r, u, inbox'[o], keys'[o], fault'[o], FALSE)
  <2>1. (r.phase = "trusting" /\ <<"trusted", FALSE>> \in inbox'[o] /\ keys'[o]) => fault'[o] # {}
    <3>1. ASSUME r.phase = "trusting", <<"trusted", FALSE>> \in inbox'[o], keys'[o]
          PROVE  fault'[o] # {}
      <4>1. ok = FALSE
        <5>1. <<"trusted", FALSE>> \in inbox[o] \cup {<<"trusted", ok>>}
          BY <1>7, <3>1
        <5>2. <<"trusted", FALSE>> = <<"trusted", ok>>
          BY <1>16, <5>1
        <5>3. <<"trusted", FALSE>>[2] = <<"trusted", ok>>[2]
          BY <5>2
        <5>4. QED  BY <5>3
      <4>2. ~keys[o]
        BY <1>2, <1>15, <1>16, <3>1 DEF Keying, KeyPhase
      <4>3. appended
        BY <1>5, <3>1, <4>2
      <4>4. QED  BY <1>9, <4>1, <4>3
    <3>2. QED  BY <3>1
  <2>2. QED  BY <1>12, <1>15, <1>16, <2>1 DEF Keying, KeyPhase
<1>19. ASSUME r.phase = "done", keys'[o], ~r.warned
       PROVE  fault'[o] # {} \/ (Removing(r, u) /\ worker[Dest[o]] = "running")
  <2>1. CASE keys[o]
    BY <1>9, <1>15, <1>16, <1>19, <2>1 DEF Keying
  <2>2. CASE ~keys[o]
    <3>1. appended
      BY <1>5, <1>19, <2>2
    <3>2. fault[o] # {} \/ Removing(r, t) \/ revoked[o]
      BY <1>15, <1>16, <1>19 DEF Keying, Settled
    <3>3. QED  BY <1>9, <1>11, <1>16, <3>1, <3>2
  <2>3. QED  BY <2>1, <2>2
<1>20. Keying(r, u, inbox'[o], keys'[o], revoked[o], fault'[o], worker[Dest[o]],
              conn[Dest[o]], FALSE)
  BY <1>15, <1>16, <1>17, <1>18, <1>19 DEF Keying, Settled
<1>21. CopyInv(o)'
  BY <1>2, <1>4, <1>11, <1>13, <1>14, <1>20 DEF CopyInv
<1>22. QED  BY <1>1, <1>2, <1>4, <1>5, <1>7, <1>8, <1>10, <1>21, OneCopy

LEMMA UntrustTempKeyStep ==
  ASSUME IInv, NEW o \in Ops, UntrustTempKey(o) PROVE IInv'
<1> DEFINE r == job[o]
           t == tasks[o]
           u == [t EXCEPT !.revoke = @ - 1]
<1>1. PICK removed \in BOOLEAN, ok \in BOOLEAN :
        /\ tasks' = [tasks EXCEPT ![o] = u]
        /\ keys' = [keys EXCEPT ![o] = @ /\ ~removed]
        /\ revoked' = [revoked EXCEPT ![o] = @ \/ removed]
        /\ inbox' = [inbox EXCEPT ![o] =
             IF job[o].phase = "done" THEN @ ELSE @ \cup {<<"untrusted", ok>>}]
        /\ fault' = [fault EXCEPT ![o] = @ \cup {f \in {"swallowed", "unheard"} :
             /\ ~removed
             /\ IF f = "swallowed" THEN ok ELSE ~ok /\ job[o].phase = "done"}]
  BY DEF UntrustTempKey, Tell
<1>2. /\ TypeOK /\ CopyInv(o) /\ r \in Job /\ t \in Tasks /\ keys[o] \in BOOLEAN
      /\ revoked[o] \in BOOLEAN /\ exited = FALSE /\ t.revoke > 0
      /\ UNCHANGED <<job, conn, worker, lost, file, losses, exited>>
  BY CopyTypes DEF IInv, UntrustTempKey, TypeOK
<1>3. /\ u \in Tasks /\ u.trust = t.trust /\ u.direct = t.direct
      /\ u.remote = t.remote /\ u.reader = t.reader /\ u.writer = t.writer /\ u.pipe = t.pipe
  <2>1. t.revoke - 1 \in Nat
    BY <1>2 DEF Tasks
  <2>2. QED  BY <1>2, <2>1 DEF Tasks
<1> HIDE DEF u
<1>4. /\ tasks'[o] = u /\ (\A p \in Ops : p # o => tasks'[p] = tasks[p])
      /\ tasks' \in [Ops -> Tasks]
  BY <1>1, <1>2, <1>3 DEF TypeOK
<1>5. /\ keys'[o] = (keys[o] /\ ~removed) /\ (\A p \in Ops : p # o => keys'[p] = keys[p])
      /\ keys' \in [Ops -> BOOLEAN]
      /\ revoked'[o] = (revoked[o] \/ removed)
      /\ (\A p \in Ops : p # o => revoked'[p] = revoked[p])
      /\ revoked' \in [Ops -> BOOLEAN]
  BY <1>1, <1>2 DEF TypeOK
<1>6. <<"untrusted", ok>> \in Events
  BY DEF Events
<1>7. /\ inbox' \in [Ops -> SUBSET Events]
      /\ \A p \in Ops : p # o => inbox'[p] = inbox[p]
      /\ r.phase = "done" => inbox'[o] = inbox[o]
      /\ r.phase # "done" => inbox'[o] = inbox[o] \cup {<<"untrusted", ok>>}
  BY <1>1, <1>2, <1>6, TellEvent
<1>8. /\ fault'[o] = fault[o] \cup {f \in {"swallowed", "unheard"} :
             /\ ~removed
             /\ IF f = "swallowed" THEN ok ELSE ~ok /\ job[o].phase = "done"}
      /\ \A p \in Ops : p # o => fault'[p] = fault[p]
      /\ fault' \in [Ops -> SUBSET {"receipt", "outran", "unheard", "swallowed", "dead"}]
  BY <1>1, <1>2 DEF TypeOK
<1>9. /\ fault[o] # {} => fault'[o] # {}
      /\ ~removed => fault'[o] # {} \/ <<"untrusted", FALSE>> \in inbox'[o]
      /\ (~removed /\ r.phase = "done") => fault'[o] # {}
  <2>1. ASSUME ~removed, ok PROVE "swallowed" \in fault'[o]
    BY <1>8, <2>1
  <2>2. ASSUME ~removed, ~ok, r.phase = "done" PROVE "unheard" \in fault'[o]
    BY <1>8, <2>2
  <2>3. ASSUME ~ok, r.phase # "done" PROVE <<"untrusted", FALSE>> \in inbox'[o]
    <3>1. ok = FALSE
      BY <2>3
    <3>2. QED  BY <1>7, <2>3, <3>1
  <2>4. QED  BY <1>8, <2>1, <2>2, <2>3
<1>10. TypeOK'
  BY <1>2, <1>4, <1>5, <1>7, <1>8 DEF TypeOK
<1>11. Manned(u, worker[Src[o]], worker[Dest[o]]) /\ worker[Dest[o]] = "running"
  BY <1>2, <1>3 DEF CopyInv, Manned
<1>12. /\ <<"copied", TRUE>> \in inbox'[o] => <<"copied", TRUE>> \in inbox[o]
       /\ <<"direct", TRUE>> \in inbox'[o] => <<"direct", TRUE>> \in inbox[o]
       /\ <<"trusted", TRUE>> \in inbox'[o] => <<"trusted", TRUE>> \in inbox[o]
       /\ <<"trusted", FALSE>> \in inbox'[o] => <<"trusted", FALSE>> \in inbox[o]
       /\ inbox[o] \subseteq inbox'[o]
  BY <1>7
<1>13. Answering(r, u, inbox'[o], file[o], FALSE)
  BY <1>2, <1>3, <1>12 DEF CopyInv, Answering
<1>14. Cancelling(r, u, worker[Src[o]], worker[Dest[o]])
  BY <1>2, <1>3 DEF CopyInv, Cancelling
<1>15. Keying(r, t, inbox[o], keys[o], revoked[o], fault[o], worker[Dest[o]],
              conn[Dest[o]], FALSE)
  BY <1>2 DEF CopyInv
<1>16. /\ Removing(r, t) /\ (Pending(r, u) <=> Pending(r, t))
       /\ r.phase \notin {"none", "trusting", "direct"}
  <2>1. Removing(r, t) /\ (Pending(r, u) <=> Pending(r, t))
    BY <1>2, <1>3 DEF Removing, Pending
  <2>2. QED  BY <1>15, <2>1 DEF Keying, KeyPhase
<1>17. KeyOnce(r, u, inbox'[o])
  BY <1>3, <1>12, <1>15, <1>16 DEF Keying, KeyOnce
<1>18. KeyPhase(r, u, inbox'[o], keys'[o], fault'[o], FALSE)
  BY <1>15, <1>16 DEF Keying, KeyPhase
<1>19. Explained(r, u, inbox'[o], keys'[o], fault'[o], worker[Dest[o]])
  BY <1>5, <1>9 DEF Explained
<1>20. (r.phase = "done" /\ keys'[o] /\ ~r.warned) => fault'[o] # {}
  BY <1>5, <1>9
<1>21. r.phase = "done" => Settled(r, u, revoked'[o], fault'[o])
  BY <1>5, <1>9 DEF Settled
<1>22. Keying(r, u, inbox'[o], keys'[o], revoked'[o], fault'[o], worker[Dest[o]],
              conn[Dest[o]], FALSE)
  BY <1>15, <1>17, <1>18, <1>19, <1>20, <1>21 DEF Keying
<1>23. CopyInv(o)'
  BY <1>2, <1>4, <1>11, <1>13, <1>14, <1>22 DEF CopyInv
<1>24. QED  BY <1>1, <1>2, <1>4, <1>5, <1>7, <1>8, <1>10, <1>23, OneCopy

KeyEvents == {"trusted", "untrusted"} \X BOOLEAN

\* A step of a transfer of copy o: nothing of the key is touched.
LEMMA TransferStep ==
  ASSUME IInv, NEW o \in Ops, NEW u \in Tasks,
         UNCHANGED <<job, conn, worker, lost, keys, revoked, fault, losses, exited>>,
         tasks' = [tasks EXCEPT ![o] = u],
         u.trust = tasks[o].trust, u.revoke = tasks[o].revoke,
         inbox' \in [Ops -> SUBSET Events],
         file' \in [Ops -> {"old", "direct", "relayed"}],
         \A p \in Ops : p # o => inbox'[p] = inbox[p] /\ file'[p] = file[p],
         \A e \in KeyEvents : e \in inbox'[o] <=> e \in inbox[o],
         Manned(u, worker[Src[o]], worker[Dest[o]]),
         Answering(job[o], u, inbox'[o], file'[o], exited),
         Cancelling(job[o], u, worker[Src[o]], worker[Dest[o]])
  PROVE  IInv'
<1>1. TypeOK /\ CopyInv(o)
  BY DEF IInv
<1>2. TypeOK'
  BY <1>1 DEF TypeOK
<1>3. tasks'[o] = u /\ \A p \in Ops : p # o => tasks'[p] = tasks[p]
  BY <1>1 DEF TypeOK
<1>4. /\ <<"trusted", TRUE>> \in inbox'[o] <=> <<"trusted", TRUE>> \in inbox[o]
      /\ <<"trusted", FALSE>> \in inbox'[o] <=> <<"trusted", FALSE>> \in inbox[o]
      /\ <<"untrusted", TRUE>> \in inbox'[o] <=> <<"untrusted", TRUE>> \in inbox[o]
      /\ <<"untrusted", FALSE>> \in inbox'[o] <=> <<"untrusted", FALSE>> \in inbox[o]
  BY DEF KeyEvents
<1>5. Keying(job[o], u, inbox'[o], keys[o], revoked[o], fault[o], worker[Dest[o]],
             conn[Dest[o]], exited)
  <2>1. /\ Pending(job[o], u) <=> Pending(job[o], tasks[o])
        /\ Removing(job[o], u) <=> Removing(job[o], tasks[o])
    BY DEF Pending, Removing
  <2>2. Keying(job[o], tasks[o], inbox[o], keys[o], revoked[o], fault[o], worker[Dest[o]],
               conn[Dest[o]], exited)
    BY <1>1 DEF CopyInv
  <2>3. /\ KeyOnce(job[o], u, inbox'[o])
        /\ KeyPhase(job[o], u, inbox'[o], keys[o], fault[o], exited)
    BY <1>4, <2>1, <2>2 DEF Keying, KeyOnce, KeyPhase
  <2>4. QED  BY <1>4, <2>1, <2>2, <2>3 DEF Keying, Explained, Settled
<1>6. CopyInv(o)'
  BY <1>3, <1>5 DEF CopyInv
<1>7. QED  BY <1>2, <1>3, <1>6, OneCopy

\* The direct attempt, in the worker of the source.
LEMMA DirectStep ==
  ASSUME IInv, NEW o \in Ops, DirectPrepare(o) \/ DirectLaunch(o) \/ DirectReport(o)
  PROVE  IInv'
<1> DEFINE r == job[o]
           t == tasks[o]
<1>1. /\ TypeOK /\ CopyInv(o) /\ r \in Job /\ t \in Tasks
      /\ exited = FALSE /\ t.direct # "none"
      /\ UNCHANGED <<job, conn, worker, lost, keys, file, revoked, fault, losses, exited>>
  BY CopyTypes DEF IInv, DirectPrepare, DirectLaunch, DirectReport, TypeOK
<1>2. PICK u \in Tasks :
        /\ tasks' = [tasks EXCEPT ![o] = u]
        /\ u.trust = t.trust /\ u.revoke = t.revoke /\ u.reader = t.reader
        /\ u.writer = t.writer /\ u.pipe = t.pipe
        /\ u.remote = "landed" => t.remote = "landed"
  <2>1. CASE DirectPrepare(o)
    <3>1. /\ [t EXCEPT !.direct = "launch"] \in Tasks
          /\ [t EXCEPT !.direct = "none"] \in Tasks
      BY <1>1 DEF Tasks
    <3>2. CASE tasks' = [tasks EXCEPT ![o] = [t EXCEPT !.direct = "launch"]]
      <4> DEFINE u == [t EXCEPT !.direct = "launch"]
      <4>1. /\ u.trust = t.trust /\ u.revoke = t.revoke /\ u.reader = t.reader
            /\ u.writer = t.writer /\ u.pipe = t.pipe /\ u.remote = t.remote
        BY <1>1 DEF Tasks
      <4>2. u \in Tasks /\ tasks' = [tasks EXCEPT ![o] = u]
        BY <3>1, <3>2
      <4> HIDE DEF u
      <4>3. QED  BY <4>1, <4>2
    <3>3. CASE tasks' = [tasks EXCEPT ![o] = [t EXCEPT !.direct = "none"]]
      <4> DEFINE u == [t EXCEPT !.direct = "none"]
      <4>1. /\ u.trust = t.trust /\ u.revoke = t.revoke /\ u.reader = t.reader
            /\ u.writer = t.writer /\ u.pipe = t.pipe /\ u.remote = t.remote
        BY <1>1 DEF Tasks
      <4>2. u \in Tasks /\ tasks' = [tasks EXCEPT ![o] = u]
        BY <3>1, <3>3
      <4> HIDE DEF u
      <4>3. QED  BY <4>1, <4>2
    <3>4. \/ tasks' = [tasks EXCEPT ![o] = [t EXCEPT !.direct = "launch"]]
          \/ tasks' = [tasks EXCEPT ![o] = [t EXCEPT !.direct = "none"]]
      BY <1>1, <2>1 DEF DirectPrepare, TypeOK
    <3>5. QED  BY <3>2, <3>3, <3>4
  <2>2. CASE DirectLaunch(o)
    <3>1. CASE tasks' = [tasks EXCEPT ![o] = [t EXCEPT !.direct = "attached", !.remote = "running"]]
      <4> DEFINE u == [t EXCEPT !.direct = "attached", !.remote = "running"]
      <4>1. /\ u.trust = t.trust /\ u.revoke = t.revoke /\ u.reader = t.reader
            /\ u.writer = t.writer /\ u.pipe = t.pipe /\ u.remote = "running" /\ u \in Tasks
        BY <1>1 DEF Tasks
      <4>2. tasks' = [tasks EXCEPT ![o] = u]
        BY <3>1
      <4> HIDE DEF u
      <4>3. QED  BY <4>1, <4>2
    <3>2. CASE tasks' = [tasks EXCEPT ![o] = [t EXCEPT !.direct = "none"]]
      <4> DEFINE u == [t EXCEPT !.direct = "none"]
      <4>1. /\ u.trust = t.trust /\ u.revoke = t.revoke /\ u.reader = t.reader
            /\ u.writer = t.writer /\ u.pipe = t.pipe /\ u.remote = t.remote /\ u \in Tasks
        BY <1>1 DEF Tasks
      <4>2. tasks' = [tasks EXCEPT ![o] = u]
        BY <3>2
      <4> HIDE DEF u
      <4>3. QED  BY <4>1, <4>2
    <3>3. \/ tasks' = [tasks EXCEPT ![o] = [t EXCEPT !.direct = "attached", !.remote = "running"]]
          \/ tasks' = [tasks EXCEPT ![o] = [t EXCEPT !.direct = "none"]]
      BY <1>1, <2>2 DEF DirectLaunch, TypeOK
    <3>4. QED  BY <3>1, <3>2, <3>3
  <2>3. CASE DirectReport(o)
    <3> DEFINE u == [t EXCEPT !.direct = "none",
                              !.remote = IF @ = "running" THEN @ ELSE "none"]
    <3>1. /\ u.trust = t.trust /\ u.revoke = t.revoke /\ u.reader = t.reader
          /\ u.writer = t.writer /\ u.pipe = t.pipe /\ u.remote # "landed" /\ u \in Tasks
      BY <1>1 DEF Tasks
    <3>2. tasks' = [tasks EXCEPT ![o] = u]
      BY <1>1, <2>3 DEF DirectReport, TypeOK
    <3> HIDE DEF u
    <3>3. QED  BY <3>1, <3>2
  <2>4. QED  BY <2>1, <2>2, <2>3
<1>3. \/ inbox' = inbox
      \/ \E e \in Events :
           /\ e \in {<<"started", TRUE>>, <<"direct", FALSE>>, <<"direct", TRUE>>}
           /\ e = <<"direct", TRUE>> => t.remote = "landed"
           /\ inbox' = [inbox EXCEPT ![o] = IF job[o].phase = "done" THEN @ ELSE @ \cup {e}]
  <2>1. /\ <<"started", TRUE>> \in Events /\ <<"direct", FALSE>> \in Events
        /\ <<"direct", TRUE>> \in Events
        /\ <<"started", TRUE>> # <<"direct", TRUE>> /\ <<"direct", FALSE>> # <<"direct", TRUE>>
    BY DEF Events
  <2>2. CASE DirectPrepare(o)
    BY <2>1, <2>2 DEF DirectPrepare, Tell
  <2>3. CASE DirectLaunch(o)
    BY <2>1, <2>3 DEF DirectLaunch, Tell
  <2>4. CASE DirectReport(o)
    <3>1. PICK ok \in BOOLEAN :
            /\ ok => t.remote = "landed"
            /\ inbox' = [inbox EXCEPT ![o] =
                 IF job[o].phase = "done" THEN @ ELSE @ \cup {<<"direct", ok>>}]
      BY <2>4 DEF DirectReport, Tell
    <3>2. CASE ok = TRUE
      BY <2>1, <3>1, <3>2
    <3>3. CASE ok = FALSE
      BY <2>1, <3>1, <3>3
    <3>4. QED  BY <3>2, <3>3
  <2>5. QED  BY <2>2, <2>3, <2>4
<1>4. /\ inbox' \in [Ops -> SUBSET Events]
      /\ \A p \in Ops : p # o => inbox'[p] = inbox[p]
      /\ \A e \in KeyEvents : e \in inbox'[o] <=> e \in inbox[o]
      /\ <<"copied", TRUE>> \in inbox'[o] => <<"copied", TRUE>> \in inbox[o]
      /\ <<"direct", TRUE>> \in inbox'[o] => <<"direct", TRUE>> \in inbox[o] \/ t.remote = "landed"
  <2>1. CASE inbox' = inbox
    BY <1>1, <2>1 DEF TypeOK
  <2>2. CASE inbox' # inbox
    <3>1. PICK e \in Events :
           /\ e \in {<<"started", TRUE>>, <<"direct", FALSE>>, <<"direct", TRUE>>}
           /\ e = <<"direct", TRUE>> => t.remote = "landed"
           /\ inbox' = [inbox EXCEPT ![o] = IF job[o].phase = "done" THEN @ ELSE @ \cup {e}]
      BY <1>3, <2>2
    <3>2. /\ inbox' \in [Ops -> SUBSET Events]
          /\ \A p \in Ops : p # o => inbox'[p] = inbox[p]
          /\ inbox'[o] = inbox[o] \/ inbox'[o] = inbox[o] \cup {e}
      BY <1>1, <3>1, TellEvent
    <3>3. e \notin KeyEvents /\ e # <<"copied", TRUE>>
      <4>1. e[1] \in {"started", "direct"}
        <5>1. <<"started", TRUE>>[1] = "started" /\ <<"direct", FALSE>>[1] = "direct"
              /\ <<"direct", TRUE>>[1] = "direct"
          OBVIOUS
        <5>2. e = <<"started", TRUE>> \/ e = <<"direct", FALSE>> \/ e = <<"direct", TRUE>>
          BY <3>1, Zenon
        <5>3. QED  BY <5>1, <5>2, Zenon
      <4>2. \A h \in KeyEvents : h[1] \in {"trusted", "untrusted"}
        BY DEF KeyEvents
      <4>3. <<"copied", TRUE>>[1] = "copied"
        OBVIOUS
      <4>4. QED  BY <4>1, <4>2, <4>3
    <3>4. QED  BY <3>1, <3>2, <3>3
  <2>3. QED  BY <2>1, <2>2
<1>5. Manned(u, worker[Src[o]], worker[Dest[o]])
  BY <1>1, <1>2 DEF CopyInv, Manned
<1>6. Answering(r, u, inbox'[o], file[o], exited)
  BY <1>1, <1>2, <1>4 DEF CopyInv, Answering
<1>7. Cancelling(r, u, worker[Src[o]], worker[Dest[o]])
  BY <1>1, <1>2 DEF CopyInv, Cancelling
<1>8. file' \in [Ops -> {"old", "direct", "relayed"}] /\ file' = file
  BY <1>1 DEF TypeOK
<1>9. QED  BY <1>1, <1>2, <1>4, <1>5, <1>6, <1>7, <1>8, TransferStep

\* The command on the source host, which may outlive everything else.
LEMMA RemoteCommandStep ==
  ASSUME IInv, NEW o \in Ops, RemoteCommand(o) PROVE IInv'
<1> DEFINE r == job[o]
           t == tasks[o]
<1>1. /\ TypeOK /\ CopyInv(o) /\ r \in Job /\ t \in Tasks
      /\ UNCHANGED <<job, conn, worker, lost, inbox, keys, revoked, fault, losses, exited>>
  BY CopyTypes DEF IInv, RemoteCommand
<1>2. PICK w \in {"landed", "failed", "none"} :
        /\ tasks' = [tasks EXCEPT ![o] = [t EXCEPT !.remote = w]]
        /\ \/ file' = [file EXCEPT ![o] = "direct"]
           \/ file' = file /\ w # "landed"
  BY <1>1 DEF RemoteCommand, TypeOK
<1> DEFINE u == [t EXCEPT !.remote = w]
<1>3. /\ u \in Tasks /\ u.trust = t.trust /\ u.revoke = t.revoke /\ u.direct = t.direct
      /\ u.reader = t.reader /\ u.writer = t.writer /\ u.pipe = t.pipe /\ u.remote = w
      /\ tasks' = [tasks EXCEPT ![o] = u]
  BY <1>1, <1>2 DEF Tasks
<1> HIDE DEF u
<1>4. /\ file' \in [Ops -> {"old", "direct", "relayed"}]
      /\ \A p \in Ops : p # o => file'[p] = file[p]
      /\ file'[o] = "direct" \/ (file'[o] = file[o] /\ w # "landed")
      /\ inbox' \in [Ops -> SUBSET Events] /\ inbox' = inbox
  BY <1>1, <1>2 DEF TypeOK
<1>5. Manned(u, worker[Src[o]], worker[Dest[o]])
  BY <1>1, <1>3 DEF CopyInv, Manned
<1>6. Answering(r, u, inbox'[o], file'[o], exited)
  BY <1>1, <1>3, <1>4 DEF CopyInv, Answering
<1>7. Cancelling(r, u, worker[Src[o]], worker[Dest[o]])
  BY <1>1, <1>3 DEF CopyInv, Cancelling
<1>8. QED  BY <1>1, <1>3, <1>4, <1>5, <1>6, <1>7, TransferStep

\* The reader fills the pipe, or leaves it short.
LEMMA RelayReadStep ==
  ASSUME IInv, NEW o \in Ops, RelayRead(o) PROVE IInv'
<1> DEFINE r == job[o]
           t == tasks[o]
<1>1. /\ TypeOK /\ CopyInv(o) /\ r \in Job /\ t \in Tasks /\ exited = FALSE
      /\ t.reader \in {"open", "streaming", "cancelled"}
      /\ UNCHANGED <<job, conn, worker, lost, keys, file, revoked, fault, losses, exited>>
  BY CopyTypes DEF IInv, RelayRead, TypeOK
<1>2. PICK u \in Tasks :
        /\ tasks' = [tasks EXCEPT ![o] = u]
        /\ u.trust = t.trust /\ u.revoke = t.revoke /\ u.direct = t.direct
        /\ u.writer = t.writer /\ u.remote = t.remote
        /\ \/ u.reader = "streaming" /\ t.reader = "open" /\ u.pipe = t.pipe
           \/ u.reader = "over"
  <2>1. ASSUME NEW p \in {"whole", "short"},
               tasks' = [tasks EXCEPT ![o] = [t EXCEPT !.reader = "over", !.pipe = p]]
        PROVE  \E u \in Tasks :
                 /\ tasks' = [tasks EXCEPT ![o] = u]
                 /\ u.trust = t.trust /\ u.revoke = t.revoke /\ u.direct = t.direct
                 /\ u.writer = t.writer /\ u.remote = t.remote
                 /\ u.reader = "over"
    <3> DEFINE u == [t EXCEPT !.reader = "over", !.pipe = p]
    <3>1. /\ u \in Tasks /\ u.trust = t.trust /\ u.revoke = t.revoke /\ u.direct = t.direct
          /\ u.writer = t.writer /\ u.remote = t.remote /\ u.reader = "over"
          /\ tasks' = [tasks EXCEPT ![o] = u]
      BY <1>1, <2>1 DEF Tasks
    <3> HIDE DEF u
    <3>2. QED  BY <3>1
  <2>2. CASE t.reader = "open" /\ tasks' = [tasks EXCEPT ![o] = [t EXCEPT !.reader = "streaming"]]
    <3> DEFINE u == [t EXCEPT !.reader = "streaming"]
    <3>1. /\ u \in Tasks /\ u.trust = t.trust /\ u.revoke = t.revoke /\ u.direct = t.direct
          /\ u.writer = t.writer /\ u.remote = t.remote /\ u.reader = "streaming"
          /\ u.pipe = t.pipe /\ tasks' = [tasks EXCEPT ![o] = u]
      BY <1>1, <2>2 DEF Tasks
    <3> HIDE DEF u
    <3>2. QED  BY <2>2, <3>1
  <2>3. \/ t.reader = "open" /\ tasks' = [tasks EXCEPT ![o] = [t EXCEPT !.reader = "streaming"]]
        \/ tasks' = [tasks EXCEPT ![o] = [t EXCEPT !.reader = "over", !.pipe = "short"]]
        \/ tasks' = [tasks EXCEPT ![o] = [t EXCEPT !.reader = "over", !.pipe = "whole"]]
    BY <1>1 DEF RelayRead, TypeOK
  <2>4. QED  BY <2>1, <2>2, <2>3
<1>3. PICK e \in {"source", "read"} \X BOOLEAN :
        inbox' = [inbox EXCEPT ![o] = IF job[o].phase = "done" THEN @ ELSE @ \cup {e}]
  <2>1. /\ <<"source", TRUE>> \in {"source", "read"} \X BOOLEAN
        /\ <<"source", FALSE>> \in {"source", "read"} \X BOOLEAN
        /\ <<"read", TRUE>> \in {"source", "read"} \X BOOLEAN
        /\ <<"read", FALSE>> \in {"source", "read"} \X BOOLEAN
    OBVIOUS
  <2>2. QED  BY <2>1 DEF RelayRead, Tell
<1>4. /\ inbox' \in [Ops -> SUBSET Events]
      /\ \A p \in Ops : p # o => inbox'[p] = inbox[p]
      /\ \A h \in KeyEvents : h \in inbox'[o] <=> h \in inbox[o]
      /\ <<"copied", TRUE>> \in inbox'[o] => <<"copied", TRUE>> \in inbox[o]
      /\ <<"direct", TRUE>> \in inbox'[o] => <<"direct", TRUE>> \in inbox[o]
  <2>1. e \in Events
    BY DEF Events
  <2>2. e \notin KeyEvents /\ e # <<"copied", TRUE>> /\ e # <<"direct", TRUE>>
    <3>1. e[1] \in {"source", "read"}
      OBVIOUS
    <3>2. \A h \in KeyEvents : h[1] \in {"trusted", "untrusted"}
      BY DEF KeyEvents
    <3>3. <<"copied", TRUE>>[1] = "copied" /\ <<"direct", TRUE>>[1] = "direct"
      OBVIOUS
    <3>4. QED  BY <3>1, <3>2, <3>3
  <2>3. QED  BY <1>1, <1>3, <2>1, <2>2, TellEvent
<1>5. Manned(u, worker[Src[o]], worker[Dest[o]])
  BY <1>1, <1>2 DEF CopyInv, Manned
<1>6. Answering(r, u, inbox'[o], file[o], exited)
  <2>1. Answering(r, t, inbox[o], file[o], FALSE)
    BY <1>1 DEF CopyInv
  <2>2. t.pipe = "open" /\ ~Has(r.toSrc, "read") /\ r.phase \notin Early
        /\ r.ans \notin {"direct", "relay"} /\ <<"copied", TRUE>> \notin inbox[o]
    BY <1>1, <2>1 DEF Answering
  <2>3. QED  BY <1>1, <1>2, <1>4, <2>1, <2>2 DEF Answering
<1>7. Cancelling(r, u, worker[Src[o]], worker[Dest[o]])
  <2>1. u.reader \in {"open", "streaming"} => t.reader \in {"open", "streaming"}
    BY <1>2
  <2>2. QED  BY <1>1, <1>2, <2>1 DEF CopyInv, Cancelling
<1>8. file' \in [Ops -> {"old", "direct", "relayed"}] /\ file' = file
  BY <1>1 DEF TypeOK
<1>9. QED  BY <1>1, <1>2, <1>4, <1>5, <1>6, <1>7, <1>8, TransferStep

\* The writer replaces the file by a whole one, or leaves it.
LEMMA RelayWriteStep ==
  ASSUME IInv, NEW o \in Ops, RelayWrite(o) PROVE IInv'
<1> DEFINE r == job[o]
           t == tasks[o]
           u == [t EXCEPT !.writer = "over"]
<1>1. /\ TypeOK /\ CopyInv(o) /\ r \in Job /\ t \in Tasks /\ exited = FALSE
      /\ t.writer \in {"open", "cancelled"}
      /\ UNCHANGED <<job, conn, worker, lost, keys, revoked, fault, losses, exited>>
  BY CopyTypes DEF IInv, RelayWrite, TypeOK
<1>2. PICK committed \in BOOLEAN, ok \in BOOLEAN :
        /\ committed => t.pipe = "whole"
        /\ ok => committed
        /\ tasks' = [tasks EXCEPT ![o] = u]
        /\ file' = [file EXCEPT ![o] = IF committed THEN "relayed" ELSE @]
        /\ inbox' = [inbox EXCEPT ![o] = IF job[o].phase = "done" THEN @ ELSE @ \cup {<<"copied", ok>>}]
  BY DEF RelayWrite, Tell
<1>3. /\ u \in Tasks /\ u.trust = t.trust /\ u.revoke = t.revoke /\ u.direct = t.direct
      /\ u.reader = t.reader /\ u.remote = t.remote /\ u.pipe = t.pipe /\ u.writer = "over"
  BY <1>1 DEF Tasks
<1> HIDE DEF u
<1>4. /\ inbox' \in [Ops -> SUBSET Events]
      /\ \A p \in Ops : p # o => inbox'[p] = inbox[p]
      /\ \A h \in KeyEvents : h \in inbox'[o] <=> h \in inbox[o]
      /\ <<"copied", TRUE>> \in inbox'[o] => <<"copied", TRUE>> \in inbox[o] \/ committed
      /\ <<"direct", TRUE>> \in inbox'[o] => <<"direct", TRUE>> \in inbox[o]
  <2>1. PICK e : e = <<"copied", ok>>
    OBVIOUS
  <2>2. e \in Events /\ e \notin KeyEvents /\ e # <<"direct", TRUE>>
    BY <2>1 DEF KeyEvents, Events
  <2>3. e = <<"copied", TRUE>> => committed
    <3>1. ASSUME e = <<"copied", TRUE>> PROVE ok
      <4>1. <<"copied", FALSE>> # <<"copied", TRUE>>
        OBVIOUS
      <4>2. ok # FALSE
        BY <2>1, <3>1, <4>1
      <4>3. QED  BY <4>2
    <3>2. QED  BY <1>2, <3>1
  <2>4. inbox' = [inbox EXCEPT ![o] = IF job[o].phase = "done" THEN @ ELSE @ \cup {e}]
    BY <1>2, <2>1
  <2>5. /\ inbox' \in [Ops -> SUBSET Events]
        /\ \A p \in Ops : p # o => inbox'[p] = inbox[p]
        /\ inbox'[o] = inbox[o] \/ inbox'[o] = inbox[o] \cup {e}
    BY <1>1, <2>2, <2>4, TellEvent
  <2>6. QED  BY <2>2, <2>3, <2>5
<1>5. /\ file' \in [Ops -> {"old", "direct", "relayed"}]
      /\ \A p \in Ops : p # o => file'[p] = file[p]
      /\ file'[o] = IF committed THEN "relayed" ELSE file[o]
  BY <1>1, <1>2 DEF TypeOK
<1>6. Manned(u, worker[Src[o]], worker[Dest[o]])
  BY <1>1, <1>3 DEF CopyInv, Manned
<1>7. Answering(r, u, inbox'[o], file'[o], exited)
  <2>1. Answering(r, t, inbox[o], file[o], FALSE)
    BY <1>1 DEF CopyInv
  <2>2. r.phase \notin Early /\ r.ans # "direct"
    BY <1>1, <2>1 DEF Answering
  <2>3. QED  BY <1>1, <1>2, <1>3, <1>4, <1>5, <2>1, <2>2 DEF Answering, Early
<1>8. Cancelling(r, u, worker[Src[o]], worker[Dest[o]])
  BY <1>1, <1>3 DEF CopyInv, Cancelling
<1>9. QED  BY <1>1, <1>2, <1>3, <1>4, <1>5, <1>6, <1>7, <1>8, TransferStep

--------------------------------------------------------------------------------
(* Workers that die or end, new ones, and the end of the program.          *)

\* What the tasks of a copy are after the worker of session s has died.
LEMMA LossFields ==
  ASSUME TypeOK, NEW o \in Ops, NEW s \in Sessions, NEW t, t = tasks[o],
         NEW u, u = TasksAfterLoss(o, s)
  PROVE  /\ u \in Tasks
         /\ s = Dest[o] =>
              /\ ~u.trust /\ u.revoke = 0
              /\ u.writer = IF t.writer \in {"open", "cancelled"} THEN "over" ELSE t.writer
         /\ s # Dest[o] => u.trust = t.trust /\ u.revoke = t.revoke /\ u.writer = t.writer
         /\ s = Src[o] =>
              /\ u.direct = "none" /\ u.remote # "landed"
              /\ u.reader = IF t.reader = "none" THEN "none" ELSE "over"
              /\ u.pipe = IF t.reader \in {"open", "streaming", "cancelled"} THEN "short" ELSE t.pipe
         /\ s # Src[o] => /\ u.direct = t.direct /\ u.remote = t.remote
                          /\ u.reader = t.reader /\ u.pipe = t.pipe
<1>1. t \in Tasks /\ Src[o] # Dest[o]
  BY CopyTypes
<1>2. CASE s = Dest[o]
  <2> DEFINE w == IF t.writer \in {"open", "cancelled"} THEN "over" ELSE t.writer
  <2>1. u = [t EXCEPT !.trust = FALSE, !.revoke = 0, !.writer = w]
    BY <1>1, <1>2 DEF TasksAfterLoss
  <2>2. w \in {"none", "open", "cancelled", "over"}
    BY <1>1 DEF Tasks
  <2> HIDE DEF w
  <2>3. /\ u \in Tasks /\ ~u.trust /\ u.revoke = 0 /\ u.writer = w /\ u.direct = t.direct
        /\ u.remote = t.remote /\ u.reader = t.reader /\ u.pipe = t.pipe
    <3>1. /\ u.trust = FALSE /\ u.revoke = 0 /\ u.writer = w /\ u.direct = t.direct
          /\ u.remote = t.remote /\ u.reader = t.reader /\ u.pipe = t.pipe
      BY <1>1, <2>1 DEF Tasks
    <3>2. /\ t.direct \in {"none", "prep", "launch", "attached"}
          /\ t.remote \in {"none", "running", "landed", "failed"}
          /\ t.reader \in {"none", "open", "streaming", "cancelled", "over"}
          /\ t.pipe \in {"open", "whole", "short"}
      BY <1>1 DEF Tasks
    <3>3. u = [trust |-> FALSE, revoke |-> 0, direct |-> t.direct, remote |-> t.remote,
               reader |-> t.reader, writer |-> w, pipe |-> t.pipe]
      BY <1>1, <2>1 DEF Tasks
    <3>4. u \in Tasks
      BY <2>2, <3>2, <3>3 DEF Tasks
    <3>5. QED  BY <3>1, <3>4
  <2>4. QED  BY <1>1, <1>2, <2>3 DEF w
<1>3. CASE s = Src[o]
  <2> DEFINE a == IF t.remote = "running" THEN t.remote ELSE "none"
             b == IF t.reader = "none" THEN t.reader ELSE "over"
             p == IF t.reader \in {"open", "streaming", "cancelled"} THEN "short" ELSE t.pipe
  <2>1. u = [t EXCEPT !.direct = "none", !.remote = a, !.reader = b, !.pipe = p]
    BY <1>1, <1>3 DEF TasksAfterLoss
  <2>2. /\ a \in {"none", "running"} /\ b \in {"none", "over"}
        /\ p \in {"open", "whole", "short"}
    BY <1>1 DEF Tasks
  <2> HIDE DEF a, b, p
  <2>3. /\ u \in Tasks /\ u.trust = t.trust /\ u.revoke = t.revoke /\ u.writer = t.writer
        /\ u.direct = "none" /\ u.remote = a /\ u.reader = b /\ u.pipe = p
    <3>1. /\ u.trust = t.trust /\ u.revoke = t.revoke /\ u.writer = t.writer
          /\ u.direct = "none" /\ u.remote = a /\ u.reader = b /\ u.pipe = p
      BY <1>1, <2>1 DEF Tasks
    <3>2. /\ t.trust \in BOOLEAN /\ t.revoke \in Nat
          /\ t.writer \in {"none", "open", "cancelled", "over"}
      BY <1>1 DEF Tasks
    <3>3. u = [trust |-> t.trust, revoke |-> t.revoke, direct |-> "none", remote |-> a,
               reader |-> b, writer |-> t.writer, pipe |-> p]
      BY <1>1, <2>1 DEF Tasks
    <3>4. u \in Tasks
      BY <2>2, <3>2, <3>3 DEF Tasks
    <3>5. QED  BY <3>1, <3>4
  <2>4. QED  BY <1>1, <1>3, <2>2, <2>3 DEF b, p
<1>4. CASE s # Dest[o] /\ s # Src[o]
  <2>1. u = t
    BY <1>4 DEF TasksAfterLoss
  <2>2. QED  BY <1>1, <1>4, <2>1
<1>5. QED  BY <1>2, <1>3, <1>4

LEMMA LossErrors ==
  ASSUME NEW o, NEW s
  PROVE  /\ ErrorsAfterLoss(o, s) \subseteq Events
         /\ <<"copied", TRUE>> \notin ErrorsAfterLoss(o, s)
         /\ <<"direct", TRUE>> \notin ErrorsAfterLoss(o, s)
         /\ <<"trusted", TRUE>> \notin ErrorsAfterLoss(o, s)
         /\ <<"untrusted", TRUE>> \notin ErrorsAfterLoss(o, s)
         /\ <<"trusted", FALSE>> \in ErrorsAfterLoss(o, s) => s = Dest[o] /\ tasks[o].trust
         /\ <<"untrusted", FALSE>> \in ErrorsAfterLoss(o, s) => s = Dest[o] /\ tasks[o].revoke > 0
<1>1. ErrorsAfterLoss(o, s) \subseteq Events
  BY DEF ErrorsAfterLoss, Events, FromDest, FromSrc
<1>2. ASSUME NEW k PROVE <<k, TRUE>> \notin ErrorsAfterLoss(o, s)
  BY DEF ErrorsAfterLoss
<1>3. <<"trusted", FALSE>> \in ErrorsAfterLoss(o, s) => s = Dest[o] /\ tasks[o].trust
  <2>1. <<"trusted", FALSE>>[1] = "trusted"
    OBVIOUS
  <2>2. QED  BY <2>1 DEF ErrorsAfterLoss
<1>4. <<"untrusted", FALSE>> \in ErrorsAfterLoss(o, s) => s = Dest[o] /\ tasks[o].revoke > 0
  <2>1. <<"untrusted", FALSE>>[1] = "untrusted"
    OBVIOUS
  <2>2. QED  BY <2>1 DEF ErrorsAfterLoss
<1>5. QED  BY <1>1, <1>2, <1>3, <1>4

\* One copy, when the worker of one of its sessions dies: dn says whether the
\* tasks on its keys had their effect, heard whether the errors got out.
LEMMA DieCopy ==
  ASSUME IInv, NEW s \in Sessions, worker[s] = "running", ~exited, exited' = exited,
         NEW dn, NEW heard, NEW o \in Ops,
         worker'[Src[o]] = IF Src[o] = s THEN worker'[s] ELSE worker[Src[o]],
         worker'[Dest[o]] = IF Dest[o] = s THEN worker'[s] ELSE worker[Dest[o]],
         worker'[s] # "running",
         conn'[Dest[o]] = conn[Dest[o]] \/ conn'[Dest[o]] = "gone",
         job'[o] = job[o], file'[o] = file[o],
         tasks'[o] = TasksAfterLoss(o, s),
         keys'[o] = ((keys[o] \/ (Dest[o] = s /\ tasks[o].trust /\ dn))
                      /\ ~(Dest[o] = s /\ tasks[o].revoke > 0 /\ dn)),
         revoked'[o] = (revoked[o] \/ (Dest[o] = s /\ tasks[o].revoke > 0 /\ dn)),
         inbox'[o] \subseteq inbox[o] \cup ErrorsAfterLoss(o, s),
         ~heard => inbox'[o] \subseteq inbox[o],
         Dest[o] # s => (<<"untrusted", FALSE>> \in inbox[o] => <<"untrusted", FALSE>> \in inbox'[o]),
         (Dest[o] = s /\ tasks[o].trust /\ dn /\ heard) => fault'[o] # {},
         (Dest[o] = s /\ tasks[o].trust /\ dn /\ ~(tasks[o].revoke > 0) /\ revoked[o])
            => fault'[o] # {},
         (Dest[o] = s /\ ~(tasks[o].revoke > 0 /\ dn) /\ RevocationUnderWay(o)
            /\ job[o].phase = "done") => fault'[o] # {},
         fault[o] # {} => fault'[o] # {},
         Dest[o] # s => fault'[o] = fault[o]
  PROVE  CopyInv(o)'
<1> DEFINE r == job[o]
           t == tasks[o]
<1>1. /\ TypeOK /\ CopyInv(o) /\ r \in Job /\ t \in Tasks /\ exited = FALSE
      /\ Src[o] # Dest[o]
  BY CopyTypes DEF IInv, TypeOK
<1>2. PICK u \in Tasks :
         /\ u = tasks'[o]
         /\ s = Dest[o] =>
              /\ ~u.trust /\ u.revoke = 0
              /\ u.writer = IF t.writer \in {"open", "cancelled"} THEN "over" ELSE t.writer
         /\ s # Dest[o] => u.trust = t.trust /\ u.revoke = t.revoke /\ u.writer = t.writer
         /\ s = Src[o] =>
              /\ u.direct = "none" /\ u.remote # "landed"
              /\ u.reader = IF t.reader = "none" THEN "none" ELSE "over"
              /\ u.pipe = IF t.reader \in {"open", "streaming", "cancelled"} THEN "short" ELSE t.pipe
         /\ s # Src[o] => /\ u.direct = t.direct /\ u.remote = t.remote
                          /\ u.reader = t.reader /\ u.pipe = t.pipe
  BY <1>1, LossFields
<1>3. /\ <<"copied", TRUE>> \in inbox'[o] => <<"copied", TRUE>> \in inbox[o]
      /\ <<"direct", TRUE>> \in inbox'[o] => <<"direct", TRUE>> \in inbox[o]
      /\ <<"trusted", TRUE>> \in inbox'[o] => <<"trusted", TRUE>> \in inbox[o]
      /\ <<"untrusted", TRUE>> \in inbox'[o] => <<"untrusted", TRUE>> \in inbox[o]
      /\ <<"trusted", FALSE>> \in inbox'[o] =>
           <<"trusted", FALSE>> \in inbox[o] \/ (s = Dest[o] /\ t.trust /\ heard)
      /\ <<"untrusted", FALSE>> \in inbox'[o] =>
           <<"untrusted", FALSE>> \in inbox[o] \/ (s = Dest[o] /\ t.revoke > 0)
  BY LossErrors
<1>4. Manned(u, worker'[Src[o]], worker'[Dest[o]])
  BY <1>1, <1>2 DEF CopyInv, Manned
<1>5. Answering(r, u, inbox'[o], file[o], FALSE)
  <2>1. Answering(r, t, inbox[o], file[o], FALSE)
    BY <1>1 DEF CopyInv
  <2>2. (r.phase \in Early \/ r.ans = "direct") => u.reader = "none" /\ u.pipe = "open" /\ u.writer = "none"
    BY <1>2, <2>1 DEF Answering
  <2>3. u.reader # "none" => t.reader # "none"
    BY <1>2
  <2>4. u.pipe # "open" => u.reader = "over"
    BY <1>2, <2>1 DEF Answering
  <2>5. t.pipe = "whole" => u.pipe = "whole"
    BY <1>2, <2>1 DEF Answering
  <2>6. u.remote = "landed" => t.remote = "landed"
    BY <1>2
  <2>7. QED  BY <1>3, <2>1, <2>2, <2>3, <2>4, <2>5, <2>6 DEF Answering
<1>6. Cancelling(r, u, worker'[Src[o]], worker'[Dest[o]])
  <2>1. Cancelling(r, t, worker[Src[o]], worker[Dest[o]])
    BY <1>1 DEF CopyInv
  <2>2. worker'[Src[o]] = "running" => worker[Src[o]] = "running" /\ u.reader = t.reader
    BY <1>2
  <2>3. worker'[Dest[o]] = "running" => worker[Dest[o]] = "running" /\ u.writer = t.writer
    BY <1>2
  <2>4. QED  BY <2>1, <2>2, <2>3 DEF Cancelling
<1>7. Keying(r, t, inbox[o], keys[o], revoked[o], fault[o], worker[Dest[o]], conn[Dest[o]], FALSE)
  BY <1>1 DEF CopyInv
<1>8. Keying(r, u, inbox'[o], keys'[o], revoked'[o], fault'[o], worker'[Dest[o]],
             conn'[Dest[o]], FALSE)
  <2>1. CASE s # Dest[o]
    <3>1. /\ keys'[o] <=> keys[o]
          /\ revoked'[o] <=> revoked[o]
          /\ fault'[o] = fault[o] /\ worker'[Dest[o]] = worker[Dest[o]]
          /\ Pending(r, u) <=> Pending(r, t)
          /\ Removing(r, u) <=> Removing(r, t)
      BY <1>2, <2>1 DEF Pending, Removing
    <3>2. /\ KeyOnce(r, u, inbox'[o])
          /\ KeyPhase(r, u, inbox'[o], keys'[o], fault'[o], FALSE)
      BY <1>2, <1>3, <1>7, <2>1, <3>1 DEF Keying, KeyOnce, KeyPhase
    <3>3. r.phase = "done" => Settled(r, u, revoked'[o], fault'[o])
      BY <1>7, <3>1 DEF Keying, Settled
    <3>4. r.phase \in {"untrusting", "reading", "writing"} =>
            Explained(r, u, inbox'[o], keys'[o], fault'[o], worker'[Dest[o]])
      BY <1>7, <2>1, <3>1 DEF Keying, Explained
    <3>5. QED  BY <1>7, <3>1, <3>2, <3>3, <3>4 DEF Keying
  <2>2. CASE s = Dest[o]
    <3>1. worker'[Dest[o]] # "running" /\ ~u.trust /\ u.revoke = 0
      BY <1>2, <2>2
    <3>2. Pending(r, u) => Pending(r, t) /\ Has(r.toDest, "trust") /\ ~t.trust
      BY <1>7, <3>1 DEF Pending, Keying, KeyOnce
    <3>3. Removing(r, t) <=> RevocationUnderWay(o)
      BY DEF Removing, RevocationUnderWay, Has
    <3>4. KeyOnce(r, u, inbox'[o])
      <4>1. (<<"trusted", TRUE>> \in inbox'[o] \/ <<"trusted", FALSE>> \in inbox'[o]) => ~Pending(r, u)
        BY <1>3, <1>7, <3>2 DEF Keying, KeyOnce
      <4>2. QED  BY <1>7, <3>1, <4>1 DEF Keying, KeyOnce
    <3>5. KeyPhase(r, u, inbox'[o], keys'[o], fault'[o], FALSE)
      <4>1. (r.phase = "trusting" /\ Pending(r, u)) => ~keys'[o]
        BY <1>7, <3>2 DEF Keying, KeyPhase
      <4>2. (r.phase = "trusting" /\ <<"trusted", FALSE>> \in inbox'[o] /\ keys'[o]) => fault'[o] # {}
        <5>1. t.trust => Pending(r, t)
          BY DEF Pending
        <5>2. QED  BY <1>3, <1>7, <2>2, <5>1 DEF Keying, KeyPhase, KeyOnce
      <4>3. r.phase = "none" => /\ r.toDest = <<>> /\ ~u.trust /\ ~keys'[o]
                                /\ <<"trusted", TRUE>> \notin inbox'[o]
                                /\ <<"trusted", FALSE>> \notin inbox'[o]
        BY <1>3, <1>7, <3>1 DEF Keying, KeyPhase
      <4>4. r.phase \in {"none", "trusting", "direct"} =>
              /\ ~Removing(r, u) /\ <<"untrusted", TRUE>> \notin inbox'[o]
              /\ <<"untrusted", FALSE>> \notin inbox'[o]
        BY <1>3, <1>7, <3>1 DEF Keying, KeyPhase, Removing
      <4>5. QED  BY <1>7, <3>2, <4>1, <4>2, <4>3, <4>4 DEF Keying, KeyPhase
    <3>6. Explained(r, u, inbox'[o], keys'[o], fault'[o], worker'[Dest[o]])
      BY <3>1 DEF Explained
    <3>7. (r.phase = "done" /\ keys'[o] /\ ~r.warned) => fault'[o] # {}
      <4>1. ASSUME r.phase = "done", keys'[o], ~r.warned PROVE fault'[o] # {}
        <5>1. CASE keys[o]
          BY <1>7, <2>2, <3>3, <4>1, <5>1 DEF Keying
        <5>2. CASE ~keys[o]
          <6>1. t.trust /\ dn /\ ~(t.revoke > 0)
            BY <2>2, <4>1, <5>2
          <6>2. fault[o] # {} \/ Removing(r, t) \/ revoked[o]
            BY <1>7, <4>1, <6>1 DEF Keying, Settled, Pending
          <6>3. QED  BY <2>2, <3>3, <4>1, <6>1, <6>2
        <5>3. QED  BY <5>1, <5>2
      <4>2. QED  BY <4>1
    <3>8. r.phase = "done" => Settled(r, u, revoked'[o], fault'[o])
      BY <1>7, <2>2, <3>2, <3>3 DEF Keying, Settled
    <3>9. (conn'[Dest[o]] = "down" /\ r.phase \notin Idle) => r.warned
      BY <1>7 DEF Keying
    <3>10. QED  BY <3>4, <3>5, <3>6, <3>7, <3>8, <3>9 DEF Keying
  <2>3. QED  BY <2>1, <2>2
<1>9. exited' = FALSE
  BY <1>1
<1>10. QED  BY <1>2, <1>4, <1>5, <1>6, <1>8, <1>9 DEF CopyInv

\* The two steps in which a worker dies: its connection is lost, or the user
\* closes the session.
LEMMA WorkerDiesStep ==
  ASSUME IInv, NEW s \in Sessions, LoseConnection(s) \/ CloseSession(s) PROVE IInv'
<1>1. PICK dn \in BOOLEAN, heard \in BOOLEAN, closing \in BOOLEAN :
        /\ closing => ~heard
        /\ losses < MaxLosses /\ losses' = losses + 1
        /\ tasks' = [o \in Ops |-> TasksAfterLoss(o, s)]
        /\ keys' = [o \in Ops |-> (keys[o] \/ (Dest[o] = s /\ tasks[o].trust /\ dn))
                                  /\ ~(Dest[o] = s /\ tasks[o].revoke > 0 /\ dn)]
        /\ revoked' = [o \in Ops |-> revoked[o] \/ (Dest[o] = s /\ tasks[o].revoke > 0 /\ dn)]
        /\ inbox' = [o \in Ops |->
             IF closing THEN inbox[o] \ Waiting(o, s)
             ELSE inbox[o] \cup (IF heard /\ job[o].phase # "done" THEN ErrorsAfterLoss(o, s) ELSE {})]
        /\ fault' = [o \in Ops |-> fault[o]
             \cup (IF Dest[o] = s /\ tasks[o].trust /\ dn /\ heard /\ ~closing
                   THEN {"receipt"} ELSE {})
             \cup (IF /\ Dest[o] = s /\ tasks[o].trust /\ dn
                      /\ ~(Dest[o] = s /\ tasks[o].revoke > 0 /\ dn) /\ revoked[o]
                   THEN {"outran"} ELSE {})
             \cup (IF /\ Dest[o] = s /\ ~(Dest[o] = s /\ tasks[o].revoke > 0 /\ dn)
                      /\ RevocationUnderWay(o) /\ job[o].phase = "done"
                   THEN {"unheard"} ELSE {})]
  <2>1. CASE LoseConnection(s)
    <3>1. PICK dn \in BOOLEAN, told \in BOOLEAN : Die(s, dn, told, FALSE)
      BY <2>1 DEF LoseConnection
    <3>2. PICK closing \in BOOLEAN : closing = FALSE
      OBVIOUS
    <3>3. ~closing /\ Die(s, dn, told, closing)
      BY <3>1, <3>2
    <3>4. QED  BY <3>3 DEF Die
  <2>2. CASE CloseSession(s)
    <3>1. PICK dn \in BOOLEAN : Die(s, dn, FALSE, TRUE)
      BY <2>2 DEF CloseSession
    <3>2. PICK closing \in BOOLEAN, told \in BOOLEAN : closing = TRUE /\ told = FALSE
      OBVIOUS
    <3>3. ~told /\ Die(s, dn, told, closing)
      BY <3>1, <3>2
    <3>4. QED  BY <3>3 DEF Die
  <2>3. QED  BY <2>1, <2>2
<1>2. /\ TypeOK /\ ~exited /\ worker[s] = "running" /\ conn[s] = "up" /\ exited \in BOOLEAN
      /\ UNCHANGED <<job, file, exited>>
      /\ worker' = [worker EXCEPT ![s] = "draining"] \/ worker' = [worker EXCEPT ![s] = "ended"]
  BY DEF IInv, LoseConnection, CloseSession, TypeOK, Linked
<1>3. /\ worker' \in [Sessions -> {"running", "draining", "ended"}] /\ worker'[s] # "running"
      /\ \A p \in Sessions : p # s => worker'[p] = worker[p]
      /\ conn' \in [Sessions -> {"up", "down", "gone"}] /\ lost' \in [Sessions -> BOOLEAN]
      /\ \A p \in Sessions : p # s => conn'[p] = conn[p] /\ lost'[p] = lost[p]
      /\ \/ conn'[s] = "gone" /\ worker'[s] = "ended" /\ lost'[s] = lost[s]
         \/ conn'[s] = conn[s] /\ lost'[s]
  BY <1>2 DEF LoseConnection, CloseSession, TypeOK
<1>4. TypeOK'
  <2>1. tasks' \in [Ops -> Tasks]
    <3>1. ASSUME NEW o \in Ops PROVE TasksAfterLoss(o, s) \in Tasks
      BY <1>2, LossFields
    <3>2. QED  BY <1>1, <3>1
  <2>2. inbox' \in [Ops -> SUBSET Events]
    BY <1>1, <1>2, LossErrors DEF TypeOK
  <2>3. fault' \in [Ops -> SUBSET {"receipt", "outran", "unheard", "swallowed", "dead"}]
    BY <1>1, <1>2 DEF TypeOK
  <2>4. keys' \in [Ops -> BOOLEAN] /\ revoked' \in [Ops -> BOOLEAN]
    BY <1>1, <1>2 DEF TypeOK
  <2>5. losses' \in 0..MaxLosses
    BY <1>1, <1>2, EndsAssumption DEF TypeOK
  <2>6. QED  BY <1>2, <1>3, <2>1, <2>2, <2>3, <2>4, <2>5 DEF TypeOK
<1>5. ASSUME NEW p \in Sessions PROVE Linked(conn'[p], worker'[p], lost'[p])
  <2>1. Linked(conn[p], worker[p], lost[p])
    BY DEF IInv
  <2>2. CASE p = s
    BY <1>2, <1>3, <2>1, <2>2 DEF Linked
  <2>3. CASE p # s
    BY <1>3, <2>1, <2>3 DEF Linked
  <2>4. QED  BY <2>2, <2>3
<1>6. ASSUME NEW o \in Ops PROVE CopyInv(o)'
  <2>1. Src[o] \in Sessions /\ Dest[o] \in Sessions /\ Src[o] # Dest[o]
    BY EndsAssumption
  <2>2. /\ worker'[Src[o]] = IF Src[o] = s THEN worker'[s] ELSE worker[Src[o]]
        /\ worker'[Dest[o]] = IF Dest[o] = s THEN worker'[s] ELSE worker[Dest[o]]
        /\ conn'[Dest[o]] = conn[Dest[o]] \/ conn'[Dest[o]] = "gone"
    BY <1>3, <2>1
  <2>3. /\ tasks'[o] = TasksAfterLoss(o, s)
        /\ keys'[o] = ((keys[o] \/ (Dest[o] = s /\ tasks[o].trust /\ dn))
                      /\ ~(Dest[o] = s /\ tasks[o].revoke > 0 /\ dn))
        /\ revoked'[o] = (revoked[o] \/ (Dest[o] = s /\ tasks[o].revoke > 0 /\ dn))
        /\ job'[o] = job[o] /\ file'[o] = file[o]
    BY <1>1, <1>2
  <2>4. /\ inbox'[o] \subseteq inbox[o] \cup ErrorsAfterLoss(o, s)
        /\ ~heard => inbox'[o] \subseteq inbox[o]
        /\ Dest[o] # s => (<<"untrusted", FALSE>> \in inbox[o] => <<"untrusted", FALSE>> \in inbox'[o])
    <3>1. inbox'[o] = IF closing THEN inbox[o] \ Waiting(o, s)
             ELSE inbox[o] \cup (IF heard /\ job[o].phase # "done" THEN ErrorsAfterLoss(o, s) ELSE {})
      BY <1>1
    <3>2. Dest[o] # s => <<"untrusted", FALSE>> \notin Waiting(o, s)
      <4>1. <<"untrusted", FALSE>>[1] = "untrusted"
        OBVIOUS
      <4>2. QED  BY <4>1 DEF Waiting, FromSrc
    <3>3. QED  BY <3>1, <3>2
  <2>5. /\ (Dest[o] = s /\ tasks[o].trust /\ dn /\ heard) => fault'[o] # {}
        /\ (Dest[o] = s /\ tasks[o].trust /\ dn /\ ~(tasks[o].revoke > 0) /\ revoked[o])
            => fault'[o] # {}
        /\ (Dest[o] = s /\ ~(tasks[o].revoke > 0 /\ dn) /\ RevocationUnderWay(o)
            /\ job[o].phase = "done") => fault'[o] # {}
        /\ fault[o] # {} => fault'[o] # {}
        /\ Dest[o] # s => fault'[o] = fault[o]
    BY <1>1
  <2>6. exited' = exited
    BY <1>2
  <2>7. QED  BY <1>2, <1>3, <2>2, <2>3, <2>4, <2>5, <2>6, DieCopy
<1>7. exited' = FALSE
  BY <1>2
<1>8. QED  BY <1>4, <1>5, <1>6, <1>7 DEF IInv

LEMMA WorkerEndsStep ==
  ASSUME IInv, NEW s \in Sessions, WorkerEnds(s) PROVE IInv'
<1>1. /\ TypeOK /\ ~exited /\ exited \in BOOLEAN /\ worker[s] = "draining"
      /\ worker' = [worker EXCEPT ![s] = "ended"]
      /\ UNCHANGED <<job, conn, lost, inbox, tasks, keys, file, revoked, fault, losses, exited>>
  BY DEF IInv, WorkerEnds, TypeOK
<1>2. TypeOK'
  BY <1>1 DEF TypeOK
<1>3. ASSUME NEW p \in Sessions PROVE worker'[p] = "running" <=> worker[p] = "running"
  BY <1>1 DEF TypeOK
<1>4. ASSUME NEW p \in Sessions PROVE Linked(conn'[p], worker'[p], lost'[p])
  <2>1. worker'[p] = worker[p] \/ worker'[p] = "ended"
    BY <1>1 DEF TypeOK
  <2>2. QED  BY <1>1, <1>3, <2>1 DEF IInv, Linked
<1>5. ASSUME NEW o \in Ops PROVE CopyInv(o)'
  <2>1. /\ worker'[Src[o]] = "running" <=> worker[Src[o]] = "running"
        /\ worker'[Dest[o]] = "running" <=> worker[Dest[o]] = "running"
        /\ CopyInv(o)
    BY <1>1, <1>3, CopyTypes DEF IInv
  <2>2. Manned(tasks'[o], worker'[Src[o]], worker'[Dest[o]])
    BY <1>1, <2>1 DEF CopyInv, Manned
  <2>3. Answering(job'[o], tasks'[o], inbox'[o], file'[o], exited')
    BY <1>1, <2>1 DEF CopyInv
  <2>4. Cancelling(job'[o], tasks'[o], worker'[Src[o]], worker'[Dest[o]])
    BY <1>1, <2>1 DEF CopyInv, Cancelling
  <2>5. Keying(job'[o], tasks'[o], inbox'[o], keys'[o], revoked'[o], fault'[o],
               worker'[Dest[o]], conn'[Dest[o]], exited')
    BY <1>1, <2>1 DEF CopyInv, Keying, Explained
  <2>6. QED  BY <2>2, <2>3, <2>4, <2>5 DEF CopyInv
<1>6. exited' = FALSE
  BY <1>1
<1>7. QED  BY <1>2, <1>4, <1>5, <1>6 DEF IInv

\* A new worker finds empty queues: what was queued and what waited is lost.
LEMMA ReconnectStep ==
  ASSUME IInv, NEW s \in Sessions, Reconnect(s) PROVE IInv'
<1>1. /\ TypeOK /\ exited = FALSE /\ conn[s] = "down" /\ worker[s] # "running" /\ ~lost[s]
      /\ UNCHANGED <<lost, tasks, keys, file, revoked, fault, losses, exited>>
      /\ inbox' = [o \in Ops |-> inbox[o] \ Waiting(o, s)]
      /\ job' = [o \in Ops |-> [job[o] EXCEPT
                   !.toSrc = IF Src[o] = s THEN <<>> ELSE @,
                   !.toDest = IF Dest[o] = s THEN <<>> ELSE @]]
  BY DEF IInv, Reconnect, TypeOK, Linked
<1>2. /\ worker' \in [Sessions -> {"running", "draining", "ended"}] /\ worker'[s] = "running"
      /\ conn' \in [Sessions -> {"up", "down", "gone"}] /\ conn'[s] = "up"
      /\ \A p \in Sessions : p # s => worker'[p] = worker[p] /\ conn'[p] = conn[p]
  BY <1>1 DEF Reconnect, TypeOK
<1>3. ASSUME NEW o \in Ops
      PROVE  /\ job'[o] \in Job /\ job'[o].phase = job[o].phase
             /\ job'[o].trusted = job[o].trusted /\ job'[o].result = job[o].result
             /\ job'[o].late = job[o].late /\ job'[o].ans = job[o].ans
             /\ job'[o].warned = job[o].warned
             /\ job'[o].toSrc = IF Src[o] = s THEN <<>> ELSE job[o].toSrc
             /\ job'[o].toDest = IF Dest[o] = s THEN <<>> ELSE job[o].toDest
  <2>1. job[o] \in Job
    BY <1>1, CopyTypes
  <2> DEFINE a == IF Src[o] = s THEN <<>> ELSE job[o].toSrc
             b == IF Dest[o] = s THEN <<>> ELSE job[o].toDest
  <2>2. /\ a \in Seq({"direct", "read", "cancel"})
        /\ b \in Seq({"trust", "untrust", "write", "cancel"})
    BY <2>1 DEF Job
  <2>3. job'[o] = [job[o] EXCEPT !.toSrc = a, !.toDest = b]
    BY <1>1
  <2> HIDE DEF a, b
  <2>4. /\ job'[o] \in Job /\ job'[o].phase = job[o].phase
        /\ job'[o].trusted = job[o].trusted /\ job'[o].result = job[o].result
        /\ job'[o].late = job[o].late /\ job'[o].ans = job[o].ans
        /\ job'[o].warned = job[o].warned /\ job'[o].toSrc = a /\ job'[o].toDest = b
    BY <2>1, <2>2, <2>3 DEF Job
  <2>5. QED  BY <2>4 DEF a, b
<1>4. TypeOK'
  <2>1. job' \in [Ops -> Job]
    BY <1>1, <1>3
  <2>2. inbox' \in [Ops -> SUBSET Events]
    BY <1>1 DEF TypeOK
  <2>3. QED  BY <1>1, <1>2, <2>1, <2>2 DEF TypeOK
<1>5. ASSUME NEW p \in Sessions PROVE Linked(conn'[p], worker'[p], lost'[p])
  BY <1>1, <1>2 DEF IInv, Linked
<1>6. ASSUME NEW o \in Ops PROVE CopyInv(o)'
  <2> DEFINE r == job[o]
             q == job'[o]
             t == tasks[o]
  <2>1. /\ CopyInv(o) /\ Src[o] \in Sessions /\ Dest[o] \in Sessions /\ Src[o] # Dest[o]
        /\ tasks'[o] = t /\ inbox'[o] \subseteq inbox[o] /\ exited' = FALSE
        /\ keys'[o] = keys[o] /\ file'[o] = file[o] /\ revoked'[o] = revoked[o]
        /\ fault'[o] = fault[o]
    BY <1>1, CopyTypes DEF IInv
  <2>2. /\ Src[o] = s => worker[Src[o]] # "running" /\ q.toSrc = <<>> /\ q.toDest = r.toDest
        /\ Dest[o] = s => worker[Dest[o]] # "running" /\ q.toDest = <<>> /\ q.toSrc = r.toSrc
        /\ Src[o] # s => worker'[Src[o]] = worker[Src[o]] /\ q.toSrc = r.toSrc
        /\ Dest[o] # s => worker'[Dest[o]] = worker[Dest[o]] /\ q.toDest = r.toDest
                          /\ conn'[Dest[o]] = conn[Dest[o]]
    <3>1. /\ q.toSrc = IF Src[o] = s THEN <<>> ELSE r.toSrc
          /\ q.toDest = IF Dest[o] = s THEN <<>> ELSE r.toDest
      BY <1>3
    <3>2. /\ Src[o] # s => worker'[Src[o]] = worker[Src[o]]
          /\ Dest[o] # s => worker'[Dest[o]] = worker[Dest[o]] /\ conn'[Dest[o]] = conn[Dest[o]]
      BY <1>2, <2>1
    <3>3. /\ Src[o] = s => worker[Src[o]] # "running"
          /\ Dest[o] = s => worker[Dest[o]] # "running"
      BY <1>1
    <3> HIDE DEF q, r
    <3>4. QED  BY <2>1, <3>1, <3>2, <3>3
  <2>3. ASSUME NEW m
        PROVE  /\ Has(q.toSrc, m) => Has(r.toSrc, m)
               /\ Has(q.toDest, m) => Has(r.toDest, m)
    BY <2>2 DEF Has
  <2>4. /\ Once(r.toSrc, "read") => Once(q.toSrc, "read")
        /\ Once(r.toDest, "trust") => Once(q.toDest, "trust")
        /\ OnlyLast(r.toSrc, "cancel") => OnlyLast(q.toSrc, "cancel")
        /\ OnlyLast(r.toDest, "cancel") => OnlyLast(q.toDest, "cancel")
    BY <2>2 DEF Once, OnlyLast
  <2>5. /\ Src[o] = s => ~Has(q.toSrc, "read")
        /\ Dest[o] = s => ~Has(q.toDest, "write") /\ ~Has(q.toDest, "trust")
    BY <2>2 DEF Has
  <2>6. /\ q.phase = r.phase /\ q.trusted = r.trusted /\ q.result = r.result
        /\ q.late = r.late /\ q.ans = r.ans /\ q.warned = r.warned
    BY <1>3
  <2> HIDE DEF q
  <2>7. Manned(t, worker'[Src[o]], worker'[Dest[o]])
    <3>1. Manned(t, worker[Src[o]], worker[Dest[o]])
      BY <2>1 DEF CopyInv
    <3>2. QED  BY <1>2, <2>2, <3>1 DEF Manned
  <2>8. Answering(q, t, inbox'[o], file[o], FALSE)
    <3>1. Answering(r, t, inbox[o], file[o], FALSE)
      BY <1>1, <2>1 DEF CopyInv
    <3>2. QED  BY <2>1, <2>3, <2>4, <2>6, <3>1 DEF Answering
  <2>9. Cancelling(q, t, worker'[Src[o]], worker'[Dest[o]])
    <3>1. /\ Cancelling(r, t, worker[Src[o]], worker[Dest[o]])
          /\ Manned(t, worker[Src[o]], worker[Dest[o]])
      BY <2>1 DEF CopyInv
    <3>2. (/\ q.ans = "error" /\ worker'[Src[o]] = "running"
           /\ t.reader \in {"open", "streaming"} \/ Has(q.toSrc, "read")) => LastCancel(q.toSrc)
      BY <2>2, <2>5, <2>6, <3>1 DEF Cancelling, Manned
    <3>3. (/\ q.ans = "error" /\ worker'[Dest[o]] = "running"
           /\ t.writer = "open" \/ Has(q.toDest, "write")) => LastCancel(q.toDest)
      BY <2>2, <2>5, <2>6, <3>1 DEF Cancelling, Manned
    <3>4. QED  BY <2>3, <2>4, <2>6, <3>1, <3>2, <3>3 DEF Cancelling
  <2>10. Keying(r, t, inbox[o], keys[o], revoked[o], fault[o], worker[Dest[o]],
                conn[Dest[o]], FALSE)
    BY <1>1, <2>1 DEF CopyInv
  <2>11. /\ Pending(q, t) => Pending(r, t)
         /\ Removing(q, t) => Removing(r, t)
    BY <2>3 DEF Pending, Removing
  <2>12. KeyOnce(q, t, inbox'[o])
    BY <2>1, <2>3, <2>4, <2>10, <2>11 DEF Keying, KeyOnce
  <2>13. KeyPhase(q, t, inbox'[o], keys[o], fault[o], FALSE)
    <3>1. q.phase = "none" => q.toDest = <<>>
      BY <2>2, <2>6, <2>10 DEF Keying, KeyPhase
    <3>2. QED  BY <2>1, <2>6, <2>10, <2>11, <3>1 DEF Keying, KeyPhase
  <2>14. Keying(q, t, inbox'[o], keys[o], revoked[o], fault[o], worker'[Dest[o]],
                conn'[Dest[o]], FALSE)
    <3>1. CASE Dest[o] # s
      <4>1. /\ Pending(q, t) <=> Pending(r, t)
            /\ Removing(q, t) <=> Removing(r, t)
        BY <2>2, <3>1 DEF Pending, Removing
      <4>2. <<"untrusted", FALSE>> \in inbox[o] => <<"untrusted", FALSE>> \in inbox'[o]
        <5>1. <<"untrusted", FALSE>>[1] = "untrusted"
          OBVIOUS
        <5>2. <<"untrusted", FALSE>> \notin Waiting(o, s)
          BY <3>1, <5>1 DEF Waiting, FromSrc
        <5>3. QED  BY <1>1, <5>2
      <4>3. QED  BY <2>2, <2>6, <2>10, <2>12, <2>13, <3>1, <4>1, <4>2 DEF Keying, Explained, Settled
    <3>2. CASE Dest[o] = s
      <4>1. conn[Dest[o]] = "down" /\ worker[Dest[o]] # "running" /\ conn'[Dest[o]] = "up"
        BY <1>1, <1>2, <3>2
      <4>2. ~Pending(q, t)
        <5>1. ~t.trust
          BY <2>1, <4>1 DEF CopyInv, Manned
        <5>2. QED  BY <2>5, <3>2, <5>1 DEF Pending
      <4>3. Settled(q, t, revoked[o], fault[o])
        BY <4>2 DEF Settled
      <4>4. r.phase \in {"untrusting", "reading", "writing"} => r.warned
        BY <2>10, <4>1 DEF Keying, Idle
      <4>5. (q.phase = "done" /\ keys[o] /\ ~q.warned) => fault[o] # {}
        BY <2>6, <2>10, <4>1 DEF Keying
      <4>6. QED  BY <2>6, <2>12, <2>13, <4>1, <4>3, <4>4, <4>5 DEF Keying, Explained
    <3>3. QED  BY <3>1, <3>2
  <2>15. QED  BY <2>1, <2>7, <2>8, <2>9, <2>14 DEF CopyInv, q
<1>7. exited' = FALSE
  BY <1>1
<1>8. QED  BY <1>4, <1>5, <1>6, <1>7 DEF IInv

\* The program ends: what may stand is logged, nothing runs on but the
\* command on a source host.
LEMMA ExitStep ==
  ASSUME IInv, Exit PROVE IInv'
<1>1. TypeOK /\ exited = FALSE /\ exited' = TRUE /\ UNCHANGED <<keys, file, revoked, losses>>
  BY DEF IInv, Exit, TypeOK
<1>2. ASSUME NEW o \in Ops
      PROVE  /\ job'[o] \in Job /\ job'[o].phase = job[o].phase /\ job'[o].ans = job[o].ans
             /\ ~job'[o].trusted /\ job'[o].result = "none" /\ ~job'[o].late
             /\ job'[o].toSrc = <<>> /\ job'[o].toDest = <<>>
             /\ job'[o].warned <=>
                  job[o].warned \/ (MaybeTrusted(job[o]) /\ job[o].phase # "done")
  <2> DEFINE w == job[o].warned \/ (MaybeTrusted(job[o]) /\ job[o].phase # "done")
  <2>1. job[o] \in Job
    BY <1>1, CopyTypes
  <2>2. job'[o] = [NoJob EXCEPT !.phase = job[o].phase, !.ans = job[o].ans, !.warned = w]
    BY DEF Exit
  <2>3. w \in BOOLEAN /\ job[o].phase \in Phases /\ job[o].ans \in {"none", "direct", "relay", "error"}
    BY <2>1 DEF Job
  <2> HIDE DEF w
  <2>4. job'[o] = [phase |-> job[o].phase, started |-> FALSE, trusted |-> FALSE, result |-> "none",
          cancel |-> FALSE, late |-> FALSE, slow |-> FALSE, ans |-> job[o].ans,
          warned |-> w, toSrc |-> <<>>, toDest |-> <<>>]
    BY <2>2 DEF NoJob
  <2>5. /\ job'[o] \in Job /\ job'[o].phase = job[o].phase /\ job'[o].ans = job[o].ans
        /\ ~job'[o].trusted /\ job'[o].result = "none" /\ ~job'[o].late
        /\ job'[o].toSrc = <<>> /\ job'[o].toDest = <<>> /\ job'[o].warned = w
    BY <2>3, <2>4 DEF Job
  <2>6. QED  BY <2>5 DEF w
<1>3. ASSUME NEW o \in Ops
      PROVE  /\ tasks'[o] \in Tasks /\ ~tasks'[o].trust /\ tasks'[o].revoke = 0
             /\ tasks'[o].direct = "none" /\ tasks'[o].remote \in {"none", "running"}
             /\ tasks'[o].reader = "none" /\ tasks'[o].writer = "none"
             /\ tasks'[o].pipe = tasks[o].pipe
  <2> DEFINE a == IF tasks[o].remote = "running" THEN "running" ELSE "none"
  <2>1. tasks[o].pipe \in {"open", "whole", "short"} /\ a \in {"none", "running"}
    BY <1>1, CopyTypes DEF Tasks
  <2>2. tasks'[o] = [NoTasks EXCEPT !.remote = a, !.pipe = tasks[o].pipe]
    BY DEF Exit
  <2> HIDE DEF a
  <2>3. tasks'[o] = [trust |-> FALSE, revoke |-> 0, direct |-> "none", remote |-> a,
          reader |-> "none", writer |-> "none", pipe |-> tasks[o].pipe]
    BY <2>2 DEF NoTasks
  <2>4. QED  BY <2>1, <2>3 DEF Tasks
<1>4. /\ inbox' = [o \in Ops |-> {}]
      /\ \A s \in Sessions : worker'[s] = "ended" /\ conn'[s] = "gone" /\ lost'[s] = FALSE
      /\ \A o \in Ops :
           /\ fault[o] \subseteq fault'[o]
           /\ (RevocationUnderWay(o) /\ job[o].phase = "done") => fault'[o] # {}
  BY DEF Exit
<1>5. TypeOK'
  <2>1. job' \in [Ops -> Job]
    BY <1>2 DEF Exit
  <2>2. tasks' \in [Ops -> Tasks]
    BY <1>3 DEF Exit
  <2>3. fault' \in [Ops -> SUBSET {"receipt", "outran", "unheard", "swallowed", "dead"}]
    BY <1>1 DEF Exit, TypeOK
  <2>4. /\ inbox' \in [Ops -> SUBSET Events] /\ lost' \in [Sessions -> BOOLEAN]
        /\ worker' \in [Sessions -> {"running", "draining", "ended"}]
        /\ conn' \in [Sessions -> {"up", "down", "gone"}]
    BY DEF Exit
  <2>5. QED  BY <1>1, <2>1, <2>2, <2>3, <2>4 DEF TypeOK
<1>6. ASSUME NEW s \in Sessions PROVE Linked(conn'[s], worker'[s], lost'[s])
  BY <1>4 DEF Linked
<1>7. ASSUME NEW o \in Ops PROVE CopyInv(o)'
  <2> DEFINE r == job[o]
             q == job'[o]
             t == tasks[o]
             u == tasks'[o]
  <2>1. /\ CopyInv(o) /\ r \in Job /\ Src[o] \in Sessions /\ Dest[o] \in Sessions
        /\ inbox'[o] = {} /\ worker'[Dest[o]] = "ended" /\ worker'[Src[o]] = "ended"
        /\ conn'[Dest[o]] = "gone"
    BY <1>1, <1>4, CopyTypes DEF IInv
  <2>2. /\ ~Has(q.toSrc, "read") /\ ~Has(q.toDest, "write") /\ ~Has(q.toDest, "trust")
        /\ ~Has(q.toDest, "untrust") /\ ~Has(q.toSrc, "cancel") /\ ~Has(q.toDest, "cancel")
        /\ Once(q.toSrc, "read") /\ Once(q.toDest, "trust")
        /\ OnlyLast(q.toSrc, "cancel") /\ OnlyLast(q.toDest, "cancel")
    BY <1>2 DEF Has, Once, OnlyLast
  <2>3. Manned(u, worker'[Src[o]], worker'[Dest[o]])
    BY <1>3 DEF Manned
  <2>4. Answering(q, u, inbox'[o], file'[o], TRUE)
    <3>1. Answering(r, t, inbox[o], file[o], FALSE)
      BY <1>1, <2>1 DEF CopyInv
    <3>2. file'[o] = file[o]
      BY <1>1
    <3> HIDE DEF q, u, r, t
    <3>3. QED  BY <1>2, <1>3, <2>1, <2>2, <3>1, <3>2 DEF Answering, q, u, r, t
  <2>5. Cancelling(q, u, worker'[Src[o]], worker'[Dest[o]])
    BY <2>1, <2>2 DEF Cancelling
  <2>6. ~Pending(q, u) /\ ~Removing(q, u)
    BY <1>3, <2>2 DEF Pending, Removing
  <2>7. Keying(r, t, inbox[o], keys[o], revoked[o], fault[o], worker[Dest[o]],
               conn[Dest[o]], FALSE)
    BY <1>1, <2>1 DEF CopyInv
  <2>8. keys'[o] = keys[o] /\ revoked'[o] = revoked[o]
    BY <1>1
  <2>9. KeyOnce(q, u, inbox'[o])
    BY <2>1, <2>2, <2>6, <1>3 DEF KeyOnce
  <2>10. KeyPhase(q, u, inbox'[o], keys'[o], fault'[o], TRUE)
    <3>1. q.phase = "none" => ~keys'[o]
      BY <1>2, <2>7, <2>8 DEF Keying, KeyPhase
    <3>2. q.phase = "untrusting" => q.warned
      BY <1>2, <2>7 DEF Keying, KeyPhase, MaybeTrusted
    <3>3. QED  BY <1>2, <1>3, <2>1, <2>6, <3>1, <3>2 DEF KeyPhase
  <2>11. Explained(q, u, inbox'[o], keys'[o], fault'[o], worker'[Dest[o]])
    BY <2>1 DEF Explained
  <2>12. (q.phase = "done" /\ keys'[o] /\ ~q.warned) => fault'[o] # {}
    <3>1. Removing(r, t) => RevocationUnderWay(o)
      BY DEF Removing, RevocationUnderWay, Has
    <3>2. QED  BY <1>2, <1>4, <2>7, <2>8, <3>1 DEF Keying
  <2>13. Settled(q, u, revoked'[o], fault'[o])
    BY <2>6 DEF Settled
  <2>14. Keying(q, u, inbox'[o], keys'[o], revoked'[o], fault'[o], worker'[Dest[o]],
                conn'[Dest[o]], TRUE)
    BY <2>1, <2>9, <2>10, <2>11, <2>12, <2>13 DEF Keying
  <2>15. QED  BY <1>1, <2>3, <2>4, <2>5, <2>14 DEF CopyInv
<1>8. QED  BY <1>4, <1>5, <1>6, <1>7 DEF IInv

--------------------------------------------------------------------------------
(* The theorems.                                                           *)

LEMMA InitInv == Init => IInv
<1> SUFFICES ASSUME Init PROVE IInv
  OBVIOUS
<1>1. NoJob \in Job /\ NoTasks \in Tasks
  <2>1. /\ <<>> \in Seq({"direct", "read", "cancel"})
        /\ <<>> \in Seq({"trust", "untrust", "write", "cancel"})
    OBVIOUS
  <2>2. QED  BY <2>1 DEF NoJob, Job, Phases, NoTasks, Tasks
<1>2. TypeOK
  <2>1. job \in [Ops -> Job] /\ tasks \in [Ops -> Tasks]
    BY <1>1 DEF Init
  <2>2. losses \in 0..MaxLosses /\ exited \in BOOLEAN
    <3>1. MaxLosses \in Nat
      BY EndsAssumption
    <3>2. losses = 0 /\ exited = FALSE
      BY DEF Init
    <3>3. losses \in 0..MaxLosses
      BY <3>1, <3>2
    <3>4. QED  BY <3>2, <3>3
  <2>3. /\ conn \in [Sessions -> {"up", "down", "gone"}]
        /\ worker \in [Sessions -> {"running", "draining", "ended"}]
        /\ lost \in [Sessions -> BOOLEAN] /\ inbox \in [Ops -> SUBSET Events]
        /\ keys \in [Ops -> BOOLEAN] /\ revoked \in [Ops -> BOOLEAN]
        /\ file \in [Ops -> {"old", "direct", "relayed"}]
    BY DEF Init
  <2>4. fault \in [Ops -> SUBSET {"receipt", "outran", "unheard", "swallowed", "dead"}]
    BY DEF Init
  <2>5. QED  BY <2>1, <2>2, <2>3, <2>4 DEF TypeOK
<1>3. ASSUME NEW s \in Sessions PROVE Linked(conn[s], worker[s], lost[s])
  BY DEF Init, Linked
<1>4. ASSUME NEW o \in Ops PROVE CopyInv(o)
  <2>1. /\ job[o] = NoJob /\ tasks[o] = NoTasks /\ inbox[o] = {} /\ ~keys[o]
        /\ worker[Src[o]] = "running" /\ worker[Dest[o]] = "running" /\ conn[Dest[o]] = "up"
        /\ ~exited
    BY EndsAssumption DEF Init
  <2>2. /\ job[o].phase = "none" /\ job[o].ans = "none" /\ ~job[o].late
        /\ job[o].result = "none" /\ job[o].toSrc = <<>> /\ job[o].toDest = <<>>
        /\ ~tasks[o].trust /\ tasks[o].revoke = 0 /\ tasks[o].reader = "none"
        /\ tasks[o].writer = "none" /\ tasks[o].pipe = "open" /\ tasks[o].remote = "none"
    BY <2>1 DEF NoJob, NoTasks
  <2>3. /\ \A m : ~Has(job[o].toSrc, m) /\ ~Has(job[o].toDest, m)
        /\ Once(job[o].toSrc, "read") /\ Once(job[o].toDest, "trust")
        /\ OnlyLast(job[o].toSrc, "cancel") /\ OnlyLast(job[o].toDest, "cancel")
    BY <2>2 DEF Has, Once, OnlyLast
  <2>4. Manned(tasks[o], worker[Src[o]], worker[Dest[o]])
    BY <2>1 DEF Manned
  <2>5. Answering(job[o], tasks[o], inbox[o], file[o], exited)
    BY <2>1, <2>2, <2>3 DEF Answering
  <2>6. Cancelling(job[o], tasks[o], worker[Src[o]], worker[Dest[o]])
    BY <2>2, <2>3 DEF Cancelling
  <2>7. Keying(job[o], tasks[o], inbox[o], keys[o], revoked[o], fault[o], worker[Dest[o]],
               conn[Dest[o]], exited)
    BY <2>1, <2>2, <2>3 DEF Keying, KeyOnce, KeyPhase, Removing, Pending
  <2>8. QED  BY <2>4, <2>5, <2>6, <2>7 DEF CopyInv
<1>5. ~exited
  BY DEF Init
<1>6. QED  BY <1>2, <1>3, <1>4, <1>5 DEF IInv

LEMMA NextInv == IInv /\ [Next]_vars => IInv'
<1> SUFFICES ASSUME IInv, [Next]_vars PROVE IInv'
  OBVIOUS
<1>1. CASE Frame
  BY <1>1, FrameStep
<1>2. CASE Exit
  BY <1>2, ExitStep
<1>3. ASSUME NEW o \in Ops,
             CopyBetweenSessions(o) \/ DeadlinePasses(o) \/ TaskStep(o) \/ RemoteCommand(o)
      PROVE  IInv'
  <2>1. CASE CopyBetweenSessions(o)
    BY <2>1, CopyBetweenSessionsStep
  <2>2. CASE DeadlinePasses(o)
    BY <2>2, DeadlinePassesStep
  <2>3. CASE TakeDest(o)
    BY <2>3, TakeDestStep
  <2>4. CASE TakeSrc(o)
    BY <2>4, TakeSrcStep
  <2>5. CASE TrustTempKey(o)
    BY <2>5, TrustTempKeyStep
  <2>6. CASE UntrustTempKey(o)
    BY <2>6, UntrustTempKeyStep
  <2>7. CASE DirectPrepare(o) \/ DirectLaunch(o) \/ DirectReport(o)
    BY <2>7, DirectStep
  <2>8. CASE RelayRead(o)
    BY <2>8, RelayReadStep
  <2>9. CASE RelayWrite(o)
    BY <2>9, RelayWriteStep
  <2>10. CASE RemoteCommand(o)
    BY <2>10, RemoteCommandStep
  <2>11. QED  BY <1>3, <2>1, <2>2, <2>3, <2>4, <2>5, <2>6, <2>7, <2>8, <2>9, <2>10 DEF TaskStep
<1>4. ASSUME NEW s \in Sessions,
             LoseConnection(s) \/ WorkerEnds(s) \/ CloseSession(s) \/ Reconnect(s)
      PROVE  IInv'
  BY <1>4, WorkerDiesStep, WorkerEndsStep, ReconnectStep
<1>5. CASE UNCHANGED vars
  <2>1. TypeOK'
    BY <1>5 DEF vars, IInv, TypeOK
  <2>2. \A o \in Ops : CopyInv(o)'
    BY <1>5 DEF vars, IInv, CopyInv
  <2>3. QED  BY <1>5, <2>1, <2>2 DEF vars, IInv
<1>6. QED  BY <1>1, <1>2, <1>3, <1>4, <1>5 DEF Next

\* The inductive invariant holds in every reachable state.
THEOREM Invariance == Spec => []IInv
<1>1. QED  BY InitInv, NextInv, PTL DEF Spec

\* Jobs, tasks, queues and events keep their types.
THEOREM TypeCorrect == Spec => []TypeOK
<1>1. IInv => TypeOK
  BY DEF IInv
<1>2. QED  BY <1>1, Invariance, PTL

\* A caller told that its file was copied finds a whole copy of the source:
\* resolve_cross_copy_job answers "ok" only after the end it stands for.
THEOREM TrueAnswers == Spec => []AnswerTrue
<1>1. ASSUME IInv, NEW o \in Ops
      PROVE  /\ job[o].ans = "direct" => file[o] = "direct"
             /\ job[o].ans = "relay" => file[o] # "old" /\ tasks[o].pipe = "whole"
  BY <1>1 DEF IInv, CopyInv, Answering
<1>2. IInv => AnswerTrue
  BY <1>1 DEF AnswerTrue
<1>3. QED  BY <1>2, Invariance, PTL

\* A temporary key that stands when its copy is over is about to be revoked,
\* was announced to the user, or is one of the five named cases.
THEOREM ExplainedResidue == Spec => []ResidueExplained
<1>1. ASSUME IInv, NEW o \in Ops, job[o].phase = "done", keys[o], ~job[o].warned
      PROVE  fault[o] # {} \/ RevocationUnderWay(o)
  <2>1. fault[o] # {} \/ Removing(job[o], tasks[o])
    BY <1>1 DEF IInv, CopyInv, Keying
  <2>2. QED  BY <2>1 DEF Removing, RevocationUnderWay, Has
<1>2. IInv => ResidueExplained
  BY <1>1 DEF ResidueExplained
<1>3. QED  BY <1>2, Invariance, PTL

\* After a failed copy no running worker reads or writes for it without a
\* cancellation in its queue (cancel_transfer in resolve_cross_copy_job).
THEOREM FailureStops == Spec => []FailureStopsRelay
<1>1. ASSUME IInv, NEW o \in Ops, job[o].ans = "error", ~exited
      PROVE  /\ (tasks[o].reader \in {"open", "streaming"} \/ Has(job[o].toSrc, "read"))
                   => worker[Src[o]] # "running" \/ Has(job[o].toSrc, "cancel")
             /\ (tasks[o].writer = "open" \/ Has(job[o].toDest, "write"))
                   => worker[Dest[o]] # "running" \/ Has(job[o].toDest, "cancel")
  <2>1. /\ Cancelling(job[o], tasks[o], worker[Src[o]], worker[Dest[o]])
        /\ job[o].toSrc \in Seq(SrcCmd) /\ job[o].toDest \in Seq(DestCmd)
    BY <1>1, CopyTypes DEF IInv, CopyInv, Job, SrcCmd, DestCmd
  <2>2. ASSUME NEW S, NEW q \in Seq(S), LastCancel(q) PROVE Has(q, "cancel")
    <3>1. Len(q) \in DOMAIN q
      BY <2>2 DEF LastCancel
    <3>2. QED  BY <2>2, <3>1 DEF LastCancel, Has
  <2>3. /\ LastCancel(job[o].toSrc) => Has(job[o].toSrc, "cancel")
        /\ LastCancel(job[o].toDest) => Has(job[o].toDest, "cancel")
    BY <2>1, <2>2
  <2>4. QED  BY <1>1, <2>1, <2>3 DEF Cancelling
<1>2. IInv => FailureStopsRelay
  BY <1>1 DEF FailureStopsRelay, Has
<1>3. QED  BY <1>2, Invariance, PTL

\* The first frame after the total deadline answers the caller, and answers
\* "direct" when only the receipt of the revocation was missing.
THEOREM AnsweredInTime == Spec => DeadlineAnswers
<1>1. ASSUME IInv, IInv', Frame, NEW o \in Ops, job[o].late
      PROVE  /\ job'[o].phase = "done" /\ job'[o].ans # "none"
             /\ (job[o].phase = "untrusting" /\ job[o].result = "ok") => job'[o].ans = "direct"
  <2>1. PICK in \in SUBSET UNION {inbox[p] : p \in Ops} :
          LET left(p)  == inbox[p] \ in
              noted(s) == lost[s] /\ \A p \in Ops : Waiting(p, s) \cap left(p) = {}
              c == [s \in Sessions |-> IF noted(s) THEN "down" ELSE conn[s]]
          IN job' = [p \in Ops |-> Advance(p, c, inbox[p] \cap in, job[p])]
    BY <1>1 DEF Frame
  <2> DEFINE noted(s) == lost[s] /\ \A p \in Ops : Waiting(p, s) \cap (inbox[p] \ in) = {}
             c == [s \in Sessions |-> IF noted(s) THEN "down" ELSE conn[s]]
  <2>2. job'[o] = Advance(o, c, inbox[o] \cap in, job[o])
    BY <2>1
  <2>3. \A s \in Sessions : c[s] = conn[s] \/ (c[s] = "down" /\ lost[s])
    <3>1. ASSUME NEW s \in Sessions PROVE c[s] = IF noted(s) THEN "down" ELSE conn[s]
      OBVIOUS
    <3>2. \A s \in Sessions : noted(s) => lost[s]
      OBVIOUS
    <3> HIDE DEF noted, c
    <3>3. QED  BY <3>1, <3>2
  <2>4. ~exited
    BY <1>1 DEF Frame
  <2> HIDE DEF noted, c
  <2>5. job[o].phase \notin Idle
    BY <1>1 DEF IInv, CopyInv, Answering
  <2>6. /\ Follows(job'[o], job[o])
        /\ job'[o].phase # "done" => ~job'[o].late
    BY <1>1, <2>2, <2>3, <2>4, <2>5, FrameJob
  <2>7. job'[o].phase = "done" /\ job'[o].ans # "none"
    BY <1>1, <2>6 DEF Follows, IInv, CopyInv, Answering
  <2>8. (job[o].phase = "untrusting" /\ job[o].result = "ok") => job'[o].ans = "direct"
    BY <2>6, <2>7 DEF Follows, Won
  <2>9. QED  BY <2>7, <2>8
<1>2. IInv /\ IInv' /\ [Next]_vars =>
        [\A o \in Ops : (Frame /\ job[o].late) =>
           /\ job'[o].phase = "done" /\ job'[o].ans # "none"
           /\ (job[o].phase = "untrusting" /\ job[o].result = "ok") => job'[o].ans = "direct"]_vars
  BY <1>1
<1>3. QED  BY <1>2, Invariance, PTL DEF Spec, DeadlineAnswers
================================================================================
