----------------------------- MODULE PasteProofs -----------------------------
(***************************************************************************)
(* Proofs about Paste, for every number of tabs, pastes, clicks, lost        *)
(* connections and closed tabs.                                             *)
(*                                                                         *)
(* The inductive invariant is made of four parts: what is on its way belongs *)
(* to a paste and to the worker of its tab (Base); a success has left its     *)
(* files (LandInv); a job that waits is heard or was cut off (HeardInv); and  *)
(* a transfer that is never resent has one attempt, which is over once its   *)
(* row has an outcome (PlainInv).                                           *)
(***************************************************************************)
EXTENDS Paste, FiniteSetTheorems, TLAPS

-----------------------------------------------------------------------------
(* What the channels hold, without the places.                                *)

Has(q, e) == \E k \in DOMAIN q : q[k] = e
Single(q, e) == \A i, j \in DOMAIN q : q[i] = e /\ q[j] = e => i = j
InOrder(q, e, S) == \A i, j \in DOMAIN q : q[i] = e /\ q[j] \in S => i < j

Files == Entries \ {"link"}

-----------------------------------------------------------------------------
(* The invariant.                                                             *)

Kinds == {"relay", "direct", "local"}

Plan == [kind : Kinds \union {"none"}, cut : BOOLEAN, src : Tab, dst : Tab, stop : BOOLEAN]
RowT == [present : BOOLEAN, ok : {"open", "ok", "fail"}, paused : BOOLEAN,
         queued : BOOLEAN, spec : BOOLEAN]
Cmd == [op : {"start", "cancel", "delete"}, x : Xfer]
Evt == [ev : {"connected", "disconnected"}] \union [ev : {"start"}, x : Xfer]
         \union [ev : {"done"}, x : Xfer, ok : BOOLEAN]
Task == [x : Xfer, st : {"new", "run"}, stop : BOOLEAN, old : BOOLEAN]

Typed ==
    /\ link \in [Tab -> {"up", "down", "closed"}]
    /\ online \in [Tab -> BOOLEAN]
    /\ cmds \in [Tab -> Seq(Cmd)]
    /\ evts \in [Tab -> Seq(Evt)]
    /\ tasks \in SUBSET Task
    /\ rows \in [Xfer -> RowT]
    /\ job \in [Paste -> {"none", "down", "up", "direct", "local", "ended"}]
    /\ plan \in [Paste -> Plan]
    /\ ask \in Seq(Plan)
    /\ gone \in SUBSET Tab
    /\ copies \in SUBSET (Tab \X Tab \X Entries)
    /\ tmp \in SUBSET (Paste \X Entries)
    /\ cut \in [Paste -> {"none", "offline", "replaced", "norow"}]

Known(x) == job[x[1]] # "none"

\* A paste that has not begun has left no trace, and a job is of its plan's kind.
PlanOK(p) ==
    /\ job[p] = "none" => \A x \in {Src(p), Dst(p)} : rows[x] = NoRow
    /\ job[p] # "none" => plan[p].kind \in Kinds
    /\ job[p] \in {"down", "up"} => plan[p].kind = "relay"
    /\ job[p] = "direct" => plan[p].kind = "direct"
    /\ job[p] = "local" => plan[p].kind = "local"

\* What is on its way belongs to a paste and to the worker of its row's tab.
Ways ==
    /\ \A s \in Tab : \A c \in Cmd :
         Has(cmds[s], c) => Known(c.x) /\ (c.op = "start" => Owner(c.x) = s)
    /\ \A t \in tasks : Known(t.x)
    /\ \A s \in Tab : \A e \in Evt :
         Has(evts[s], e) /\ e.ev \in {"start", "done"} => Known(e.x) /\ Owner(e.x) = s
    /\ \A q \in Plan : Has(ask, q) => q.kind = "direct"

\* Only the row of a local paste can be resent or wait for a connection.
RowKind(x) ==
    /\ rows[x].spec \/ rows[x].paused => Known(x) /\ plan[x[1]].kind = "local"
    /\ rows[x].spec \/ rows[x].paused => rows[x].present

Base == Typed /\ (\A p \in Paste : PlanOK(p)) /\ Ways /\ (\A x \in Xfer : RowKind(x))

\* A success has left its files at the destination.
Landed(x) == \/ IsRelay(x[1]) /\ x[2] = "src"
             \/ \A e \in Files : <<plan[x[1]].src, plan[x[1]].dst, e>> \in copies
Copied(s) == \E d \in Tab : \A e \in Files : <<s, d, e>> \in copies

LandInv ==
    /\ \A s \in Tab : \A x \in Xfer : Has(evts[s], Done(x, TRUE)) => Landed(x)
    /\ \A x \in Xfer : rows[x].ok = "ok" => Landed(x)
    /\ \A s \in Tab : \A c \in Cmd : Has(cmds[s], c) /\ c.op = "delete" => Copied(s)
    /\ \A s \in gone : Copied(s)

ConnEvt == [ev |-> "connected"]
LostEvt == [ev |-> "disconnected"]
Ends(x) == {Done(x, TRUE), Done(x, FALSE)}
Runs(t, x) == t \in tasks /\ t.x = x /\ ~t.old

\* A job that waits, and was not cut off, will hear of its transfer.
HangsAt(p, x) ==
    /\ Open(Owner(x)) /\ (rows[x].present => rows[x].ok = "open")
    /\ ~rows[x].paused /\ cut[p] = "none"
Saved(x) ==
    \/ Has(cmds[Owner(x)], Start(x))
    \/ \E t \in tasks : Runs(t, x)
    \/ \E d \in Ends(x) : Has(evts[Owner(x)], d)
    \/ rows[x].spec /\ Has(evts[Owner(x)], LostEvt)
Heard(p) == Waiting(p) /\ HangsAt(p, Follows(p)) => Saved(Follows(p))
HeardInv == \A p \in Paste : Heard(p)

\* The one attempt of a transfer that is never resent.
Plain(x) == Known(x) /\ plan[x[1]].kind # "local"
Begins(x) == [ev |-> "start", x |-> x]
Told(x) == \E e \in Ends(x) \union {Begins(x)} : Has(evts[Owner(x)], e)
Over(x) == /\ ~Has(cmds[Owner(x)], Start(x))
           /\ \A t \in tasks : ~Runs(t, x)
           /\ ~Has(evts[Owner(x)], Begins(x))

Once(x) ==
    LET c == cmds[Owner(x)]
        v == evts[Owner(x)]
    IN /\ Single(c, Start(x))
       /\ Has(c, Start(x)) => ~Told(x) /\ \A t \in tasks : ~Runs(t, x)
       /\ \A t, u \in tasks : Runs(t, x) /\ Runs(u, x) => t = u
       /\ \A t \in tasks : Runs(t, x) =>
            /\ \A e \in Ends(x) : ~Has(v, e)
            /\ t.st = "new" => ~Has(v, Begins(x))
       /\ InOrder(v, Begins(x), Ends(x))

Passed(x) == job[x[1]] = "ended" \/ (job[x[1]] = "up" /\ x[2] = "src")
Waits(x) == x[2] = "dst" /\ job[x[1]] \in {"down", "direct"}

PlainOK(x) ==
    /\ Once(x)
    /\ rows[x].ok # "open" => Over(x)
    /\ Passed(x) => Over(x) /\ (rows[x].present => rows[x].ok # "open")
    /\ Waits(x) => Over(x) /\ ~Told(x) /\ rows[x].ok = "open"
    /\ link[Owner(x)] = "closed" => Over(x) /\ ~rows[x].present
PlainInv == \A x \in Xfer : Plain(x) => PlainOK(x)

-----------------------------------------------------------------------------
(* Sequences and transfers.                                                   *)

LEMMA HasAppend ==
  ASSUME NEW T, NEW q \in Seq(T), NEW a \in T, NEW e
  PROVE  /\ Append(q, a) \in Seq(T)
         /\ Has(Append(q, a), e) <=> Has(q, e) \/ e = a
<1>1. /\ Append(q, a) \in Seq(T) /\ Len(Append(q, a)) = Len(q) + 1 /\ Len(q) \in Nat
      /\ DOMAIN q = 1..Len(q) /\ DOMAIN Append(q, a) = 1..(Len(q) + 1)
      /\ \A k \in 1..Len(q) : Append(q, a)[k] = q[k]
      /\ Append(q, a)[Len(q) + 1] = a
  OBVIOUS
<1>2. \A k \in 1..(Len(q) + 1) : k \in 1..Len(q) \/ k = Len(q) + 1
  BY <1>1
<1>3. \A k \in 1..Len(q) : k \in 1..(Len(q) + 1)
  BY <1>1
<1>4. Len(q) + 1 \in 1..(Len(q) + 1)
  BY <1>1
<1> QED BY <1>1, <1>2, <1>3, <1>4 DEF Has

LEMMA HasTail ==
  ASSUME NEW T, NEW q \in Seq(T), q # <<>>, NEW e
  PROVE  /\ Tail(q) \in Seq(T) /\ Head(q) \in T
         /\ Has(q, Head(q))
         /\ Has(q, e) <=> e = Head(q) \/ Has(Tail(q), e)
<1>1. /\ Tail(q) \in Seq(T) /\ Head(q) \in T /\ Head(q) = q[1]
      /\ Len(q) \in Nat /\ Len(q) >= 1
      /\ DOMAIN q = 1..Len(q) /\ DOMAIN Tail(q) = 1..(Len(q) - 1)
      /\ \A k \in 1..(Len(q) - 1) : Tail(q)[k] = q[k + 1]
  OBVIOUS
<1>2. /\ 1 \in 1..Len(q)
      /\ \A k \in 1..Len(q) : k = 1 \/ (k - 1 \in 1..(Len(q) - 1) /\ (k - 1) + 1 = k)
      /\ \A k \in 1..(Len(q) - 1) : k + 1 \in 1..Len(q)
  BY <1>1
<1> QED BY <1>1, <1>2 DEF Has

LEMMA HasEmpty == \A e : ~Has(<<>>, e)
  BY DEF Has

LEMMA HasOne == \A a, e : Has(<<a>>, e) <=> e = a
  BY DEF Has

LEMMA HasConcat ==
  ASSUME NEW T, NEW q \in Seq(T), NEW r \in Seq(T), NEW e
  PROVE  q \o r \in Seq(T) /\ (Has(q \o r, e) <=> Has(q, e) \/ Has(r, e))
<1>1. /\ q \o r \in Seq(T) /\ Len(q) \in Nat /\ Len(r) \in Nat
      /\ DOMAIN q = 1..Len(q) /\ DOMAIN r = 1..Len(r)
      /\ DOMAIN (q \o r) = 1..(Len(q) + Len(r))
  OBVIOUS
<1>2. \A k \in 1..Len(q) : (q \o r)[k] = q[k] /\ k \in 1..(Len(q) + Len(r))
  BY <1>1
<1>3. \A k \in 1..Len(r) : (q \o r)[Len(q) + k] = r[k] /\ Len(q) + k \in 1..(Len(q) + Len(r))
  BY <1>1
<1>4. \A k \in 1..(Len(q) + Len(r)) : k \in 1..Len(q)
         \/ (k - Len(q) \in 1..Len(r) /\ Len(q) + (k - Len(q)) = k)
  BY <1>1
<1> HIDE DEF Has
<1>5. Has(q \o r, e) => Has(q, e) \/ Has(r, e)
  <2> SUFFICES ASSUME NEW k \in 1..(Len(q) + Len(r)), (q \o r)[k] = e
               PROVE  Has(q, e) \/ Has(r, e)
    BY <1>1 DEF Has
  <2> QED BY <1>1, <1>2, <1>3, <1>4 DEF Has
<1>6. Has(q, e) \/ Has(r, e) => Has(q \o r, e)
  BY <1>1, <1>2, <1>3 DEF Has
<1> QED BY <1>1, <1>5, <1>6

LEMMA XferParts ==
  /\ \A x \in Xfer : x[1] \in Paste /\ (x = Src(x[1]) \/ x = Dst(x[1]))
  /\ \A p \in Paste : /\ Src(p) \in Xfer /\ Dst(p) \in Xfer /\ Src(p) # Dst(p)
                      /\ Src(p)[1] = p /\ Dst(p)[1] = p
                      /\ Src(p)[2] = "src" /\ Dst(p)[2] = "dst"
  BY DEF Xfer, Src, Dst

LEMMA Owners ==
  ASSUME Typed, NEW p \in Paste
  PROVE  /\ Owner(Src(p)) = plan[p].src /\ Owner(Dst(p)) = plan[p].dst
         /\ plan[p].src \in Tab /\ plan[p].dst \in Tab
  BY DEF Typed, Plan, Owner, Src, Dst

LEMMA OwnerTab ==
  ASSUME Typed, NEW x \in Xfer
  PROVE  Owner(x) \in Tab
  BY XferParts, Owners

LEMMA XferFinite == IsFiniteSet(Xfer)
<1>1. MaxPastes + MaxAgain \in Nat
  BY PasteAssumption
<1>2. IsFiniteSet(Paste)
  BY <1>1, FS_Interval DEF Paste
<1>3. IsFiniteSet({"src", "dst"})
  <2> DEFINE A == {"src"}
  <2>1. IsFiniteSet(A)
    BY FS_Singleton
  <2>2. {"src", "dst"} = A \union {"dst"}
    OBVIOUS
  <2> HIDE DEF A
  <2>3. IsFiniteSet(A \union {"dst"})
    BY <2>1, FS_AddElement, Zenon
  <2> QED BY <2>2, <2>3
<1> QED BY <1>2, <1>3, FS_Product DEF Xfer

\* What comes first in a channel of which an event occurs once, or in order.
LEMMA SingleAppend ==
  ASSUME NEW T, NEW q \in Seq(T), NEW a \in T, NEW e, Single(q, e),
         e = a => ~Has(q, e)
  PROVE  Single(Append(q, a), e)
<1>1. /\ DOMAIN q = 1..Len(q) /\ DOMAIN Append(q, a) = 1..(Len(q) + 1) /\ Len(q) \in Nat
      /\ \A k \in 1..Len(q) : Append(q, a)[k] = q[k]
      /\ Append(q, a)[Len(q) + 1] = a
  OBVIOUS
<1>2. \A k \in 1..(Len(q) + 1) : k \in 1..Len(q) \/ k = Len(q) + 1
  BY <1>1
<1> QED BY <1>1, <1>2 DEF Has, Single

LEMMA SingleTail ==
  ASSUME NEW T, NEW q \in Seq(T), q # <<>>, NEW e, Single(q, e)
  PROVE  /\ Single(Tail(q), e)
         /\ Head(q) = e => ~Has(Tail(q), e)
<1>1. /\ Len(q) \in Nat /\ Len(q) >= 1 /\ Head(q) = q[1]
      /\ DOMAIN q = 1..Len(q) /\ DOMAIN Tail(q) = 1..(Len(q) - 1)
      /\ \A k \in 1..(Len(q) - 1) : Tail(q)[k] = q[k + 1]
  OBVIOUS
<1>2. /\ 1 \in 1..Len(q)
      /\ \A k \in 1..(Len(q) - 1) : k + 1 \in 1..Len(q) /\ k + 1 # 1
      /\ \A j, k \in 1..(Len(q) - 1) : j + 1 = k + 1 => j = k
  BY <1>1
<1> QED BY <1>1, <1>2 DEF Has, Single

LEMMA SingleConcat ==
  ASSUME NEW T, NEW q \in Seq(T), NEW r \in Seq(T), NEW e, Single(q, e), ~Has(r, e)
  PROVE  Single(q \o r, e)
<1>1. /\ Len(q) \in Nat /\ Len(r) \in Nat
      /\ DOMAIN q = 1..Len(q) /\ DOMAIN r = 1..Len(r)
      /\ DOMAIN (q \o r) = 1..(Len(q) + Len(r))
      /\ \A k \in 1..Len(q) : (q \o r)[k] = q[k]
  OBVIOUS
<1>2. \A k \in 1..Len(r) : (q \o r)[Len(q) + k] = r[k]
  BY <1>1
<1>3. \A k \in 1..(Len(q) + Len(r)) : k \in 1..Len(q)
         \/ (k - Len(q) \in 1..Len(r) /\ Len(q) + (k - Len(q)) = k)
  BY <1>1
<1>4. \A k \in 1..(Len(q) + Len(r)) : (q \o r)[k] = e => k \in 1..Len(q)
  BY <1>1, <1>2, <1>3 DEF Has
<1> QED BY <1>1, <1>4 DEF Single

LEMMA InOrderAppend ==
  ASSUME NEW T, NEW q \in Seq(T), NEW a \in T, NEW e, NEW S, InOrder(q, e, S), e \notin S,
         a = e => \A d \in S : ~Has(q, d)
  PROVE  InOrder(Append(q, a), e, S)
<1>1. /\ DOMAIN q = 1..Len(q) /\ DOMAIN Append(q, a) = 1..(Len(q) + 1) /\ Len(q) \in Nat
      /\ \A k \in 1..Len(q) : Append(q, a)[k] = q[k]
      /\ Append(q, a)[Len(q) + 1] = a
  OBVIOUS
<1>2. /\ \A k \in 1..(Len(q) + 1) : k \in 1..Len(q) \/ k = Len(q) + 1
      /\ \A k \in 1..Len(q) : k < Len(q) + 1
  BY <1>1
<1> QED BY <1>1, <1>2 DEF Has, InOrder

LEMMA InOrderTail ==
  ASSUME NEW T, NEW q \in Seq(T), q # <<>>, NEW e, NEW S, InOrder(q, e, S)
  PROVE  /\ InOrder(Tail(q), e, S)
         /\ Head(q) \in S => ~Has(Tail(q), e)
<1>1. /\ Len(q) \in Nat /\ Len(q) >= 1 /\ Head(q) = q[1]
      /\ DOMAIN q = 1..Len(q) /\ DOMAIN Tail(q) = 1..(Len(q) - 1)
      /\ \A k \in 1..(Len(q) - 1) : Tail(q)[k] = q[k + 1]
  OBVIOUS
<1>2. /\ 1 \in 1..Len(q)
      /\ \A k \in 1..(Len(q) - 1) : k + 1 \in 1..Len(q) /\ ~(k + 1 < 1)
      /\ \A j, k \in 1..(Len(q) - 1) : j + 1 < k + 1 => j < k
  BY <1>1
<1> QED BY <1>1, <1>2 DEF Has, InOrder

LEMMA EmptyKeeps == \A e, S : Single(<<>>, e) /\ InOrder(<<>>, e, S)
  BY DEF Single, InOrder


\* A command sent reaches a worker that is up, behind those that wait.
LEMMA Sent ==
  ASSUME Typed, NEW s \in Tab, NEW c \in Cmd, Send(s, c)
  PROVE  /\ cmds' \in [Tab -> Seq(Cmd)]
         /\ \A r \in Tab : \A d : Has(cmds'[r], d) <=>
              Has(cmds[r], d) \/ (d = c /\ r = s /\ link[s] = "up")
         /\ \A r \in Tab : r # s \/ link[s] # "up" => cmds'[r] = cmds[r]
         /\ \A r \in Tab : \A e : Single(cmds[r], e) /\ (e = c => ~Has(cmds[s], e))
              => Single(cmds'[r], e)
<1>1. cmds[s] \in Seq(Cmd)
  BY DEF Typed
<1>2. Append(cmds[s], c) \in Seq(Cmd)
         /\ (\A d : Has(Append(cmds[s], c), d) <=> Has(cmds[s], d) \/ d = c)
         /\ \A e : Single(cmds[s], e) /\ (e = c => ~Has(cmds[s], e)) => Single(Append(cmds[s], c), e)
  BY <1>1, HasAppend, SingleAppend
<1>3. CASE link[s] = "up"
  <2>1. cmds' = [cmds EXCEPT ![s] = Append(cmds[s], c)]
    BY <1>3 DEF Send, Delivered
  <2> DEFINE q == Append(cmds[s], c)
  <2>2. q \in Seq(Cmd) /\ (\A d : Has(q, d) <=> Has(cmds[s], d) \/ d = c)
          /\ (\A e : Single(cmds[s], e) /\ (e = c => ~Has(cmds[s], e)) => Single(q, e))
          /\ cmds' = [cmds EXCEPT ![s] = q]
    BY <1>2, <2>1
  <2> HIDE DEF q
  <2>3. cmds' \in [Tab -> Seq(Cmd)] /\ cmds'[s] = q
          /\ \A r \in Tab : r # s => cmds'[r] = cmds[r]
    BY <2>2 DEF Typed
  <2>4. \A r \in Tab : \A d : Has(cmds'[r], d) <=>
              Has(cmds[r], d) \/ (d = c /\ r = s /\ link[s] = "up")
    BY <1>3, <2>2, <2>3
  <2>5. \A r \in Tab : \A e : Single(cmds[r], e) /\ (e = c => ~Has(cmds[s], e))
              => Single(cmds'[r], e)
    BY <2>2, <2>3
  <2> QED BY <1>3, <2>3, <2>4, <2>5
<1>4. CASE link[s] # "up"
  <2>1. cmds' = cmds
    BY <1>4 DEF Send, Delivered
  <2> QED BY <1>4, <2>1 DEF Typed
<1> QED BY <1>3, <1>4

LEMMA SentHas ==
  ASSUME Typed, NEW s \in Tab, NEW c \in Cmd, Send(s, c)
  PROVE  \A r \in Tab : \A d : Has(cmds'[r], d) => Has(cmds[r], d) \/ (d = c /\ r = s)
<1>1. \A r \in Tab : \A d : Has(cmds'[r], d) <=>
        Has(cmds[r], d) \/ (d = c /\ r = s /\ link[s] = "up")
  BY Sent
<1> QED BY <1>1, Zenon

LEMMA SentGrows ==
  ASSUME Typed, NEW s \in Tab, NEW c \in Cmd, Send(s, c)
  PROVE  /\ \A r \in Tab : \A d : Has(cmds[r], d) => Has(cmds'[r], d)
         /\ link[s] = "up" => Has(cmds'[s], c)
  BY Sent

-----------------------------------------------------------------------------
(* What the steps do, without the cases.                                      *)

First(p, pl) == IF pl.kind = "local" /\ pl.src = Local THEN Dst(p) ELSE Src(p)
FirstTab(pl) == IF pl.kind = "local" /\ pl.src = Local THEN pl.dst ELSE pl.src

Entered(p, pl) ==
  /\ job[p] = "none" /\ pl.kind \in Kinds /\ Open(pl.src) /\ Open(pl.dst)
  /\ plan' = [plan EXCEPT ![p] = pl]
  /\ \A q \in Paste \ {p} : job'[q] = job[q]
  /\ pl.kind = "relay" => job'[p] = "down"
  /\ pl.kind = "direct" => job'[p] = "direct"
  /\ pl.kind = "local" => job'[p] \in {"local", "ended"}
  /\ Send(FirstTab(pl), Start(First(p, pl)))
  /\ CutBy(p, FirstTab(pl), "offline")
  /\ \A y \in Xfer : y[1] # p => rows'[y] = rows[y]
  /\ \A y \in {Src(p), Dst(p)} :
       /\ rows'[y].ok = "open" /\ ~rows'[y].paused
       /\ rows'[y].spec => pl.kind = "local" /\ rows'[y].present
  /\ ask' = ask \/ (ask # <<>> /\ ask' = Tail(ask))
  /\ UNCHANGED <<link, online, evts, tasks, disk>>

\* What a job that goes on sends, and what it does to the row of the upload.
Uploading(p) ==
  /\ job[p] = "down" /\ Step(p) = "ok" /\ Open(plan[p].dst) /\ job'[p] = "up"
  /\ Send(plan[p].dst, Start(Dst(p)))
  /\ CutBy(p, plan[p].dst, "offline")
  /\ rows'[Dst(p)] = [rows[Dst(p)] EXCEPT !.queued = FALSE]
  /\ ask' = ask
Deletes(p) == [op |-> "delete", x |-> Src(p)]
Ending(p) ==
  /\ job'[p] = "ended" /\ cut' = cut
  /\ \/ cmds' = cmds
     \/ /\ Step(p) = "ok" /\ job[p] \in {"up", "direct", "local"}
        /\ Send(plan[p].src, Deletes(p))
  /\ \/ /\ rows'[Dst(p)] = rows[Dst(p)]
        /\ job[p] = "down" => ~Open(plan[p].dst)
        /\ job[p] # "direct"
     \/ /\ job[p] \in {"down", "direct"}
        /\ IF Open(plan[p].dst) /\ rows[Dst(p)].present
           THEN \E ok \in {"ok", "fail"} :
                  /\ rows'[Dst(p)] = [rows[Dst(p)] EXCEPT !.ok = ok, !.queued = FALSE]
                  /\ ok = "ok" => job[p] = "direct" /\ Step(p) = "ok"
           ELSE rows'[Dst(p)] = rows[Dst(p)]
  /\ ask' = ask \/ (job[p] = "direct" /\ ask' = Append(ask, plan[p]))

Advanced(p) ==
  /\ Waiting(p) /\ Step(p) # "wait"
  /\ \A q \in Paste \ {p} : job'[q] = job[q]
  /\ \A y \in Xfer : y # Dst(p) => rows'[y] = rows[y]
  /\ UNCHANGED <<link, online, evts, tasks, plan, gone, copies>>
  /\ Uploading(p) \/ Ending(p)

LEMMA PlanParts ==
  ASSUME NEW pl \in Plan
  PROVE  /\ pl.kind \in Kinds \union {"none"} /\ pl.cut \in BOOLEAN /\ pl.src \in Tab
         /\ pl.dst \in Tab /\ pl.stop \in BOOLEAN
  BY DEF Plan

LEMMA RowTypes ==
  /\ NoRow \in RowT /\ Row \in RowT /\ [Row EXCEPT !.queued = TRUE] \in RowT
  /\ [Row EXCEPT !.spec = TRUE] \in RowT
  /\ NoRow.ok = "open" /\ Row.ok = "open" /\ [Row EXCEPT !.queued = TRUE].ok = "open"
  /\ [Row EXCEPT !.spec = TRUE].ok = "open"
  /\ ~NoRow.paused /\ ~Row.paused /\ ~[Row EXCEPT !.queued = TRUE].paused
  /\ ~[Row EXCEPT !.spec = TRUE].paused
  /\ ~NoRow.spec /\ ~Row.spec /\ ~[Row EXCEPT !.queued = TRUE].spec
  /\ [Row EXCEPT !.spec = TRUE].present
  /\ ~NoRow.present /\ Row.present
<1> DEFINE t == TRUE
           f == FALSE
<1>1. t \in BOOLEAN /\ f \in BOOLEAN /\ t = TRUE /\ f = FALSE
  OBVIOUS
<1>2. NoRow = [present |-> f, ok |-> "open", paused |-> f, queued |-> f, spec |-> f]
  BY DEF NoRow
<1>3. Row = [NoRow EXCEPT !.present = t]
  BY DEF Row
<1>4. [Row EXCEPT !.queued = TRUE] = [Row EXCEPT !.queued = t]
      /\ [Row EXCEPT !.spec = TRUE] = [Row EXCEPT !.spec = t]
  OBVIOUS
<1> HIDE DEF t, f
<1>5. /\ NoRow \in RowT /\ NoRow.ok = "open" /\ NoRow.paused = f /\ NoRow.spec = f
      /\ NoRow.present = f
  BY <1>1, <1>2 DEF RowT
<1>6. /\ Row \in RowT /\ Row.ok = "open" /\ Row.paused = f /\ Row.spec = f
      /\ Row.present = t
  BY <1>1, <1>3, <1>5 DEF RowT
<1>7. \A r \in {[Row EXCEPT !.queued = t]} :
        r \in RowT /\ r.ok = "open" /\ r.paused = f /\ r.spec = f
  BY <1>1, <1>6 DEF RowT
<1>8. \A r \in {[Row EXCEPT !.spec = t]} :
        r \in RowT /\ r.ok = "open" /\ r.paused = f /\ r.present = t
  BY <1>1, <1>6 DEF RowT
<1> QED BY <1>1, <1>4, <1>5, <1>6, <1>7, <1>8, Zenon

LEMMA PasteNat == \A p \in Paste : p \in Nat
  BY PasteAssumption DEF Paste

LEMMA StartCmd == \A x \in Xfer : Start(x) \in Cmd /\ Start(x).op = "start" /\ Start(x).x = x
  BY DEF Start, Cmd

\* The three ways to begin a paste.
LEMMA Executes ==
  ASSUME Base, NEW p \in Paste, NEW pl \in Plan, NewPaste(p), pl.kind \in Kinds,
         Open(pl.src), Open(pl.dst), pl.kind = "local" => Local \in {pl.src, pl.dst},
         \/ pl.kind = "local" /\ ExecuteLocal(p, pl)
         \/ pl.kind = "direct" /\ ExecuteDirect(p, pl)
         \/ pl.kind = "relay" /\ ExecuteRelay(p, pl),
         ask' = ask \/ (ask # <<>> /\ ask' = Tail(ask)),
         UNCHANGED <<link, online, evts, tasks, disk>>
  PROVE  Entered(p, pl) /\ Typed'
<1> USE DEF Base
<1>0. /\ job[p] = "none" /\ Src(p) \in Xfer /\ Dst(p) \in Xfer /\ Src(p) # Dst(p)
      /\ Src(p)[1] = p /\ Dst(p)[1] = p
      /\ FirstTab(pl) \in Tab /\ First(p, pl) \in Xfer /\ Start(First(p, pl)) \in Cmd
  BY XferParts, PlanParts, StartCmd DEF NewPaste, FirstTab, First
<1>1. /\ Send(FirstTab(pl), Start(First(p, pl)))
      /\ CutBy(p, FirstTab(pl), "offline")
      /\ plan' = [plan EXCEPT ![p] = pl]
  BY DEF ExecuteLocal, ExecuteDirect, ExecuteRelay, FirstTab, First
<1>2. /\ job' \in [Paste -> {"none", "down", "up", "direct", "local", "ended"}]
      /\ \A q \in Paste \ {p} : job'[q] = job[q]
      /\ pl.kind = "relay" => job'[p] = "down"
      /\ pl.kind = "direct" => job'[p] = "direct"
      /\ pl.kind = "local" => job'[p] \in {"local", "ended"}
  <2>1. CASE pl.kind = "local"
    <3>1. PICK j \in {"local", "ended"} : job' = [job EXCEPT ![p] = j]
      BY <2>1 DEF ExecuteLocal
    <3> QED BY <2>1, <3>1 DEF Typed
  <2>2. CASE pl.kind = "direct"
    BY <2>2 DEF ExecuteDirect, Typed
  <2>3. CASE pl.kind = "relay"
    BY <2>3 DEF ExecuteRelay, Typed
  <2> QED BY <2>1, <2>2, <2>3 DEF Kinds
<1>3. /\ rows' \in [Xfer -> RowT]
      /\ \A y \in Xfer : y[1] # p => rows'[y] = rows[y]
      /\ \A y \in {Src(p), Dst(p)} : rows'[y] \in {rows[y], Row, [Row EXCEPT !.queued = TRUE]}
            \/ (pl.kind = "local" /\ rows'[y] = [Row EXCEPT !.spec = TRUE])
  <2>0. rows \in [Xfer -> RowT]
    BY DEF Typed
  <2>1. CASE pl.kind = "local"
    <3> DEFINE r == [Row EXCEPT !.spec = TRUE]
    <3>1. PICK x \in {Src(p), Dst(p)} : rows' = [rows EXCEPT ![x] = r]
      BY <2>1 DEF ExecuteLocal
    <3>2. r \in RowT
      BY RowTypes
    <3>3. rows' \in [Xfer -> RowT] /\ rows'[x] = r /\ \A y \in Xfer : y # x => rows'[y] = rows[y]
      <4> HIDE DEF r
      <4> QED BY <1>0, <2>0, <3>1, <3>2
    <3> HIDE DEF r
    <3>4. \A y \in Xfer : y[1] # p => rows'[y] = rows[y]
      BY <1>0, <3>3
    <3> QED BY <1>0, <2>1, <3>3, <3>4 DEF r
  <2>2. CASE pl.kind = "direct"
    <3> DEFINE r == Row
    <3>1. rows' = [rows EXCEPT ![Src(p)] = r, ![Dst(p)] = r] /\ r \in RowT
      BY <2>2, RowTypes DEF ExecuteDirect
    <3> HIDE DEF r
    <3>2. rows' \in [Xfer -> RowT] /\ rows'[Src(p)] = r /\ rows'[Dst(p)] = r
            /\ \A y \in Xfer : y[1] # p => rows'[y] = rows[y]
      BY <1>0, <2>0, <3>1
    <3> QED BY <3>2 DEF r
  <2>3. CASE pl.kind = "relay"
    <3> DEFINE r == [Row EXCEPT !.queued = TRUE]
    <3>1. rows' = [rows EXCEPT ![Dst(p)] = r] /\ r \in RowT
      BY <2>3, RowTypes DEF ExecuteRelay
    <3> HIDE DEF r
    <3>2. rows' \in [Xfer -> RowT] /\ rows'[Dst(p)] = r /\ rows'[Src(p)] = rows[Src(p)]
            /\ \A y \in Xfer : y[1] # p => rows'[y] = rows[y]
      BY <1>0, <2>0, <3>1
    <3> QED BY <3>2 DEF r
  <2> QED BY <2>1, <2>2, <2>3 DEF Kinds
<1>4. rows[Src(p)] = NoRow /\ rows[Dst(p)] = NoRow
  BY <1>0 DEF PlanOK
<1>5. \A y \in {Src(p), Dst(p)} :
        /\ rows'[y].ok = "open" /\ ~rows'[y].paused
        /\ rows'[y].spec => pl.kind = "local" /\ rows'[y].present
  <2> SUFFICES ASSUME NEW y \in {Src(p), Dst(p)}
               PROVE  /\ rows'[y].ok = "open" /\ ~rows'[y].paused
                      /\ rows'[y].spec => pl.kind = "local" /\ rows'[y].present
    OBVIOUS
  <2>1. CASE rows'[y] = NoRow
    BY <2>1, RowTypes, Zenon
  <2>2. CASE rows'[y] = Row
    BY <2>2, RowTypes, Zenon
  <2>3. CASE rows'[y] = [Row EXCEPT !.queued = TRUE]
    BY <2>3, RowTypes, Zenon
  <2>4. CASE pl.kind = "local" /\ rows'[y] = [Row EXCEPT !.spec = TRUE]
    BY <2>4, RowTypes, Zenon
  <2> QED BY <1>3, <1>4, <2>1, <2>2, <2>3, <2>4, Zenon
<1>6. Entered(p, pl)
  BY <1>0, <1>1, <1>2, <1>3, <1>5 DEF Entered
<1>7. cmds' \in [Tab -> Seq(Cmd)]
  BY <1>0, <1>1, Sent
<1>8. plan' \in [Paste -> Plan]
  BY <1>1 DEF Typed
<1>9. ask' \in Seq(Plan)
  <2>1. ask \in Seq(Plan)
    BY DEF Typed
  <2>2. ask # <<>> => Tail(ask) \in Seq(Plan)
    BY <2>1
  <2> QED BY <2>1, <2>2
<1>10. cut' \in [Paste -> {"none", "offline", "replaced", "norow"}]
  BY <1>1 DEF CutBy, Typed
<1>11. Typed'
  BY <1>2, <1>3, <1>7, <1>8, <1>9, <1>10 DEF Typed, disk
<1> QED BY <1>6, <1>11

LEMMA PasteFileEnters ==
  ASSUME Base, NEW p \in Paste, NEW pl \in Plans, PasteFile(p, pl)
  PROVE  Entered(p, pl) /\ Typed' /\ pl \in Plan
<1>1. /\ pl \in Plan /\ pl.kind \in Kinds
      /\ pl.kind = "local" => Local \in {pl.src, pl.dst}
  BY DEF Plans, Plan, Kinds
<1>2. /\ NewPaste(p) /\ Open(pl.src) /\ Open(pl.dst)
      /\ UNCHANGED <<link, online, evts, tasks, disk>> /\ ask' = ask
      /\ CASE pl.kind = "local" -> ExecuteLocal(p, pl)
           [] pl.kind = "direct" -> ExecuteDirect(p, pl)
           [] OTHER -> ExecuteRelay(p, pl)
  BY DEF PasteFile
<1>3. \/ pl.kind = "local" /\ ExecuteLocal(p, pl)
      \/ pl.kind = "direct" /\ ExecuteDirect(p, pl)
      \/ pl.kind = "relay" /\ ExecuteRelay(p, pl)
  <2>1. CASE pl.kind = "local"
    BY <1>2, <2>1
  <2>2. CASE pl.kind = "direct"
    BY <1>2, <2>2
  <2>3. CASE pl.kind = "relay"
    BY <1>2, <2>3
  <2> QED BY <1>1, <2>1, <2>2, <2>3 DEF Kinds
<1> QED BY <1>1, <1>2, <1>3, Executes

\* The answer of the user begins the relay, or only takes the question away.
LEMMA FallbackEnters ==
  ASSUME Base, NEW p \in Paste, AnswerFallback(p)
  PROVE  /\ Typed'
         /\ \/ \E pl \in Plan : Entered(p, pl)
            \/ /\ ask # <<>> /\ ask' = Tail(ask)
               /\ UNCHANGED <<link, online, cmds, evts, tasks, rows, job, plan, disk, cut>>
<1> DEFINE pl == [Head(ask) EXCEPT !.kind = "relay"]
<1>1. ask \in Seq(Plan) /\ ask # <<>> /\ ask' = Tail(ask)
      /\ UNCHANGED <<link, online, evts, tasks, disk>>
  BY DEF AnswerFallback, Base, Typed
<1>2. Head(ask) \in Plan /\ Tail(ask) \in Seq(Plan)
  BY <1>1
<1>3. pl \in Plan /\ pl.kind = "relay"
  BY <1>2 DEF Plan, Kinds
<1>4. \/ NewPaste(p) /\ Open(pl.src) /\ Open(pl.dst) /\ ExecuteRelay(p, pl)
      \/ UNCHANGED <<plan, job, rows, cmds, cut>>
  BY DEF AnswerFallback
<1> HIDE DEF pl
<1>5. CASE NewPaste(p) /\ Open(pl.src) /\ Open(pl.dst) /\ ExecuteRelay(p, pl)
  <2>1. pl.kind \in Kinds /\ pl.kind # "local"
    BY <1>3 DEF Kinds
  <2>2. Entered(p, pl) /\ Typed'
    BY <1>1, <1>3, <1>5, <2>1, Executes
  <2> QED BY <1>3, <2>2
<1>6. CASE UNCHANGED <<plan, job, rows, cmds, cut>>
  BY <1>1, <1>2, <1>6 DEF Base, Typed, disk
<1> QED BY <1>4, <1>5, <1>6

LEMMA JobPlan ==
  ASSUME Base, NEW p \in Paste
  PROVE  /\ job[p] \in {"none", "down", "up", "direct", "local", "ended"}
         /\ plan[p] \in Plan /\ plan[p].src \in Tab /\ plan[p].dst \in Tab
         /\ plan[p].cut \in BOOLEAN
         /\ job[p] = "none" \/ plan[p].kind \in Kinds
         /\ job[p] \in {"down", "up"} => plan[p].kind = "relay"
         /\ job[p] = "direct" => plan[p].kind = "direct"
         /\ job[p] = "local" => plan[p].kind = "local"
         /\ rows[Src(p)] \in RowT /\ rows[Dst(p)] \in RowT
         /\ Deletes(p) \in Cmd /\ Start(Dst(p)) \in Cmd
<1>1. Src(p) \in Xfer /\ Dst(p) \in Xfer
  BY XferParts
<1>2. Deletes(p) \in Cmd /\ Start(Dst(p)) \in Cmd
  BY <1>1, StartCmd DEF Deletes, Cmd
<1>3. plan[p] \in Plan /\ rows[Src(p)] \in RowT /\ rows[Dst(p)] \in RowT
      /\ job[p] \in {"none", "down", "up", "direct", "local", "ended"}
  BY <1>1 DEF Base, Typed
<1> QED BY <1>2, <1>3, PlanParts DEF Base, PlanOK

LEMMA RowUpdates ==
  ASSUME NEW r \in RowT, NEW ok \in {"open", "ok", "fail"}, NEW b \in BOOLEAN
  PROVE  /\ [r EXCEPT !.queued = b] \in RowT
         /\ [r EXCEPT !.paused = b] \in RowT
         /\ [r EXCEPT !.paused = b, !.queued = FALSE] \in RowT
         /\ [r EXCEPT !.ok = ok, !.queued = FALSE] \in RowT
         /\ [r EXCEPT !.ok = ok, !.paused = b] \in RowT
<1> DEFINE f == FALSE
<1>1. f \in BOOLEAN /\ f = FALSE
  OBVIOUS
<1>2. f = FALSE
  OBVIOUS
<1> HIDE DEF f
<1>3. /\ [r EXCEPT !.queued = b] \in RowT
      /\ [r EXCEPT !.paused = b] \in RowT
      /\ [r EXCEPT !.paused = b, !.queued = f] \in RowT
      /\ [r EXCEPT !.ok = ok, !.queued = f] \in RowT
      /\ [r EXCEPT !.ok = ok, !.paused = b] \in RowT
  BY <1>1 DEF RowT
<1> QED BY <1>2, <1>3, Zenon

\* One job goes on or ends.
LEMMA AdvanceSteps ==
  ASSUME Base, NEW p \in Paste, Advance(p)
  PROVE  Advanced(p) /\ Typed'
<1> DEFINE x == Dst(p)
           Fixed == /\ UNCHANGED <<link, online, evts, tasks, plan, gone, copies>>
                    /\ Waiting(p) /\ Step(p) # "wait"
<1>0. /\ Src(p) \in Xfer /\ x \in Xfer /\ Src(p) # x /\ Owner(x) = plan[p].dst
      /\ rows \in [Xfer -> RowT] /\ job \in [Paste -> {"none", "down", "up", "direct", "local", "ended"}]
      /\ tmp \in SUBSET (Paste \X Entries) /\ ask \in Seq(Plan) /\ cut \in [Paste -> {"none", "offline", "replaced", "norow"}]
      /\ cmds \in [Tab -> Seq(Cmd)]
  BY XferParts, Owners DEF Base, Typed
<1>1. Cleaned(p) \in SUBSET (Paste \X Entries)
  BY <1>0 DEF Cleaned
<1>2. ASSUME DeleteSource(p), Step(p) = "ok", job[p] \in {"up", "direct", "local"}
      PROVE  /\ cmds' \in [Tab -> Seq(Cmd)]
             /\ \/ cmds' = cmds
                \/ /\ Step(p) = "ok" /\ job[p] \in {"up", "direct", "local"}
                   /\ Send(plan[p].src, Deletes(p))
  <2>1. cmds' = cmds \/ Send(plan[p].src, Deletes(p))
    BY <1>2 DEF DeleteSource, Deletes
  <2>2. Send(plan[p].src, Deletes(p)) => cmds' \in [Tab -> Seq(Cmd)]
    BY JobPlan, Sent DEF Base
  <2> QED BY <1>0, <1>2, <2>1, <2>2
<1>3. ASSUME NEW ok \in {"ok", "fail"}, rows' = Settled(x, ok),
             job[p] \in {"down", "direct"}, ok = "ok" => job[p] = "direct" /\ Step(p) = "ok"
      PROVE  /\ rows' \in [Xfer -> RowT]
             /\ \A y \in Xfer : y # x => rows'[y] = rows[y]
             /\ IF Open(plan[p].dst) /\ rows[x].present
                THEN \E o \in {"ok", "fail"} :
                       /\ rows'[x] = [rows[x] EXCEPT !.ok = o, !.queued = FALSE]
                       /\ o = "ok" => job[p] = "direct" /\ Step(p) = "ok"
                ELSE rows'[x] = rows[x]
  <2>1. CASE Open(plan[p].dst) /\ rows[x].present
    <3> DEFINE r == [rows[x] EXCEPT !.ok = ok, !.queued = FALSE]
    <3>1. r \in RowT
      BY <1>0, RowUpdates
    <3>2. rows' = [rows EXCEPT ![x].ok = ok, ![x].queued = FALSE]
      BY <1>0, <1>3, <2>1 DEF Settled
    <3>3. rows' = [rows EXCEPT ![x] = r]
      BY <1>0, <3>2, Zenon
    <3> HIDE DEF r
    <3>4. rows' \in [Xfer -> RowT] /\ rows'[x] = r /\ \A y \in Xfer : y # x => rows'[y] = rows[y]
      BY <1>0, <3>1, <3>3
    <3> QED BY <1>3, <2>1, <3>4 DEF r
  <2>2. CASE ~(Open(plan[p].dst) /\ rows[x].present)
    BY <1>0, <1>3, <2>2 DEF Settled
  <2> QED BY <2>1, <2>2
<1>4. ASSUME End(p)
      PROVE  /\ job' \in [Paste -> {"none", "down", "up", "direct", "local", "ended"}]
             /\ job'[p] = "ended" /\ \A q \in Paste \ {p} : job'[q] = job[q]
  BY <1>0, <1>4 DEF End
<1>5. Fixed => link' = link /\ online' = online /\ evts' = evts /\ tasks' = tasks /\ plan' = plan
                /\ gone' = gone /\ copies' = copies
  OBVIOUS
<1>6. ASSUME Fixed, cmds' \in [Tab -> Seq(Cmd)], rows' \in [Xfer -> RowT],
             job' \in [Paste -> {"none", "down", "up", "direct", "local", "ended"}],
             ask' \in Seq(Plan), tmp' \in SUBSET (Paste \X Entries),
             cut' \in [Paste -> {"none", "offline", "replaced", "norow"}]
      PROVE  Typed'
  BY <1>5, <1>6 DEF Base, Typed
<1>7. CASE ToUpload(p) /\ Open(plan[p].dst)
  <2>1. /\ Fixed /\ job[p] = "down" /\ Step(p) = "ok"
        /\ job' = [job EXCEPT ![p] = "up"]
        /\ rows' = [rows EXCEPT ![Dst(p)].queued = FALSE]
        /\ Send(plan[p].dst, Start(Dst(p))) /\ CutBy(p, plan[p].dst, "offline")
        /\ tmp' = tmp /\ ask' = ask
    BY <1>7 DEF ToUpload, Waiting
  <2> DEFINE r == [rows[x] EXCEPT !.queued = FALSE]
  <2>2. r \in RowT
    BY <1>0, RowUpdates
  <2>3. rows' = [rows EXCEPT ![x] = r]
    BY <1>0, <2>1, Zenon
  <2> HIDE DEF r
  <2>4. rows' \in [Xfer -> RowT] /\ rows'[x] = r /\ \A y \in Xfer : y # x => rows'[y] = rows[y]
    BY <1>0, <2>2, <2>3
  <2>5. cmds' \in [Tab -> Seq(Cmd)]
    BY <2>1, JobPlan, Sent DEF Base
  <2>6. cut' \in [Paste -> {"none", "offline", "replaced", "norow"}]
    BY <1>0, <2>1 DEF CutBy
  <2>7. job' \in [Paste -> {"none", "down", "up", "direct", "local", "ended"}] /\ job'[p] = "up"
          /\ \A q \in Paste \ {p} : job'[q] = job[q]
    BY <1>0, <2>1
  <2>8. Typed'
    BY <1>0, <1>6, <2>1, <2>4, <2>5, <2>6, <2>7
  <2>9. Uploading(p)
    BY <1>7, <2>1, <2>4, <2>7 DEF Uploading, r
  <2> QED BY <2>1, <2>4, <2>7, <2>8, <2>9 DEF Advanced
<1>8. CASE ToUpload(p) /\ ~Open(plan[p].dst)
  <2>1. /\ Fixed /\ job[p] = "down" /\ End(p) /\ tmp' = Cleaned(p)
        /\ UNCHANGED <<rows, cmds, cut, ask>>
    BY <1>8 DEF ToUpload, Waiting
  <2>2. Typed'
    BY <1>0, <1>1, <1>4, <1>6, <2>1
  <2>3. Ending(p)
    BY <1>4, <1>8, <2>1 DEF Ending
  <2> QED BY <1>4, <2>1, <2>2, <2>3 DEF Advanced
<1>9. CASE RelayDone(p)
  <2>1. /\ Fixed /\ job[p] = "up" /\ Step(p) = "ok" /\ DeleteSource(p) /\ End(p) /\ tmp' = Cleaned(p)
        /\ UNCHANGED <<rows, ask, cut>>
    BY <1>9 DEF RelayDone, Waiting
  <2>2. Typed'
    BY <1>0, <1>1, <1>2, <1>4, <1>6, <2>1
  <2>3. Ending(p)
    BY <1>2, <1>4, <2>1 DEF Ending
  <2> QED BY <1>4, <2>1, <2>2, <2>3 DEF Advanced
<1>10. CASE RelayFailed(p) /\ job[p] = "up"
  <2>1. /\ Fixed /\ End(p) /\ tmp' = Cleaned(p) /\ UNCHANGED <<rows, cmds, ask, cut>>
    BY <1>10 DEF RelayFailed, Waiting
  <2>2. Typed'
    BY <1>0, <1>1, <1>4, <1>6, <2>1
  <2>3. Ending(p)
    BY <1>4, <1>10, <2>1 DEF Ending
  <2> QED BY <1>4, <2>1, <2>2, <2>3 DEF Advanced
<1>11. CASE RelayFailed(p) /\ job[p] = "down"
  <2>1. /\ Fixed /\ End(p) /\ tmp' = Cleaned(p) /\ UNCHANGED <<cmds, ask, cut>>
        /\ rows' = Settled(x, "fail")
    BY <1>11 DEF RelayFailed, Waiting
  <2>2. Typed'
    BY <1>0, <1>1, <1>3, <1>4, <1>6, <1>11, <2>1
  <2>3. Ending(p)
    BY <1>3, <1>4, <1>11, <2>1 DEF Ending
  <2> QED BY <1>3, <1>4, <1>11, <2>1, <2>2, <2>3 DEF Advanced
<1>12. CASE DirectDone(p)
  <2>1. /\ Fixed /\ job[p] = "direct" /\ Step(p) = "ok" /\ DeleteSource(p) /\ End(p)
        /\ UNCHANGED <<ask, cut, tmp>> /\ rows' = Settled(x, "ok")
    BY <1>12 DEF DirectDone, Waiting, disk
  <2>2. Typed'
    BY <1>0, <1>2, <1>3, <1>4, <1>6, <2>1
  <2>3. Ending(p)
    BY <1>2, <1>3, <1>4, <2>1 DEF Ending
  <2> QED BY <1>3, <1>4, <2>1, <2>2, <2>3 DEF Advanced
<1>13. CASE DirectFailed(p)
  <2>1. /\ Fixed /\ job[p] = "direct" /\ End(p)
        /\ UNCHANGED <<cmds, cut, tmp>> /\ rows' = Settled(x, "fail")
        /\ ask' = ask \/ ask' = Append(ask, plan[p])
    BY <1>13 DEF DirectFailed, Waiting, disk
  <2>2. ask' \in Seq(Plan)
    <3>1. plan[p] \in Plan /\ ask \in Seq(Plan)
      BY <1>0, JobPlan DEF Typed
    <3> DEFINE q == Append(ask, plan[p])
    <3>2. q \in Seq(Plan)
      BY <3>1
    <3> HIDE DEF q
    <3>3. ask' = ask \/ ask' = q
      BY <2>1 DEF q
    <3> QED BY <3>1, <3>2, <3>3
  <2>3. Typed'
    BY <1>0, <1>3, <1>4, <1>6, <2>1, <2>2
  <2>4. Ending(p)
    BY <1>3, <1>4, <2>1 DEF Ending
  <2> QED BY <1>3, <1>4, <2>1, <2>3, <2>4 DEF Advanced
<1>14. CASE LocalDone(p)
  <2>1. /\ Fixed /\ job[p] = "local" /\ End(p) /\ UNCHANGED <<rows, ask, cut, tmp>>
        /\ cmds' = cmds \/ (Step(p) = "ok" /\ DeleteSource(p))
    BY <1>14 DEF LocalDone, Ready, disk
  <2>2. Typed'
    BY <1>0, <1>2, <1>4, <1>6, <2>1
  <2>3. Ending(p)
    BY <1>2, <1>4, <2>1 DEF Ending
  <2> QED BY <1>4, <2>1, <2>2, <2>3 DEF Advanced
<1> QED
  <2>1. RelayFailed(p) => job[p] = "up" \/ job[p] = "down"
    BY DEF RelayFailed
  <2> QED BY <1>7, <1>8, <1>9, <1>10, <1>11, <1>12, <1>13, <1>14, <2>1 DEF Advance

\* The steps of the user on the rows.
SamePlans == \A p \in Paste : /\ plan'[p].kind = plan[p].kind /\ plan'[p].cut = plan[p].cut
                              /\ plan'[p].src = plan[p].src /\ plan'[p].dst = plan[p].dst

LEMMA RowKnown ==
  ASSUME Base, NEW x \in Xfer, rows[x].present
  PROVE  Known(x)
<1>1. x[1] \in Paste /\ x \in {Src(x[1]), Dst(x[1])}
  BY XferParts
<1>2. job[x[1]] = "none" => rows[x] = NoRow
  BY <1>1 DEF Base, PlanOK
<1> QED BY <1>2, RowTypes DEF Known

CancelCmd(y) == [op |-> "cancel", x |-> y]

LEMMA CancelSteps ==
  ASSUME Base, NEW x \in Xfer, Cancel(x)
  PROVE  /\ Typed' /\ SamePlans /\ Known(x)
         /\ \/ cmds' = cmds
            \/ \E y \in Xfer : Known(y) /\ Send(Owner(y), CancelCmd(y))
         /\ UNCHANGED <<link, online, evts, tasks, rows, job, ask, gone, copies, tmp, cut>>
<1> DEFINE p == x[1]
           b == plan[p].stop \/ job[p] = "direct"
           q == [plan[p] EXCEPT !.stop = b]
           y == CancelTarget(x)
<1>1. p \in Paste /\ Src(p) \in Xfer /\ Src(p)[1] = p /\ plan \in [Paste -> Plan] /\ cmds \in [Tab -> Seq(Cmd)]
      /\ plan[p] \in Plan
  BY XferParts DEF Base, Typed
<1>2. /\ UNCHANGED <<link, online, evts, tasks, rows, job, ask, disk, cut>>
      /\ plan' = [plan EXCEPT ![x[1]].stop = @ \/ job[x[1]] = "direct"]
      /\ rows[x].present
      /\ cmds' = cmds \/ Send(Owner(y), CancelCmd(y))
  BY DEF Cancel, InProgress, CancelCmd
<1>3. Known(x)
  BY <1>2, RowKnown
<1>4. y \in Xfer /\ Known(y) /\ CancelCmd(y) \in Cmd /\ Owner(y) \in Tab
  <2>1. y \in Xfer /\ Known(y)
    BY <1>1, <1>3 DEF CancelTarget, Known
  <2> QED BY <2>1, OwnerTab DEF CancelCmd, Cmd, Base
<1>5. b \in BOOLEAN
  OBVIOUS
<1>6. plan' = [plan EXCEPT ![p] = q]
  BY <1>1, <1>2, Zenon
<1>7. q \in Plan /\ q.kind = plan[p].kind /\ q.cut = plan[p].cut /\ q.src = plan[p].src
      /\ q.dst = plan[p].dst
  <2> HIDE DEF b
  <2> QED BY <1>1, <1>5 DEF Plan
<1> HIDE DEF q, y
<1>8. plan' \in [Paste -> Plan] /\ SamePlans
  BY <1>1, <1>6, <1>7 DEF SamePlans
<1>9. cmds' \in [Tab -> Seq(Cmd)]
  BY <1>1, <1>2, <1>4, Sent DEF Base
<1>10. Typed'
  BY <1>2, <1>8, <1>9 DEF Base, Typed, disk
<1> QED BY <1>2, <1>3, <1>4, <1>8, <1>10 DEF disk

LEMMA ResumeSteps ==
  ASSUME Base, NEW x \in Xfer, Resume(x)
  PROVE  /\ Typed' /\ Known(x) /\ plan[x[1]].kind = "local" /\ rows[x].present
         /\ Send(Owner(x), Start(x)) /\ CutBy(x[1], Owner(x), "offline")
         /\ \A y \in Xfer : y # x => rows'[y] = rows[y]
         /\ rows'[x] = [rows[x] EXCEPT !.ok = "open", !.paused = FALSE]
         /\ UNCHANGED <<link, online, evts, tasks, job, plan, ask, gone, copies, tmp>>
<1> DEFINE r == [rows[x] EXCEPT !.ok = "open", !.paused = FALSE]
<1>1. rows \in [Xfer -> RowT] /\ rows[x] \in RowT /\ x[1] \in Paste
  BY XferParts DEF Base, Typed
<1>2. r \in RowT
  <2>1. FALSE \in BOOLEAN
    OBVIOUS
  <2> QED BY <1>1, <2>1, RowUpdates, Zenon
<1>3. /\ rows' = [rows EXCEPT ![x].ok = "open", ![x].paused = FALSE]
      /\ rows[x].present /\ rows[x].spec
      /\ Send(Owner(x), Start(x)) /\ CutBy(x[1], Owner(x), "offline")
      /\ UNCHANGED <<link, online, evts, tasks, jobs, disk>>
  BY DEF Resume
<1>4. rows' = [rows EXCEPT ![x] = r]
  BY <1>1, <1>3, Zenon
<1> HIDE DEF r
<1>5. rows' \in [Xfer -> RowT] /\ rows'[x] = r /\ \A y \in Xfer : y # x => rows'[y] = rows[y]
  BY <1>1, <1>2, <1>4
<1>6. Known(x) /\ plan[x[1]].kind = "local"
  BY <1>3 DEF Base, RowKind
<1>7. cmds' \in [Tab -> Seq(Cmd)]
  BY <1>3, StartCmd, OwnerTab, Sent DEF Base
<1>8. cut' \in [Paste -> {"none", "offline", "replaced", "norow"}]
  BY <1>1, <1>3 DEF Base, Typed, CutBy
<1>9. Typed'
  BY <1>3, <1>5, <1>7, <1>8 DEF Base, Typed, jobs, disk
<1> QED BY <1>3, <1>5, <1>6, <1>9 DEF r, jobs, disk

LEMMA RemoveSteps ==
  ASSUME Base, NEW x \in Xfer, Remove(x)
  PROVE  /\ Typed' /\ Known(x) /\ Quiet /\ Open(Owner(x)) /\ rows[x].present /\ rows[x].ok # "open"
         /\ \A y \in Xfer : y # x => rows'[y] = rows[y]
         /\ rows'[x] = NoRow
         /\ UNCHANGED <<link, online, cmds, evts, tasks, job, plan, ask, gone, copies, tmp, cut>>
<1>1. /\ rows' = [rows EXCEPT ![x] = NoRow] /\ rows[x].present /\ rows[x].ok # "open"
      /\ Quiet /\ Open(Owner(x))
      /\ UNCHANGED <<link, online, cmds, evts, tasks, jobs, disk, cut>>
  BY DEF Remove, Removable
<1> DEFINE r == NoRow
<1>2. r \in RowT /\ rows' = [rows EXCEPT ![x] = r] /\ r = NoRow
  BY <1>1, RowTypes
<1> HIDE DEF r
<1>3. rows' \in [Xfer -> RowT] /\ rows'[x] = r /\ \A y \in Xfer : y # x => rows'[y] = rows[y]
  BY <1>2 DEF Base, Typed
<1>4. Typed'
  BY <1>1, <1>3 DEF Base, Typed, jobs, disk
<1> QED BY <1>1, <1>2, <1>3, <1>4, RowKnown DEF jobs, disk

\* The tasks of a worker that is replaced go on unseen.
Unseen(s) ==
  /\ \A t \in tasks' : \E u \in tasks :
       /\ t.x = u.x /\ t.st = u.st
       /\ ~t.old => t = u /\ Owner(u.x) # s
  /\ \A u \in tasks : ~u.old /\ Owner(u.x) # s => u \in tasks'

LEMMA DropSteps ==
  ASSUME Typed, NEW s \in Tab, Drop(s)
  PROVE  /\ cmds' \in [Tab -> Seq(Cmd)] /\ cmds'[s] = <<>>
         /\ \A r \in Tab : r # s => cmds'[r] = cmds[r]
         /\ tasks' \in SUBSET Task
         /\ Unseen(s)
<1>1. cmds' = [cmds EXCEPT ![s] = <<>>] /\ cmds \in [Tab -> Seq(Cmd)] /\ <<>> \in Seq(Cmd)
  BY DEF Drop, Typed
<1>2. tasks' = {[t EXCEPT !.old = @ \/ Owner(t.x) = s] : t \in tasks}
  BY DEF Drop
<1>3. \A u \in Task : \A b \in BOOLEAN :
        LET t == [u EXCEPT !.old = b]
        IN t \in Task /\ t.x = u.x /\ t.st = u.st /\ t.old = b /\ (u.old = b => t = u)
  BY DEF Task
<1>4. ASSUME NEW u \in tasks
      PROVE  /\ [u EXCEPT !.old = @ \/ Owner(u.x) = s] \in Task
             /\ [u EXCEPT !.old = @ \/ Owner(u.x) = s].x = u.x
             /\ [u EXCEPT !.old = @ \/ Owner(u.x) = s].st = u.st
             /\ ~[u EXCEPT !.old = @ \/ Owner(u.x) = s].old =>
                   [u EXCEPT !.old = @ \/ Owner(u.x) = s] = u /\ Owner(u.x) # s
             /\ ~u.old /\ Owner(u.x) # s => [u EXCEPT !.old = @ \/ Owner(u.x) = s] = u
  <2> DEFINE b == u.old \/ Owner(u.x) = s
  <2>1. u \in Task /\ u.old \in BOOLEAN
    BY DEF Typed, Task
  <2>2. b \in BOOLEAN /\ (b <=> u.old \/ Owner(u.x) = s)
    OBVIOUS
  <2>3. [u EXCEPT !.old = @ \/ Owner(u.x) = s] = [u EXCEPT !.old = b]
    OBVIOUS
  <2> HIDE DEF b
  <2>4. /\ [u EXCEPT !.old = b] \in Task /\ [u EXCEPT !.old = b].x = u.x
        /\ [u EXCEPT !.old = b].st = u.st /\ [u EXCEPT !.old = b].old = b
        /\ u.old = b => [u EXCEPT !.old = b] = u
    BY <1>3, <2>1, <2>2
  <2>5. ~b => u.old = b
    BY <2>1, <2>2
  <2>6. ~u.old /\ Owner(u.x) # s => u.old = b
    BY <2>1, <2>2
  <2> QED BY <2>2, <2>3, <2>4, <2>5, <2>6, Zenon
<1>5. tasks' \in SUBSET Task
  BY <1>2, <1>4, Zenon
<1>6. Unseen(s)
  <2>1. ASSUME NEW t \in tasks'
        PROVE  \E u \in tasks : /\ t.x = u.x /\ t.st = u.st
                                /\ ~t.old => t = u /\ Owner(u.x) # s
    <3>1. PICK u \in tasks : t = [u EXCEPT !.old = @ \/ Owner(u.x) = s]
      BY <1>2, Zenon
    <3> QED BY <1>4, <3>1, Zenon
  <2>2. \A u \in tasks : ~u.old /\ Owner(u.x) # s => u \in tasks'
    BY <1>2, <1>4, Zenon
  <2> QED BY <2>1, <2>2, Zenon DEF Unseen
<1> QED BY <1>1, <1>5, <1>6

LEMMA CloseSteps ==
  ASSUME Base, NEW s \in Tab, Close(s)
  PROVE  /\ Typed' /\ Unseen(s)
         /\ cmds'[s] = <<>> /\ evts'[s] = <<>>
         /\ \A r \in Tab : r # s => cmds'[r] = cmds[r] /\ evts'[r] = evts[r] /\ link'[r] = link[r]
         /\ link'[s] = "closed"
         /\ \A x \in Xfer : rows'[x] = IF Owner(x) = s THEN NoRow ELSE rows[x]
         /\ UNCHANGED <<online, job, plan, ask, gone, copies, tmp, cut>>
<1>1. /\ link' = [link EXCEPT ![s] = "closed"] /\ evts' = [evts EXCEPT ![s] = <<>>]
      /\ rows' = [x \in Xfer |-> IF Owner(x) = s THEN NoRow ELSE rows[x]]
      /\ Drop(s) /\ UNCHANGED <<online, jobs, disk, cut>>
  BY DEF Close
<1>2. Unseen(s) /\ cmds' \in [Tab -> Seq(Cmd)] /\ cmds'[s] = <<>> /\ tasks' \in SUBSET Task
      /\ \A r \in Tab : r # s => cmds'[r] = cmds[r]
  BY <1>1, DropSteps DEF Base
<1>3. /\ link' \in [Tab -> {"up", "down", "closed"}] /\ evts' \in [Tab -> Seq(Evt)]
      /\ evts'[s] = <<>> /\ link'[s] = "closed"
      /\ \A r \in Tab : r # s => evts'[r] = evts[r] /\ link'[r] = link[r]
  BY <1>1 DEF Base, Typed
<1>4. /\ \A x \in Xfer : rows'[x] = IF Owner(x) = s THEN NoRow ELSE rows[x]
      /\ rows' \in [Xfer -> RowT]
  BY <1>1, RowTypes DEF Base, Typed
<1>5. Typed'
  BY <1>1, <1>2, <1>3, <1>4 DEF Base, Typed, jobs, disk
<1> QED BY <1>1, <1>2, <1>3, <1>4, <1>5 DEF jobs, disk

LEMMA EvtTypes ==
  /\ ConnEvt \in Evt /\ LostEvt \in Evt /\ ConnEvt.ev = "connected" /\ LostEvt.ev = "disconnected"
  /\ \A x \in Xfer : /\ Begins(x) \in Evt /\ Begins(x).ev = "start" /\ Begins(x).x = x
                     /\ \A ok \in BOOLEAN : /\ Done(x, ok) \in Evt /\ Done(x, ok).ev = "done"
                                            /\ Done(x, ok).x = x /\ Done(x, ok).ok = ok
  /\ \A e \in Evt : /\ e.ev \in {"connected", "disconnected", "start", "done"}
                    /\ e.ev = "start" => e.x \in Xfer /\ e = Begins(e.x)
                    /\ e.ev = "done" => e.x \in Xfer /\ e.ok \in BOOLEAN /\ e = Done(e.x, e.ok)
                    /\ e.ev = "connected" => e = ConnEvt
                    /\ e.ev = "disconnected" => e = LostEvt
<1>1. /\ ConnEvt \in Evt /\ LostEvt \in Evt /\ ConnEvt.ev = "connected" /\ LostEvt.ev = "disconnected"
  BY DEF ConnEvt, LostEvt, Evt
<1>2. ASSUME NEW x \in Xfer
      PROVE  /\ Begins(x) \in Evt /\ Begins(x).ev = "start" /\ Begins(x).x = x
             /\ \A ok \in BOOLEAN : /\ Done(x, ok) \in Evt /\ Done(x, ok).ev = "done"
                                    /\ Done(x, ok).x = x /\ Done(x, ok).ok = ok
  BY DEF Begins, Done, Evt
<1>3. ASSUME NEW e \in Evt
      PROVE  /\ e.ev \in {"connected", "disconnected", "start", "done"}
             /\ e.ev = "start" => e.x \in Xfer /\ e = Begins(e.x)
             /\ e.ev = "done" => e.x \in Xfer /\ e.ok \in BOOLEAN /\ e = Done(e.x, e.ok)
             /\ e.ev = "connected" => e = ConnEvt
             /\ e.ev = "disconnected" => e = LostEvt
  BY DEF Begins, Done, Evt, ConnEvt, LostEvt
<1> QED BY <1>1, <1>2, <1>3

LEMMA ReconnectSteps ==
  ASSUME Base, NEW s \in Tab, Reconnect(s)
  PROVE  /\ Typed' /\ Unseen(s) /\ link[s] = "down" /\ link'[s] = "up"
         /\ cmds'[s] = <<>> /\ evts'[s] = <<ConnEvt>>
         /\ \A r \in Tab : r # s => cmds'[r] = cmds[r] /\ evts'[r] = evts[r] /\ link'[r] = link[r]
         /\ \A p \in Paste : cut'[p] = IF Waiting(p) /\ Owner(Follows(p)) = s
                                          /\ ~rows[Follows(p)].paused
                                       THEN "replaced" ELSE cut[p]
         /\ UNCHANGED <<online, rows, job, plan, ask, gone, copies, tmp>>
<1>1. /\ link' = [link EXCEPT ![s] = "up"] /\ evts' = [evts EXCEPT ![s] = <<ConnEvt>>]
      /\ Drop(s) /\ UNCHANGED <<online, rows, jobs, disk>> /\ link[s] = "down"
      /\ cut' = [p \in Paste |->
                   IF Waiting(p) /\ Owner(Follows(p)) = s /\ ~rows[Follows(p)].paused
                   THEN "replaced" ELSE cut[p]]
  BY DEF Reconnect, ConnEvt
<1>2. Unseen(s) /\ cmds' \in [Tab -> Seq(Cmd)] /\ cmds'[s] = <<>> /\ tasks' \in SUBSET Task
      /\ \A r \in Tab : r # s => cmds'[r] = cmds[r]
  BY <1>1, DropSteps DEF Base
<1>3. /\ link' \in [Tab -> {"up", "down", "closed"}] /\ evts' \in [Tab -> Seq(Evt)]
      /\ evts'[s] = <<ConnEvt>> /\ link'[s] = "up"
      /\ \A r \in Tab : r # s => evts'[r] = evts[r] /\ link'[r] = link[r]
  <2> DEFINE q == <<ConnEvt>>
  <2>1. q \in Seq(Evt) /\ evts' = [evts EXCEPT ![s] = q]
    BY <1>1, EvtTypes
  <2> HIDE DEF q
  <2>2. /\ evts' \in [Tab -> Seq(Evt)] /\ evts'[s] = q
        /\ \A r \in Tab : r # s => evts'[r] = evts[r]
    BY <2>1 DEF Base, Typed
  <2> QED BY <1>1, <2>2 DEF Base, Typed, q
<1>4. /\ cut' \in [Paste -> {"none", "offline", "replaced", "norow"}]
      /\ \A p \in Paste : cut'[p] = IF Waiting(p) /\ Owner(Follows(p)) = s
                                          /\ ~rows[Follows(p)].paused
                                       THEN "replaced" ELSE cut[p]
  BY <1>1 DEF Base, Typed
<1>5. Typed'
  BY <1>1, <1>2, <1>3, <1>4 DEF Base, Typed, jobs, disk
<1> QED BY <1>1, <1>2, <1>3, <1>4, <1>5 DEF jobs, disk

\* What is resent is a list of every start command that is due, in any order.
LEMMA OrdersList ==
  ASSUME NEW T, NEW S \in SUBSET T, IsFiniteSet(S), NEW q \in Orders(S)
  PROVE  q \in Seq(T) /\ \A e : Has(q, e) <=> e \in S
<1> DEFINE n == Cardinality(S)
<1>1. n \in Nat
  BY FS_CardinalityType
<1>2. q \in [1..n -> S] /\ \A i, j \in 1..n : q[i] = q[j] => i = j
  BY DEF Orders
<1>3. IsFiniteSet(1..n) /\ Cardinality(1..n) = n
  BY <1>1, FS_Interval
<1>4. q \in Injection(1..n, S)
  BY <1>2 DEF Injection, IsInjective
<1>5. q \in Surjection(1..n, S)
  BY <1>3, <1>4, FS_Injection
<1>6. \A e \in S : \E i \in 1..n : q[i] = e
  BY <1>5 DEF Surjection
<1> HIDE DEF n
<1>7. q \in Seq(T) /\ DOMAIN q = 1..n
  BY <1>1, <1>2
<1> QED BY <1>2, <1>6, <1>7 DEF Has

LEMMA ResentFinite ==
  ASSUME NEW s
  PROVE  IsFiniteSet({Start(x) : x \in Resent(s)})
<1> DEFINE S == {Start(x) : x \in Resent(s)}
           f == [x \in Resent(s) |-> Start(x)]
<1>1. IsFiniteSet(Resent(s))
  BY XferFinite, FS_Subset DEF Resent
<1>2. f \in Surjection(Resent(s), S)
  BY DEF Surjection
<1> QED BY <1>1, <1>2, FS_Surjection

LEMMA DrainSteps ==
  ASSUME Base, NEW s \in Tab, Drain(s)
  PROVE  \E e \in Evt :
         /\ e = Head(evts[s]) /\ Has(evts[s], e)
         /\ OnConnected(s, e) \/ OnDisconnected(s, e) \/ OnStart(e) \/ OnDone(e)
         /\ evts' \in [Tab -> Seq(Evt)] /\ evts[s] # <<>> /\ evts[s] \in Seq(Evt)
         /\ evts'[s] = Tail(evts[s])
         /\ \A d : Has(evts[s], d) <=> d = e \/ Has(evts'[s], d)
         /\ \A r \in Tab : r # s => evts'[r] = evts[r]
         /\ UNCHANGED <<link, tasks, job, plan, ask, gone, copies, tmp>>
<1>1. /\ evts[s] # <<>> /\ evts' = [evts EXCEPT ![s] = Tail(@)]
      /\ UNCHANGED <<link, tasks, jobs, disk>>
      /\ \E e \in {Head(evts[s])} :
           OnConnected(s, e) \/ OnDisconnected(s, e) \/ OnStart(e) \/ OnDone(e)
  BY DEF Drain
<1> DEFINE q == Tail(evts[s])
<1>2. evts[s] \in Seq(Evt) /\ evts \in [Tab -> Seq(Evt)]
  BY DEF Base, Typed
<1>3. q \in Seq(Evt) /\ Head(evts[s]) \in Evt /\ Has(evts[s], Head(evts[s]))
      /\ \A d : Has(evts[s], d) <=> d = Head(evts[s]) \/ Has(q, d)
  BY <1>1, <1>2, HasTail
<1>4. evts' = [evts EXCEPT ![s] = q]
  BY <1>1
<1> HIDE DEF q
<1>5. evts' \in [Tab -> Seq(Evt)] /\ evts'[s] = q /\ \A r \in Tab : r # s => evts'[r] = evts[r]
  BY <1>2, <1>3, <1>4
<1> QED BY <1>1, <1>2, <1>3, <1>5 DEF jobs, disk, q

\* The new connection is up: what can be resent is.
LEMMA ConnectedSteps ==
  ASSUME Base, NEW s \in Tab, Drain(s), NEW e \in Evt, OnConnected(s, e)
  PROVE  /\ Typed' /\ e.ev = "connected"
         /\ \A r \in Tab : r # s => cmds'[r] = cmds[r]
         /\ \A c : Has(cmds'[s], c) => Has(cmds[s], c) \/ \E x \in Resent(s) : c = Start(x)
         /\ \A c : Has(cmds[s], c) => Has(cmds'[s], c)
         /\ link[s] = "up" => \A x \in Resent(s) : Has(cmds'[s], Start(x))
         /\ \A c : Single(cmds[s], c) /\ (\A x \in Resent(s) : c # Start(x)) => Single(cmds'[s], c)
         /\ \A x \in Xfer : rows'[x] = IF x \in Resent(s) THEN [rows[x] EXCEPT !.paused = FALSE]
                                       ELSE rows[x]
         /\ \A p \in Paste : cut'[p] = IF link[s] # "up" /\ \E x \in Resent(s) : x[1] = p
                                       THEN "offline" ELSE cut[p]
<1> DEFINE S == {Start(x) : x \in Resent(s)}
<1>1. /\ online' = [online EXCEPT ![s] = TRUE] /\ e.ev = "connected"
      /\ rows' = [x \in Xfer |-> IF x \in Resent(s) THEN [rows[x] EXCEPT !.paused = FALSE]
                                 ELSE rows[x]]
      /\ \E q \in Orders(S) :
           cmds' = IF link[s] = "up" THEN [cmds EXCEPT ![s] = @ \o q] ELSE cmds
      /\ cut' = [p \in Paste |-> IF link[s] # "up" /\ \E x \in Resent(s) : x[1] = p
                                 THEN "offline" ELSE cut[p]]
  BY DEF OnConnected
<1>2. /\ cut' \in [Paste -> {"none", "offline", "replaced", "norow"}]
      /\ \A p \in Paste : cut'[p] = IF link[s] # "up" /\ \E x \in Resent(s) : x[1] = p
                                    THEN "offline" ELSE cut[p]
  BY <1>1 DEF Base, Typed
<1>3. \A x \in Xfer : [rows[x] EXCEPT !.paused = FALSE] \in RowT
  <2>1. FALSE \in BOOLEAN /\ "ok" \in {"open", "ok", "fail"}
    OBVIOUS
  <2>2. \A x \in Xfer : rows[x] \in RowT
    BY DEF Base, Typed
  <2> QED BY <2>1, <2>2, RowUpdates, Zenon
<1>4. /\ rows' \in [Xfer -> RowT]
      /\ \A x \in Xfer : rows'[x] = IF x \in Resent(s) THEN [rows[x] EXCEPT !.paused = FALSE]
                                    ELSE rows[x]
  BY <1>1, <1>3 DEF Base, Typed
<1>5. PICK q \in Orders(S) : cmds' = IF link[s] = "up" THEN [cmds EXCEPT ![s] = @ \o q] ELSE cmds
  BY <1>1
<1>6. S \in SUBSET Cmd
  BY StartCmd DEF Resent
<1>7. IsFiniteSet(S)
  BY ResentFinite
<1> HIDE DEF S
<1>8. q \in Seq(Cmd) /\ \A c : Has(q, c) <=> c \in S
  BY <1>6, <1>7, OrdersList
<1>9. cmds \in [Tab -> Seq(Cmd)] /\ cmds[s] \in Seq(Cmd)
  BY DEF Base, Typed
<1>10. /\ cmds' \in [Tab -> Seq(Cmd)] /\ (\A r \in Tab : r # s => cmds'[r] = cmds[r])
       /\ \A c : Has(cmds'[s], c) => Has(cmds[s], c) \/ c \in S
       /\ \A c : Has(cmds[s], c) => Has(cmds'[s], c)
       /\ link[s] = "up" => \A c \in S : Has(cmds'[s], c)
       /\ \A c : Single(cmds[s], c) /\ c \notin S => Single(cmds'[s], c)
  <2>1. CASE link[s] = "up"
    <3> DEFINE w == cmds[s] \o q
    <3>1. w \in Seq(Cmd) /\ \A c : Has(w, c) <=> Has(cmds[s], c) \/ Has(q, c)
      BY <1>8, <1>9, HasConcat
    <3>2. \A c : Single(cmds[s], c) /\ ~Has(q, c) => Single(w, c)
      BY <1>8, <1>9, SingleConcat
    <3>3. cmds' = [cmds EXCEPT ![s] = w]
      BY <1>5, <2>1
    <3> HIDE DEF w
    <3>4. cmds' \in [Tab -> Seq(Cmd)] /\ cmds'[s] = w /\ \A r \in Tab : r # s => cmds'[r] = cmds[r]
      BY <1>9, <3>1, <3>3
    <3> QED BY <1>8, <3>1, <3>2, <3>4
  <2>2. CASE link[s] # "up"
    BY <1>5, <1>9, <2>2
  <2> QED BY <2>1, <2>2
<1>11. \A c : c \in S <=> \E x \in Resent(s) : c = Start(x)
  BY DEF S
<1>12. online' \in [Tab -> BOOLEAN]
  BY <1>1 DEF Base, Typed
<1>13. Typed'
  <2>1. evts' \in [Tab -> Seq(Evt)] /\ UNCHANGED <<link, tasks, job, plan, ask, gone, copies, tmp>>
    BY DrainSteps
  <2> QED BY <1>2, <1>4, <1>10, <1>12, <2>1 DEF Base, Typed
<1> QED BY <1>1, <1>2, <1>4, <1>10, <1>11, <1>13

LEMMA DisconnectedSteps ==
  ASSUME Base, NEW s \in Tab, Drain(s), NEW e \in Evt, OnDisconnected(s, e)
  PROVE  /\ Typed' /\ e.ev = "disconnected"
         /\ \A x \in Xfer :
              rows'[x] = IF Owner(x) = s /\ rows[x].present /\ rows[x].spec /\ rows[x].ok # "ok"
                         THEN [rows[x] EXCEPT !.ok = "open", !.paused = TRUE] ELSE rows[x]
         /\ UNCHANGED <<cmds, cut>>
<1>1. /\ online' = [online EXCEPT ![s] = FALSE] /\ e.ev = "disconnected"
      /\ rows' = [x \in Xfer |->
                  IF Owner(x) = s /\ rows[x].present /\ rows[x].spec /\ rows[x].ok # "ok"
                  THEN [rows[x] EXCEPT !.ok = "open", !.paused = TRUE] ELSE rows[x]]
      /\ UNCHANGED <<cmds, cut>>
  BY DEF OnDisconnected
<1>2. \A x \in Xfer : [rows[x] EXCEPT !.ok = "open", !.paused = TRUE] \in RowT
  <2>1. TRUE \in BOOLEAN /\ "open" \in {"open", "ok", "fail"}
    OBVIOUS
  <2>2. \A x \in Xfer : rows[x] \in RowT
    BY DEF Base, Typed
  <2> QED BY <2>1, <2>2, RowUpdates, Zenon
<1>3. /\ rows' \in [Xfer -> RowT]
      /\ \A x \in Xfer :
              rows'[x] = IF Owner(x) = s /\ rows[x].present /\ rows[x].spec /\ rows[x].ok # "ok"
                         THEN [rows[x] EXCEPT !.ok = "open", !.paused = TRUE] ELSE rows[x]
  BY <1>1, <1>2 DEF Base, Typed
<1>4. online' \in [Tab -> BOOLEAN]
  BY <1>1 DEF Base, Typed
<1>5. evts' \in [Tab -> Seq(Evt)] /\ UNCHANGED <<link, tasks, job, plan, ask, gone, copies, tmp>>
  BY DrainSteps
<1>6. Typed'
  BY <1>1, <1>3, <1>4, <1>5 DEF Base, Typed
<1> QED BY <1>1, <1>3, <1>6

LEMMA StartSteps ==
  ASSUME Base, NEW s \in Tab, Drain(s), NEW e \in Evt, OnStart(e)
  PROVE  /\ Typed' /\ e.ev = "start" /\ e.x \in Xfer
         /\ rows'[e.x] = IF rows[e.x].present THEN [rows[e.x] EXCEPT !.queued = FALSE] ELSE Row
         /\ \A y \in Xfer : y # e.x => rows'[y] = rows[y]
         /\ UNCHANGED <<online, cmds, cut>>
<1> DEFINE x == e.x
           r == IF rows[x].present THEN [rows[x] EXCEPT !.queued = FALSE] ELSE Row
<1>1. /\ e.ev = "start" /\ UNCHANGED <<online, cmds, cut>>
      /\ rows' = [rows EXCEPT ![e.x] = IF @.present THEN [@ EXCEPT !.queued = FALSE] ELSE Row]
  BY DEF OnStart
<1>2. x \in Xfer /\ rows \in [Xfer -> RowT] /\ rows[x] \in RowT
  BY <1>1, EvtTypes DEF Base, Typed
<1>3. rows' = [rows EXCEPT ![x] = r]
  BY <1>1, <1>2
<1>4. r \in RowT
  <2>1. FALSE \in BOOLEAN /\ "open" \in {"open", "ok", "fail"}
    OBVIOUS
  <2>2. [rows[x] EXCEPT !.queued = FALSE] \in RowT /\ Row \in RowT
    BY <1>2, <2>1, RowUpdates, RowTypes, Zenon
  <2> QED BY <2>2
<1> HIDE DEF x, r
<1>5. rows' \in [Xfer -> RowT] /\ rows'[x] = r /\ \A y \in Xfer : y # x => rows'[y] = rows[y]
  BY <1>2, <1>3, <1>4
<1>6. evts' \in [Tab -> Seq(Evt)] /\ UNCHANGED <<link, tasks, job, plan, ask, gone, copies, tmp>>
  BY DrainSteps
<1>7. Typed'
  BY <1>1, <1>5, <1>6 DEF Base, Typed
<1> QED BY <1>1, <1>2, <1>5, <1>7 DEF r, x

LEMMA DoneSteps ==
  ASSUME Base, NEW s \in Tab, Drain(s), NEW e \in Evt, OnDone(e)
  PROVE  /\ Typed' /\ e.ev = "done" /\ e.x \in Xfer
         /\ ~rows[e.x].present => rows' = rows
         /\ rows[e.x].present =>
              \/ rows[e.x].spec /\ rows'[e.x] = [rows[e.x] EXCEPT !.paused = TRUE, !.queued = FALSE]
              \/ \E ok \in {"ok", "fail"} :
                   /\ rows'[e.x] = [rows[e.x] EXCEPT !.ok = ok, !.queued = FALSE]
                   /\ ok = "ok" => e = Done(e.x, TRUE)
         /\ \A y \in Xfer : y # e.x => rows'[y] = rows[y]
         /\ cut' = IF ~rows[e.x].present /\ Waiting(e.x[1]) /\ Follows(e.x[1]) = e.x
                   THEN [cut EXCEPT ![e.x[1]] = "norow"] ELSE cut
         /\ UNCHANGED <<online, cmds>>
<1> DEFINE x == e.x
           a == [rows[x] EXCEPT !.paused = TRUE, !.queued = FALSE]
           b == [rows[x] EXCEPT !.ok = IF e.ok THEN "ok" ELSE "fail", !.queued = FALSE]
<1>1. /\ e.ev = "done" /\ UNCHANGED <<online, cmds>>
      /\ rows' = IF ~rows[x].present THEN rows
                 ELSE [rows EXCEPT ![x] = IF ~e.ok /\ ~online[Owner(x)] /\ rows[x].spec THEN a ELSE b]
      /\ cut' = IF ~rows[e.x].present /\ Waiting(e.x[1]) /\ Follows(e.x[1]) = e.x
                THEN [cut EXCEPT ![e.x[1]] = "norow"] ELSE cut
  BY DEF OnDone
<1>2. x \in Xfer /\ rows \in [Xfer -> RowT] /\ rows[x] \in RowT /\ e.ok \in BOOLEAN
      /\ e = Done(x, e.ok)
  BY <1>1, EvtTypes DEF Base, Typed
<1>3. PICK ok \in {"ok", "fail"} : ok = (IF e.ok THEN "ok" ELSE "fail") /\ (ok = "ok" => e.ok = TRUE)
  BY <1>2
<1>4. b = [rows[x] EXCEPT !.ok = ok, !.queued = FALSE]
  BY <1>3
<1>5. a \in RowT /\ b \in RowT
  <2>1. TRUE \in BOOLEAN /\ FALSE \in BOOLEAN /\ ok \in {"open", "ok", "fail"}
    OBVIOUS
  <2>2. [rows[x] EXCEPT !.ok = ok, !.queued = FALSE] \in RowT
    BY <1>2, <2>1, RowUpdates, Zenon
  <2>3. [rows[x] EXCEPT !.paused = TRUE, !.queued = FALSE] \in RowT
    BY <1>2, <2>1, RowUpdates, Zenon
  <2> QED BY <1>4, <2>2, <2>3
<1>6. evts' \in [Tab -> Seq(Evt)] /\ UNCHANGED <<link, tasks, job, plan, ask, gone, copies, tmp>>
  BY DrainSteps
<1>7. cut' \in [Paste -> {"none", "offline", "replaced", "norow"}]
  BY <1>1 DEF Base, Typed
<1>8. ok = "ok" => e = Done(e.x, TRUE)
  BY <1>2, <1>3
<1> HIDE DEF a, b
<1>9. CASE ~rows[x].present
  <2>1. rows' = rows
    BY <1>1, <1>9
  <2>2. Typed'
    BY <1>1, <1>6, <1>7, <2>1 DEF Base, Typed
  <2> QED BY <1>1, <1>2, <1>9, <2>1, <2>2
<1>10. CASE rows[x].present /\ ~e.ok /\ ~online[Owner(x)] /\ rows[x].spec
  <2>1. rows' = [rows EXCEPT ![x] = a]
    BY <1>1, <1>10
  <2>2. rows' \in [Xfer -> RowT] /\ rows'[x] = a /\ \A y \in Xfer : y # x => rows'[y] = rows[y]
    BY <1>2, <1>5, <2>1
  <2>3. Typed'
    BY <1>1, <1>6, <1>7, <2>2 DEF Base, Typed
  <2> QED BY <1>1, <1>2, <1>10, <2>2, <2>3 DEF a
<1>11. CASE rows[x].present /\ ~(~e.ok /\ ~online[Owner(x)] /\ rows[x].spec)
  <2>1. rows' = [rows EXCEPT ![x] = b]
    BY <1>1, <1>11
  <2>2. rows' \in [Xfer -> RowT] /\ rows'[x] = b /\ \A y \in Xfer : y # x => rows'[y] = rows[y]
    BY <1>2, <1>5, <2>1
  <2>3. Typed'
    BY <1>1, <1>6, <1>7, <2>2 DEF Base, Typed
  <2> QED BY <1>1, <1>2, <1>4, <1>8, <1>11, <2>2, <2>3
<1> QED BY <1>9, <1>10, <1>11

\* Tasks that are told to stop are the same tasks.
Marked ==
  /\ \A t, w \in tasks' : \E u, v \in tasks :
       /\ t.x = u.x /\ t.st = u.st /\ t.old = u.old
       /\ w.x = v.x /\ w.st = v.st /\ w.old = v.old
       /\ u = v => t = w
  /\ \A u \in tasks : \E t \in tasks' : t.x = u.x /\ t.st = u.st /\ t.old = u.old

LEMMA MarkedRuns ==
  ASSUME Marked, NEW x
  PROVE  \A u \in tasks : u.x = x /\ ~u.old => \E t \in tasks' : t.x = x /\ ~t.old
<1>1. \A u \in tasks : \E t \in tasks' : t.x = u.x /\ t.st = u.st /\ t.old = u.old
  BY DEF Marked
<1> SUFFICES ASSUME NEW u \in tasks, u.x = x, ~u.old
             PROVE  \E t \in tasks' : t.x = x /\ ~t.old
  OBVIOUS
<1>2. PICK t \in tasks' : t.x = u.x /\ t.old = u.old
  BY <1>1
<1> QED BY <1>2, Zenon

LEMMA StopSteps ==
  ASSUME Typed, NEW B, B \subseteq tasks,
         tasks' = {IF t \in B THEN [t EXCEPT !.stop = TRUE] ELSE t : t \in tasks}
  PROVE  Marked /\ tasks' \in SUBSET Task
<1> DEFINE S(t) == [t EXCEPT !.stop = TRUE]
<1>1. \A t \in Task : S(t) \in Task /\ S(t).x = t.x /\ S(t).st = t.st /\ S(t).old = t.old
  <2> DEFINE b == TRUE
  <2>1. b \in BOOLEAN /\ b = TRUE
    OBVIOUS
  <2> HIDE DEF b
  <2>2. \A t \in Task : /\ [t EXCEPT !.stop = b] \in Task /\ [t EXCEPT !.stop = b].x = t.x
                        /\ [t EXCEPT !.stop = b].st = t.st /\ [t EXCEPT !.stop = b].old = t.old
    BY <2>1 DEF Task
  <2> QED BY <2>1, <2>2, Zenon
<1>2. tasks \subseteq Task
  BY DEF Typed
<1>3. tasks' = {IF t \in B THEN S(t) ELSE t : t \in tasks}
  OBVIOUS
<1> HIDE DEF S
<1>4. \A t \in tasks' : \E u \in tasks : t = IF u \in B THEN S(u) ELSE u
  BY <1>3
<1>5. \A u \in tasks : (IF u \in B THEN S(u) ELSE u) \in tasks'
  BY <1>3
<1>6. \A u \in tasks : /\ (IF u \in B THEN S(u) ELSE u) \in Task
                       /\ (IF u \in B THEN S(u) ELSE u).x = u.x
                       /\ (IF u \in B THEN S(u) ELSE u).st = u.st
                       /\ (IF u \in B THEN S(u) ELSE u).old = u.old
  BY <1>1, <1>2
<1>7. tasks' \in SUBSET Task
  BY <1>4, <1>6
<1>8. ASSUME NEW t \in tasks', NEW w \in tasks'
      PROVE  \E u, v \in tasks :
               /\ t.x = u.x /\ t.st = u.st /\ t.old = u.old
               /\ w.x = v.x /\ w.st = v.st /\ w.old = v.old
               /\ u = v => t = w
  <2>1. PICK u \in tasks : t = IF u \in B THEN S(u) ELSE u
    BY <1>4
  <2>2. PICK v \in tasks : w = IF v \in B THEN S(v) ELSE v
    BY <1>4
  <2>3. t.x = u.x /\ t.st = u.st /\ t.old = u.old
    BY <1>6, <2>1
  <2>4. w.x = v.x /\ w.st = v.st /\ w.old = v.old
    BY <1>6, <2>2
  <2> QED BY <2>1, <2>2, <2>3, <2>4
<1>9. \A u \in tasks : \E t \in tasks' : t.x = u.x /\ t.st = u.st /\ t.old = u.old
  BY <1>5, <1>6
<1> QED BY <1>7, <1>8, <1>9 DEF Marked

LEMMA TakeSteps ==
  ASSUME Base, NEW s \in Tab, Take(s)
  PROVE  /\ Typed' /\ link[s] = "up"
         /\ UNCHANGED <<link, online, evts, rows, job, plan, ask, copies, tmp, cut>>
         /\ \A r \in Tab : r # s => cmds'[r] = cmds[r]
         /\ \A e : Single(cmds[s], e) => Single(cmds'[s], e)
         /\ \E c \in Cmd :
              /\ Has(cmds[s], c)
              /\ \A d : Has(cmds[s], d) <=> d = c \/ Has(cmds'[s], d)
              /\ Single(cmds[s], c) => ~Has(cmds'[s], c)
              /\ \/ /\ c = Start(c.x) /\ gone' = gone
                    /\ \E n \in Task : /\ n.x = c.x /\ n.st = "new" /\ ~n.old
                                       /\ tasks' = tasks \union {n}
                 \/ c.op = "cancel" /\ gone' = gone /\ Marked
                 \/ c.op = "delete" /\ gone' = gone \union {s} /\ tasks' = tasks
<1> DEFINE c == Head(cmds[s])
           q == Tail(cmds[s])
<1>1. /\ link[s] = "up" /\ cmds[s] # <<>> /\ cmds' = [cmds EXCEPT ![s] = q]
      /\ UNCHANGED <<link, online, evts, rows, jobs, copies, tmp, cut>>
      /\ CASE c.op = "start" ->
                /\ tasks' = tasks \union {[x |-> c.x, st |-> "new", stop |-> FALSE, old |-> FALSE]}
                /\ UNCHANGED gone
           [] c.op = "cancel" ->
                /\ tasks' = {IF t.x = c.x /\ ~t.old THEN [t EXCEPT !.stop = TRUE] ELSE t : t \in tasks}
                /\ UNCHANGED gone
           [] OTHER ->
                /\ gone' = gone \union {s}
                /\ UNCHANGED tasks
  BY DEF Take
<1>2. cmds \in [Tab -> Seq(Cmd)] /\ cmds[s] \in Seq(Cmd)
  BY DEF Base, Typed
<1>3. q \in Seq(Cmd) /\ c \in Cmd /\ Has(cmds[s], c)
      /\ (\A d : Has(cmds[s], d) <=> d = c \/ Has(q, d))
  BY <1>1, <1>2, HasTail
<1>4. /\ \A e : Single(cmds[s], e) => Single(q, e)
      /\ Single(cmds[s], c) => ~Has(q, c)
  BY <1>1, <1>2, SingleTail
<1>5. c.op \in {"start", "cancel", "delete"} /\ c.x \in Xfer /\ (c.op = "start" => c = Start(c.x))
  BY <1>3 DEF Cmd, Start
<1> HIDE DEF c, q
<1>6. cmds' \in [Tab -> Seq(Cmd)] /\ cmds'[s] = q /\ \A r \in Tab : r # s => cmds'[r] = cmds[r]
  BY <1>1, <1>2, <1>3
<1>7. ASSUME tasks' \in SUBSET Task, gone' \in SUBSET Tab
      PROVE  Typed'
  BY <1>1, <1>6, <1>7 DEF Base, Typed, jobs
<1>8. tasks \in SUBSET Task /\ gone \in SUBSET Tab
  BY DEF Base, Typed
<1>9. CASE c.op = "start"
  <2> DEFINE f == FALSE
             n == [x |-> c.x, st |-> "new", stop |-> f, old |-> f]
  <2>1. tasks' = tasks \union {n} /\ gone' = gone
    BY <1>1, <1>9
  <2>2. n \in Task /\ n.x = c.x /\ n.st = "new" /\ ~n.old
    <3>1. f \in BOOLEAN /\ ~f
      OBVIOUS
    <3> HIDE DEF f
    <3> QED BY <1>5, <3>1 DEF Task
  <2> HIDE DEF n
  <2>3. Typed'
    BY <1>7, <1>8, <2>1, <2>2
  <2> QED BY <1>1, <1>3, <1>4, <1>5, <1>6, <1>9, <2>1, <2>2, <2>3 DEF jobs
<1>10. CASE c.op = "cancel"
  <2> DEFINE B == {t \in tasks : t.x = c.x /\ ~t.old}
  <2>1. tasks' = {IF t.x = c.x /\ ~t.old THEN [t EXCEPT !.stop = TRUE] ELSE t : t \in tasks}
        /\ gone' = gone
    BY <1>1, <1>10
  <2>2. tasks' = {IF t \in B THEN [t EXCEPT !.stop = TRUE] ELSE t : t \in tasks} /\ B \subseteq tasks
    BY <2>1
  <2> HIDE DEF B
  <2>3. Marked /\ tasks' \in SUBSET Task
    BY <2>2, StopSteps DEF Base
  <2>4. Typed'
    BY <1>7, <1>8, <2>1, <2>3
  <2> QED BY <1>1, <1>3, <1>4, <1>6, <1>10, <2>1, <2>3, <2>4 DEF jobs
<1>11. CASE c.op = "delete"
  <2>1. gone' = gone \union {s} /\ tasks' = tasks
    BY <1>1, <1>11
  <2>2. Typed'
    BY <1>7, <1>8, <2>1
  <2> QED BY <1>1, <1>3, <1>4, <1>6, <1>11, <2>1, <2>2 DEF jobs
<1> QED BY <1>5, <1>9, <1>10, <1>11

\* An event reported by a worker is behind those that wait.
LEMMA Reported ==
  ASSUME Typed, NEW s \in Tab, NEW e \in Evt, Report(s, e)
  PROVE  /\ evts' \in [Tab -> Seq(Evt)]
         /\ \A r \in Tab : \A d : Has(evts'[r], d) <=> Has(evts[r], d) \/ (d = e /\ r = s)
         /\ \A r \in Tab : r # s => evts'[r] = evts[r]
         /\ \A d, S : InOrder(evts[s], d, S) /\ d \notin S
                      /\ (e = d => \A f \in S : ~Has(evts[s], f)) => InOrder(evts'[s], d, S)
<1> DEFINE q == Append(evts[s], e)
<1>1. evts \in [Tab -> Seq(Evt)] /\ evts[s] \in Seq(Evt) /\ evts' = [evts EXCEPT ![s] = q]
  BY DEF Typed, Report
<1>2. q \in Seq(Evt) /\ \A d : Has(q, d) <=> Has(evts[s], d) \/ d = e
  BY <1>1, HasAppend
<1>3. \A d, S : InOrder(evts[s], d, S) /\ d \notin S
                      /\ (e = d => \A f \in S : ~Has(evts[s], f)) => InOrder(q, d, S)
  BY <1>1, InOrderAppend
<1> HIDE DEF q
<1>4. evts' \in [Tab -> Seq(Evt)] /\ evts'[s] = q /\ \A r \in Tab : r # s => evts'[r] = evts[r]
  BY <1>1, <1>2
<1> QED BY <1>2, <1>3, <1>4

LEMMA ReportHas ==
  ASSUME Typed, NEW s \in Tab, NEW e \in Evt, Report(s, e)
  PROVE  \A r \in Tab : \A d : Has(evts'[r], d) => Has(evts[r], d) \/ (d = e /\ r = s)
  BY Reported

LEMMA LoseSteps ==
  ASSUME Base, NEW s \in Tab, Lose(s)
  PROVE  /\ Typed' /\ Marked /\ link[s] = "up" /\ link'[s] = "down" /\ cmds'[s] = <<>>
         /\ \A r \in Tab : r # s => cmds'[r] = cmds[r] /\ link'[r] = link[r]
         /\ Report(s, LostEvt)
         /\ \A p \in Paste : cut'[p] = IF Follower(p, s) /\ Has(cmds[s], Start(Follows(p)))
                                       THEN "offline" ELSE cut[p]
         /\ UNCHANGED <<online, rows, job, plan, ask, gone, copies, tmp>>
<1>1. /\ link[s] = "up" /\ link' = [link EXCEPT ![s] = "down"]
      /\ Report(s, LostEvt) /\ cmds' = [cmds EXCEPT ![s] = <<>>]
      /\ tasks' = {IF Owner(t.x) = s THEN [t EXCEPT !.stop = TRUE] ELSE t : t \in tasks}
      /\ cut' = [p \in Paste |->
                 IF Follower(p, s) /\ \E k \in DOMAIN cmds[s] : cmds[s][k] = Start(Follows(p))
                 THEN "offline" ELSE cut[p]]
      /\ UNCHANGED <<online, rows, jobs, disk>>
  BY DEF Lose, LostEvt
<1>2. /\ link' \in [Tab -> {"up", "down", "closed"}] /\ cmds' \in [Tab -> Seq(Cmd)]
      /\ link'[s] = "down" /\ cmds'[s] = <<>>
      /\ \A r \in Tab : r # s => cmds'[r] = cmds[r] /\ link'[r] = link[r]
  BY <1>1 DEF Base, Typed
<1>3. evts' \in [Tab -> Seq(Evt)]
  BY <1>1, EvtTypes, Reported DEF Base
<1> DEFINE B == {t \in tasks : Owner(t.x) = s}
<1>4. tasks' = {IF t \in B THEN [t EXCEPT !.stop = TRUE] ELSE t : t \in tasks} /\ B \subseteq tasks
  BY <1>1
<1> HIDE DEF B
<1>5. Marked /\ tasks' \in SUBSET Task
  BY <1>4, StopSteps DEF Base
<1>6. /\ cut' \in [Paste -> {"none", "offline", "replaced", "norow"}]
      /\ \A p \in Paste : cut'[p] = IF Follower(p, s) /\ Has(cmds[s], Start(Follows(p)))
                                       THEN "offline" ELSE cut[p]
  BY <1>1 DEF Base, Typed, Has
<1>7. Typed'
  BY <1>1, <1>2, <1>3, <1>5, <1>6 DEF Base, Typed, jobs, disk
<1> QED BY <1>1, <1>2, <1>5, <1>6, <1>7 DEF jobs, disk

LEMMA TaskParts ==
  ASSUME Base, NEW t \in tasks
  PROVE  /\ t \in Task /\ t.x \in Xfer /\ t.st \in {"new", "run"} /\ t.old \in BOOLEAN
         /\ Owner(t.x) \in Tab /\ Known(t.x)
<1>1. t \in Task
  BY DEF Base, Typed
<1>2. t.x \in Xfer /\ t.st \in {"new", "run"} /\ t.old \in BOOLEAN
  BY <1>1 DEF Task
<1>3. Known(t.x)
  BY DEF Base, Ways
<1> QED BY <1>1, <1>2, <1>3, OwnerTab DEF Base

LEMMA AnnounceSteps ==
  ASSUME Base, NEW t \in tasks, Announce(t)
  PROVE  /\ Typed' /\ ~t.old /\ t.st = "new"
         /\ \E r \in Task : /\ r.x = t.x /\ r.st = "run" /\ ~r.old
                            /\ tasks' = (tasks \ {t}) \union {r}
         /\ Report(Owner(t.x), Begins(t.x))
         /\ UNCHANGED <<link, online, cmds, rows, job, plan, ask, gone, copies, tmp, cut>>
<1> DEFINE r == [t EXCEPT !.st = "run"]
<1>1. /\ t.st = "new" /\ ~t.old /\ tasks' = (tasks \ {t}) \union {r}
      /\ Report(Owner(t.x), Begins(t.x))
      /\ UNCHANGED <<link, online, cmds, rows, jobs, disk, cut>>
  BY DEF Announce, Begins
<1>2. r \in Task /\ r.x = t.x /\ r.st = "run" /\ r.old = t.old
  BY TaskParts DEF Task
<1> HIDE DEF r
<1>3. evts' \in [Tab -> Seq(Evt)]
  BY <1>1, TaskParts, EvtTypes, Reported DEF Base
<1>4. Typed'
  BY <1>1, <1>2, <1>3 DEF Base, Typed, jobs, disk
<1> QED BY <1>1, <1>2, <1>4 DEF jobs, disk

LEMMA EndSteps ==
  ASSUME Base, NEW t \in tasks, Succeed(t) \/ Fail(t)
  PROVE  /\ Typed' /\ tasks' = tasks \ {t}
         /\ IF t.old THEN evts' = evts
            ELSE \E ok \in BOOLEAN : Report(Owner(t.x), Done(t.x, ok)) /\ (ok => Succeed(t))
         /\ copies \subseteq copies'
         /\ UNCHANGED <<link, online, cmds, rows, job, plan, ask, gone, cut>>
<1>1. /\ t \in Task /\ t.x \in Xfer /\ t.old \in BOOLEAN /\ Owner(t.x) \in Tab
      /\ t.x[1] \in Paste /\ plan[t.x[1]].src \in Tab /\ plan[t.x[1]].dst \in Tab
  BY TaskParts, XferParts, Owners DEF Base
<1>2. tasks' = tasks \ {t} /\ UNCHANGED <<link, online, cmds, rows, job, plan, ask, gone, cut>>
  BY DEF Succeed, Fail, jobs, disk
<1>3. IF t.old THEN evts' = evts
      ELSE \E ok \in BOOLEAN : Report(Owner(t.x), Done(t.x, ok)) /\ (ok => Succeed(t))
  BY Zenon DEF Succeed, Fail
<1>4. evts' \in [Tab -> Seq(Evt)]
  <2>1. CASE t.old
    BY <1>3, <2>1 DEF Base, Typed
  <2>2. CASE ~t.old
    <3>1. PICK ok \in BOOLEAN : Report(Owner(t.x), Done(t.x, ok))
      BY <1>3, <2>2
    <3> QED BY <1>1, <3>1, EvtTypes, Reported DEF Base
  <2> QED BY <2>1, <2>2
<1>5. /\ copies \subseteq copies' /\ copies' \in SUBSET (Tab \X Tab \X Entries)
      /\ tmp' \in SUBSET (Paste \X Entries)
  <2>0. copies \in SUBSET (Tab \X Tab \X Entries) /\ tmp \in SUBSET (Paste \X Entries)
    BY DEF Base, Typed
  <2>1. CASE Fail(t)
    BY <2>0, <2>1 DEF Fail, disk
  <2>2. CASE Succeed(t)
    <3>1. Moved(t.x) \subseteq Entries
      BY DEF Moved
    <3>2. \/ tmp' = tmp \union ({t.x[1]} \X Moved(t.x)) /\ copies' = copies
          \/ /\ copies' = copies \union ({plan[t.x[1]].src} \X {plan[t.x[1]].dst} \X Moved(t.x))
             /\ tmp' = tmp
      BY <2>2 DEF Succeed, Stores
    <3> QED BY <1>1, <2>0, <3>1, <3>2
  <2> QED BY <2>1, <2>2
<1>6. Typed'
  BY <1>2, <1>4, <1>5 DEF Base, Typed
<1> QED BY <1>2, <1>3, <1>5, <1>6

-----------------------------------------------------------------------------
(* What is on its way belongs to a paste and to its tab.                      *)

\* A paste that has begun stays the paste it is.
Kept == \A p \in Paste : job[p] # "none" =>
          /\ job'[p] # "none" /\ plan'[p].kind = plan[p].kind /\ plan'[p].cut = plan[p].cut
          /\ plan'[p].src = plan[p].src /\ plan'[p].dst = plan[p].dst

LEMMA KeptOwner ==
  ASSUME Kept, NEW x \in Xfer, Known(x)
  PROVE  /\ Owner(x)' = Owner(x) /\ Known(x)'
         /\ (plan[x[1]].kind)' = plan[x[1]].kind
         /\ (plan[x[1]].src)' = plan[x[1]].src /\ (plan[x[1]].dst)' = plan[x[1]].dst
<1>1. x[1] \in Paste /\ x[2] \in {"src", "dst"}
  BY XferParts DEF Src, Dst
<1>2. /\ job'[x[1]] # "none" /\ plan'[x[1]].kind = plan[x[1]].kind
      /\ plan'[x[1]].src = plan[x[1]].src /\ plan'[x[1]].dst = plan[x[1]].dst
  BY <1>1 DEF Kept, Known
<1>3. plan'[x[1]][x[2]] = plan[x[1]][x[2]]
  BY <1>1, <1>2
<1> QED BY <1>2, <1>3 DEF Owner, Known

LEMMA BaseKept ==
  ASSUME Base, Typed', Kept,
         \A p \in Paste : PlanOK(p)',
         \A s \in Tab : \A c \in Cmd : Has(cmds'[s], c) =>
           Has(cmds[s], c) \/ (Known(c.x)' /\ (c.op = "start" => Owner(c.x)' = s)),
         \A t \in tasks' : Known(t.x)' \/ \E u \in tasks : t.x = u.x,
         \A s \in Tab : \A e \in Evt : Has(evts'[s], e) /\ e.ev \in {"start", "done"} =>
           Has(evts[s], e) \/ (Known(e.x)' /\ Owner(e.x)' = s),
         \A q \in Plan : Has(ask', q) => Has(ask, q) \/ q.kind = "direct",
         \A x \in Xfer : RowKind(x)'
  PROVE  Base' /\ Kept
<1>1. ASSUME NEW s \in Tab, NEW c \in Cmd, Has(cmds'[s], c)
      PROVE  Known(c.x)' /\ (c.op = "start" => Owner(c.x)' = s)
  <2>1. CASE Has(cmds[s], c)
    <3>1. Known(c.x) /\ (c.op = "start" => Owner(c.x) = s) /\ c.x \in Xfer
      BY <2>1 DEF Base, Ways, Cmd
    <3> QED BY <3>1, KeptOwner
  <2> QED BY <1>1, <2>1
<1>2. ASSUME NEW t \in tasks'
      PROVE  Known(t.x)'
  <2>1. ASSUME NEW u \in tasks, t.x = u.x PROVE Known(t.x)'
    BY <2>1, TaskParts, KeptOwner
  <2> QED BY <2>1
<1>3. ASSUME NEW s \in Tab, NEW e \in Evt, Has(evts'[s], e), e.ev \in {"start", "done"}
      PROVE  Known(e.x)' /\ Owner(e.x)' = s
  <2>1. CASE Has(evts[s], e)
    <3>1. Known(e.x) /\ Owner(e.x) = s /\ e.x \in Xfer
      BY <1>3, <2>1, EvtTypes DEF Base, Ways
    <3> QED BY <3>1, KeptOwner
  <2> QED BY <1>3, <2>1
<1>4. \A q \in Plan : Has(ask', q) => q.kind = "direct"
  BY DEF Base, Ways
<1>5. Ways'
  BY <1>1, <1>2, <1>3, <1>4 DEF Ways
<1> QED BY <1>5 DEF Base

LEMMA EnteredParts ==
  ASSUME Base, NEW p \in Paste, NEW pl \in Plan, Entered(p, pl)
  PROVE  /\ Kept /\ plan'[p] = pl /\ (\A q \in Paste \ {p} : plan'[q] = plan[q] /\ job'[q] = job[q])
         /\ job'[p] # "none" /\ job[p] = "none"
         /\ First(p, pl) \in {Src(p), Dst(p)} /\ Owner(First(p, pl))' = FirstTab(pl)
         /\ FirstTab(pl) \in Tab
         /\ \A x \in Xfer : x[1] # p => rows'[x] = rows[x] /\ (Known(x)' <=> Known(x))
                                        /\ Owner(x)' = Owner(x)
<1>1. plan'[p] = pl /\ (\A q \in Paste \ {p} : plan'[q] = plan[q] /\ job'[q] = job[q]) /\ job[p] = "none"
      /\ job'[p] # "none"
  BY DEF Entered, Base, Typed, Kinds
<1>2. Kept
  BY <1>1 DEF Kept
<1>3. First(p, pl) \in {Src(p), Dst(p)} /\ Owner(First(p, pl))' = FirstTab(pl) /\ FirstTab(pl) \in Tab
  BY <1>1, XferParts, PlanParts DEF First, FirstTab, Owner, Src, Dst
<1>4. \A x \in Xfer : x[1] # p => rows'[x] = rows[x] /\ (Known(x)' <=> Known(x)) /\ Owner(x)' = Owner(x)
  BY <1>1, XferParts DEF Entered, Known, Owner
<1> QED BY <1>1, <1>2, <1>3, <1>4

LEMMA BaseEntered ==
  ASSUME Base, NEW p \in Paste, NEW pl \in Plan, Entered(p, pl), Typed'
  PROVE  Base' /\ Kept
<1>1. /\ plan'[p] = pl /\ (\A q \in Paste \ {p} : plan'[q] = plan[q] /\ job'[q] = job[q])
      /\ job'[p] # "none" /\ Kept
      /\ First(p, pl) \in {Src(p), Dst(p)} /\ Owner(First(p, pl))' = FirstTab(pl)
      /\ FirstTab(pl) \in Tab
      /\ \A x \in Xfer : x[1] # p => rows'[x] = rows[x] /\ (Known(x)' <=> Known(x))
                                        /\ Owner(x)' = Owner(x)
  BY EnteredParts
<1>2. Src(p) \in Xfer /\ Dst(p) \in Xfer /\ Src(p)[1] = p /\ Dst(p)[1] = p
      /\ \A x \in Xfer : x[1] = p => x \in {Src(p), Dst(p)}
  BY XferParts
<1>3. ASSUME NEW q \in Paste PROVE PlanOK(q)'
  <2>1. CASE q = p
    BY <1>1, <2>1, JobPlan DEF PlanOK, Entered, Kinds, Typed
  <2>2. CASE q # p
    <3>1. PlanOK(q) /\ plan'[q] = plan[q] /\ job'[q] = job[q]
      BY <1>1, <2>2 DEF Base
    <3>2. rows'[Src(q)] = rows[Src(q)] /\ rows'[Dst(q)] = rows[Dst(q)]
      BY <1>1, <2>2, XferParts
    <3>3. \A x \in {Src(q), Dst(q)} : rows'[x] = rows[x]
      BY <3>2
    <3> QED BY <3>1, <3>3 DEF PlanOK
  <2> QED BY <2>1, <2>2
<1>4. ASSUME NEW x \in Xfer PROVE RowKind(x)'
  <2>1. CASE x[1] = p
    BY <1>1, <1>2, <2>1 DEF RowKind, Entered, Known
  <2>2. CASE x[1] # p
    <3>1. RowKind(x) /\ rows'[x] = rows[x] /\ (Known(x)' <=> Known(x)) /\ plan'[x[1]] = plan[x[1]]
      BY <1>1, <2>2, XferParts DEF Base
    <3> QED BY <3>1 DEF RowKind
  <2> QED BY <2>1, <2>2
<1>5. /\ Start(First(p, pl)) \in Cmd /\ Start(First(p, pl)).x = First(p, pl)
      /\ Known(First(p, pl))'
  BY <1>1, <1>2, StartCmd DEF Known
<1>6. \A s \in Tab : \A c \in Cmd : Has(cmds'[s], c) =>
        Has(cmds[s], c) \/ (Known(c.x)' /\ (c.op = "start" => Owner(c.x)' = s))
  <2>1. \A s \in Tab : \A c : Has(cmds'[s], c) =>
          Has(cmds[s], c) \/ (c = Start(First(p, pl)) /\ s = FirstTab(pl))
    BY <1>1, <1>5, SentHas DEF Entered, Base
  <2> QED BY <1>1, <1>5, <2>1
<1>7. tasks' = tasks /\ evts' = evts
  BY DEF Entered
<1>8. \A q \in Plan : Has(ask', q) => Has(ask, q)
  <2>1. ask \in Seq(Plan)
    BY DEF Base, Typed
  <2> QED BY <2>1, HasTail DEF Entered
<1> QED BY <1>1, <1>3, <1>4, <1>6, <1>7, <1>8, BaseKept

LEMMA BaseAdvanced ==
  ASSUME Base, NEW p \in Paste, Advanced(p), Typed'
  PROVE  Base' /\ Kept
<1>1. /\ job[p] \notin {"none", "ended"} /\ job'[p] \in {"up", "ended"} /\ (job'[p] = "up" => job[p] = "down")
      /\ plan' = plan /\ evts' = evts /\ tasks' = tasks
      /\ \A q \in Paste : q # p => job'[q] = job[q]
      /\ \A x \in Xfer : x # Dst(p) => rows'[x] = rows[x]
  BY DEF Advanced, Uploading, Ending, Waiting
<1>2. Kept
  BY <1>1 DEF Kept
<1>3. \A x \in Xfer : (Known(x)' <=> Known(x)) /\ Owner(x)' = Owner(x)
  BY <1>1, XferParts DEF Known, Owner
<1>4. Dst(p) \in Xfer /\ Src(p) \in Xfer /\ Dst(p)[1] = p /\ Src(p)[1] = p
  BY XferParts
<1>5. /\ rows'[Dst(p)].spec = rows[Dst(p)].spec /\ rows'[Dst(p)].paused = rows[Dst(p)].paused
      /\ rows'[Dst(p)].present = rows[Dst(p)].present
  <2>1. rows[Dst(p)] \in RowT
    BY JobPlan
  <2>2. \/ rows'[Dst(p)] = rows[Dst(p)]
        \/ rows'[Dst(p)] = [rows[Dst(p)] EXCEPT !.queued = FALSE]
        \/ \E ok \in {"ok", "fail"} :
             rows'[Dst(p)] = [rows[Dst(p)] EXCEPT !.ok = ok, !.queued = FALSE]
    BY DEF Advanced, Uploading, Ending
  <2> QED BY <2>1, <2>2 DEF RowT
<1>6. ASSUME NEW q \in Paste PROVE PlanOK(q)'
  <2>1. CASE q = p
    BY <1>1, <2>1, JobPlan DEF PlanOK
  <2>2. CASE q # p
    <3>1. PlanOK(q) /\ plan'[q] = plan[q] /\ job'[q] = job[q]
      BY <1>1, <2>2 DEF Base
    <3>2. \A x \in {Src(q), Dst(q)} : rows'[x] = rows[x]
      BY <1>1, <1>4, <2>2, XferParts
    <3> QED BY <3>1, <3>2 DEF PlanOK
  <2> QED BY <2>1, <2>2
<1>7. ASSUME NEW x \in Xfer PROVE RowKind(x)'
  <2>1. /\ rows'[x].spec = rows[x].spec /\ rows'[x].paused = rows[x].paused
        /\ rows'[x].present = rows[x].present
    BY <1>1, <1>5
  <2>2. RowKind(x)
    BY DEF Base
  <2> QED BY <1>1, <1>3, <2>1, <2>2 DEF RowKind
<1>8. \A s \in Tab : \A c \in Cmd : Has(cmds'[s], c) =>
        Has(cmds[s], c) \/ (Known(c.x)' /\ (c.op = "start" => Owner(c.x)' = s))
  <2>1. Known(Src(p))' /\ Known(Dst(p))' /\ Owner(Dst(p))' = plan[p].dst
    BY <1>1, <1>3, <1>4, Owners DEF Known, Base
  <2>2. CASE Uploading(p)
    <3>1. \A s \in Tab : \A c : Has(cmds'[s], c) =>
            Has(cmds[s], c) \/ (c = Start(Dst(p)) /\ s = plan[p].dst)
      BY <2>2, JobPlan, SentHas DEF Uploading, Base
    <3> QED BY <1>4, <2>1, <3>1, StartCmd
  <2>3. CASE Ending(p)
    <3>1. \A s \in Tab : \A c : Has(cmds'[s], c) => Has(cmds[s], c) \/ c = Deletes(p)
      BY <2>3, JobPlan, SentHas DEF Ending, Base
    <3>2. Deletes(p).op = "delete" /\ Deletes(p).x = Src(p)
      BY DEF Deletes
    <3> QED BY <2>1, <3>1, <3>2
  <2> QED BY <2>2, <2>3 DEF Advanced
<1>9. \A q \in Plan : Has(ask', q) => Has(ask, q) \/ q.kind = "direct"
  <2>1. ask \in Seq(Plan) /\ plan[p] \in Plan
    BY JobPlan DEF Base, Typed
  <2>2. ask' = ask \/ (job[p] = "direct" /\ ask' = Append(ask, plan[p]))
    BY DEF Advanced, Uploading, Ending
  <2>3. \A q : Has(Append(ask, plan[p]), q) => Has(ask, q) \/ q = plan[p]
    BY <2>1, HasAppend
  <2> QED BY <2>2, <2>3, JobPlan
<1> QED BY <1>1, <1>2, <1>6, <1>7, <1>8, <1>9, BaseKept

LEMMA BaseSteady ==
  ASSUME Base, Typed', job' = job, SamePlans,
         \A x \in Xfer : /\ ~Known(x) => rows'[x] = rows[x]
                         /\ rows'[x].spec \/ rows'[x].paused => rows[x].spec \/ rows[x].paused
                         /\ rows'[x].spec \/ rows'[x].paused => rows'[x].present,
         \A s \in Tab : \A c \in Cmd : Has(cmds'[s], c) =>
           Has(cmds[s], c) \/ (Known(c.x) /\ (c.op = "start" => Owner(c.x) = s)),
         \A t \in tasks' : Known(t.x),
         \A s \in Tab : \A e \in Evt : Has(evts'[s], e) /\ e.ev \in {"start", "done"} =>
           Has(evts[s], e) \/ (Known(e.x) /\ Owner(e.x) = s),
         \A q \in Plan : Has(ask', q) => Has(ask, q) \/ q.kind = "direct"
  PROVE  Base' /\ Kept /\ \A x \in Xfer : (Known(x)' <=> Known(x)) /\ Owner(x)' = Owner(x)
<1>1. Kept
  BY DEF Kept, SamePlans
<1>2. \A x \in Xfer : (Known(x)' <=> Known(x)) /\ Owner(x)' = Owner(x)
  <2> SUFFICES ASSUME NEW x \in Xfer PROVE (Known(x)' <=> Known(x)) /\ Owner(x)' = Owner(x)
    OBVIOUS
  <2>1. Known(x)' <=> Known(x)
    BY DEF Known
  <2>2. x[1] \in Paste /\ x[2] \in {"src", "dst"}
    BY XferParts DEF Src, Dst
  <2>3. plan'[x[1]][x[2]] = plan[x[1]][x[2]]
    BY <2>2 DEF SamePlans
  <2> QED BY <2>1, <2>3 DEF Owner
<1>3. ASSUME NEW q \in Paste PROVE PlanOK(q)'
  <2>1. job[q] = "none" => \A x \in {Src(q), Dst(q)} : rows'[x] = rows[x]
    BY XferParts DEF Known
  <2>2. PlanOK(q) /\ job'[q] = job[q] /\ plan'[q].kind = plan[q].kind
    BY DEF Base, SamePlans
  <2> QED BY <2>1, <2>2 DEF PlanOK
<1>4. ASSUME NEW x \in Xfer PROVE RowKind(x)'
  <2>1. RowKind(x) /\ plan'[x[1]].kind = plan[x[1]].kind
    BY XferParts DEF Base, SamePlans
  <2> QED BY <1>2, <2>1 DEF RowKind
<1>5. \A s \in Tab : \A c \in Cmd : Has(cmds'[s], c) =>
        Has(cmds[s], c) \/ (Known(c.x)' /\ (c.op = "start" => Owner(c.x)' = s))
  BY <1>2 DEF Cmd
<1>6. \A t \in tasks' : Known(t.x)' \/ \E u \in tasks : t.x = u.x
  BY DEF Known
<1>7. \A s \in Tab : \A e \in Evt : Has(evts'[s], e) /\ e.ev \in {"start", "done"} =>
        Has(evts[s], e) \/ (Known(e.x)' /\ Owner(e.x)' = s)
  BY <1>2, EvtTypes
<1> QED BY <1>1, <1>2, <1>3, <1>4, <1>5, <1>6, <1>7, BaseKept

Asked == \E pl \in Plan : pl.kind = "direct" /\ ask' = Append(ask, pl)

\* The steps that neither begin nor end a job.
Quietly ==
  \/ \E x \in Xfer : Cancel(x) \/ Resume(x) \/ Remove(x)
  \/ \E s \in Tab : Close(s) \/ Reconnect(s) \/ Drain(s) \/ Take(s) \/ Lose(s)
  \/ Work
  \/ ((ask # <<>> /\ ask' = Tail(ask)) \/ Asked)
     /\ UNCHANGED <<link, online, cmds, evts, tasks, rows, job, plan, disk, cut>>
  \/ UNCHANGED vars

LEMMA RowHere ==
  ASSUME Base, NEW x \in Xfer
  PROVE  /\ rows[x] \in RowT
         /\ rows[x].spec \/ rows[x].paused => rows[x].present
         /\ rows[x].spec \/ rows[x].paused => Known(x) /\ plan[x[1]].kind = "local"
         /\ rows[x].present => Known(x)
         /\ Owner(x) \in Tab
  BY RowKnown, OwnerTab DEF Base, Typed, RowKind

LEMMA CmdHere ==
  ASSUME Base, NEW s \in Tab, NEW c \in Cmd, Has(cmds[s], c)
  PROVE  Known(c.x) /\ (c.op = "start" => Owner(c.x) = s) /\ c.x \in Xfer
  BY DEF Base, Ways, Cmd

LEMMA EvtHere ==
  ASSUME Base, NEW s \in Tab, NEW e \in Evt, Has(evts[s], e), e.ev \in {"start", "done"}
  PROVE  Known(e.x) /\ Owner(e.x) = s /\ e.x \in Xfer
  BY EvtTypes DEF Base, Ways

LEMMA BaseQuietly ==
  ASSUME Base, Quietly
  PROVE  /\ Base' /\ Kept /\ job' = job /\ SamePlans
         /\ \A x \in Xfer : (Known(x)' <=> Known(x)) /\ Owner(x)' = Owner(x)
<1>0. /\ \A x \in Xfer : /\ rows[x].spec \/ rows[x].paused => rows[x].present
                         /\ rows[x] \in RowT /\ (rows[x].present => Known(x))
                         /\ Owner(x) \in Tab
      /\ \A t \in tasks : Known(t.x)
  BY RowHere, TaskParts
<1>1. plan' = plan => SamePlans
  BY DEF SamePlans
<1>2. ASSUME NEW x \in Xfer, Cancel(x)
      PROVE  Base' /\ Kept /\ job' = job /\ SamePlans
             /\ \A y \in Xfer : (Known(y)' <=> Known(y)) /\ Owner(y)' = Owner(y)
  <2>1. /\ Typed' /\ SamePlans /\ Known(x)
        /\ \/ cmds' = cmds
           \/ \E y \in Xfer : Known(y) /\ Send(Owner(y), CancelCmd(y))
        /\ UNCHANGED <<link, online, evts, tasks, rows, job, ask, gone, copies, tmp, cut>>
    BY <1>2, CancelSteps
  <2>2. \A s \in Tab : \A c \in Cmd : Has(cmds'[s], c) =>
          Has(cmds[s], c) \/ (Known(c.x) /\ c.op # "start")
    <3>1. ASSUME NEW y \in Xfer, Known(y), Send(Owner(y), CancelCmd(y))
          PROVE  \A s \in Tab : \A c \in Cmd : Has(cmds'[s], c) =>
                   Has(cmds[s], c) \/ (Known(c.x) /\ c.op # "start")
      <4>1. CancelCmd(y) \in Cmd /\ CancelCmd(y).op = "cancel" /\ CancelCmd(y).x = y
        BY DEF CancelCmd, Cmd
      <4>2. \A s \in Tab : \A c : Has(cmds'[s], c) => Has(cmds[s], c) \/ c = CancelCmd(y)
        BY <1>0, <3>1, <4>1, SentHas DEF Base
      <4> QED BY <3>1, <4>1, <4>2
    <3> QED BY <2>1, <3>1
  <2> QED BY <1>0, <2>1, <2>2, BaseSteady
<1>3. ASSUME NEW x \in Xfer, Resume(x)
      PROVE  Base' /\ Kept /\ job' = job /\ SamePlans
             /\ \A y \in Xfer : (Known(y)' <=> Known(y)) /\ Owner(y)' = Owner(y)
  <2>1. /\ Typed' /\ Known(x) /\ rows[x].present /\ Send(Owner(x), Start(x))
        /\ \A y \in Xfer : y # x => rows'[y] = rows[y]
        /\ rows'[x] = [rows[x] EXCEPT !.ok = "open", !.paused = FALSE]
        /\ UNCHANGED <<link, online, evts, tasks, job, plan, ask, gone, copies, tmp>>
    BY <1>3, ResumeSteps
  <2>2. \A s \in Tab : \A c \in Cmd : Has(cmds'[s], c) =>
          Has(cmds[s], c) \/ (c = Start(x) /\ s = Owner(x))
    BY <1>0, <2>1, SentHas, StartCmd DEF Base
  <2>3. rows'[x].spec = rows[x].spec /\ rows'[x].present = rows[x].present /\ ~rows'[x].paused
    BY <1>0, <2>1 DEF RowT
  <2>4. \A y \in Xfer : /\ ~Known(y) => rows'[y] = rows[y]
                        /\ rows'[y].spec \/ rows'[y].paused => rows[y].spec \/ rows[y].paused
                        /\ rows'[y].spec \/ rows'[y].paused => rows'[y].present
    BY <1>0, <2>1, <2>3
  <2>5. \A s \in Tab : \A c \in Cmd : Has(cmds'[s], c) =>
           Has(cmds[s], c) \/ (Known(c.x) /\ (c.op = "start" => Owner(c.x) = s))
    BY <2>1, <2>2, StartCmd
  <2> QED BY <1>0, <1>1, <2>1, <2>4, <2>5, BaseSteady
<1>4. ASSUME NEW x \in Xfer, Remove(x)
      PROVE  Base' /\ Kept /\ job' = job /\ SamePlans
             /\ \A y \in Xfer : (Known(y)' <=> Known(y)) /\ Owner(y)' = Owner(y)
  <2>1. /\ Typed' /\ Known(x) /\ rows'[x] = NoRow
        /\ \A y \in Xfer : y # x => rows'[y] = rows[y]
        /\ UNCHANGED <<link, online, cmds, evts, tasks, job, plan, ask, gone, copies, tmp, cut>>
    BY <1>4, RemoveSteps
  <2>2. \A y \in Xfer : /\ ~Known(y) => rows'[y] = rows[y]
                        /\ rows'[y].spec \/ rows'[y].paused => rows[y].spec \/ rows[y].paused
                        /\ rows'[y].spec \/ rows'[y].paused => rows'[y].present
    BY <1>0, <2>1, RowTypes
  <2> QED BY <1>0, <1>1, <2>1, <2>2, BaseSteady
<1>5. ASSUME NEW s \in Tab, Close(s)
      PROVE  Base' /\ Kept /\ job' = job /\ SamePlans
             /\ \A y \in Xfer : (Known(y)' <=> Known(y)) /\ Owner(y)' = Owner(y)
  <2>1. /\ Typed' /\ Unseen(s)
        /\ cmds'[s] = <<>> /\ evts'[s] = <<>>
        /\ \A r \in Tab : r # s => cmds'[r] = cmds[r] /\ evts'[r] = evts[r]
        /\ \A x \in Xfer : rows'[x] = IF Owner(x) = s THEN NoRow ELSE rows[x]
        /\ job' = job /\ plan' = plan /\ ask' = ask
    BY <1>5, CloseSteps
  <2>2. \A y \in Xfer : /\ ~Known(y) => rows'[y] = rows[y]
                        /\ rows'[y].spec \/ rows'[y].paused => rows[y].spec \/ rows[y].paused
                        /\ rows'[y].spec \/ rows'[y].paused => rows'[y].present
    <3> SUFFICES ASSUME NEW y \in Xfer
                 PROVE  /\ ~Known(y) => rows'[y] = rows[y]
                        /\ rows'[y].spec \/ rows'[y].paused => rows[y].spec \/ rows[y].paused
                        /\ rows'[y].spec \/ rows'[y].paused => rows'[y].present
      OBVIOUS
    <3>1. ~Known(y) => rows[y] = NoRow
      BY XferParts DEF Base, PlanOK, Known
    <3>2. rows'[y] = rows[y] \/ rows'[y] = NoRow
      BY <2>1
    <3>3. ~NoRow.spec /\ ~NoRow.paused
      BY RowTypes
    <3> QED BY <1>0, <3>1, <3>2, <3>3
  <2>3. \A r \in Tab : \A c : (Has(cmds'[r], c) => Has(cmds[r], c)) /\ (Has(evts'[r], c) => Has(evts[r], c))
    BY <2>1, HasEmpty
  <2>4. \A t \in tasks' : Known(t.x)
    BY <1>0, <2>1 DEF Unseen
  <2> QED BY <1>1, <2>1, <2>2, <2>3, <2>4, BaseSteady
<1>6. ASSUME NEW s \in Tab, Reconnect(s)
      PROVE  Base' /\ Kept /\ job' = job /\ SamePlans
             /\ \A y \in Xfer : (Known(y)' <=> Known(y)) /\ Owner(y)' = Owner(y)
  <2>1. /\ Typed' /\ Unseen(s)
        /\ cmds'[s] = <<>> /\ evts'[s] = <<ConnEvt>>
        /\ \A r \in Tab : r # s => cmds'[r] = cmds[r] /\ evts'[r] = evts[r]
        /\ rows' = rows /\ job' = job /\ plan' = plan /\ ask' = ask
    BY <1>6, ReconnectSteps
  <2>2. \A r \in Tab : \A c : (Has(cmds'[r], c) => Has(cmds[r], c))
                              /\ (Has(evts'[r], c) => Has(evts[r], c) \/ c = ConnEvt)
    <3>1. \A c : ~Has(cmds'[s], c)
      BY <2>1, HasEmpty
    <3>2. \A c : Has(evts'[s], c) => c = ConnEvt
      BY <2>1, HasOne
    <3> HIDE DEF Has
    <3> QED BY <2>1, <3>1, <3>2
  <2>3. \A t \in tasks' : Known(t.x)
    BY <1>0, <2>1 DEF Unseen
  <2>4. ConnEvt.ev = "connected"
    BY EvtTypes
  <2>5. \A r \in Tab : \A e \in Evt : Has(evts'[r], e) /\ e.ev \in {"start", "done"} =>
           Has(evts[r], e)
    BY <2>2, <2>4
  <2> QED BY <1>0, <1>1, <2>1, <2>2, <2>3, <2>5, BaseSteady
<1>7. ASSUME NEW s \in Tab, Drain(s)
      PROVE  Base' /\ Kept /\ job' = job /\ SamePlans
             /\ \A y \in Xfer : (Known(y)' <=> Known(y)) /\ Owner(y)' = Owner(y)
  <2>1. PICK e \in Evt :
         /\ Has(evts[s], e)
         /\ OnConnected(s, e) \/ OnDisconnected(s, e) \/ OnStart(e) \/ OnDone(e)
         /\ \A d : Has(evts[s], d) <=> d = e \/ Has(evts'[s], d)
         /\ \A r \in Tab : r # s => evts'[r] = evts[r]
         /\ tasks' = tasks /\ job' = job /\ plan' = plan /\ ask' = ask
    BY <1>7, DrainSteps
  <2>2. \A r \in Tab : \A d : Has(evts'[r], d) => Has(evts[r], d)
    BY <2>1
  <2>3. ASSUME Typed', \A y \in Xfer : rows'[y] # rows[y] =>
                          /\ Known(y)
                          /\ rows'[y].spec \/ rows'[y].paused => rows[y].spec \/ rows[y].paused
                          /\ rows'[y].spec \/ rows'[y].paused => rows'[y].present,
               \A r \in Tab : \A c \in Cmd : Has(cmds'[r], c) =>
                 Has(cmds[r], c) \/ (Known(c.x) /\ (c.op = "start" => Owner(c.x) = r))
        PROVE  Base' /\ Kept /\ job' = job /\ SamePlans
               /\ \A y \in Xfer : (Known(y)' <=> Known(y)) /\ Owner(y)' = Owner(y)
    <3>1. \A y \in Xfer : /\ ~Known(y) => rows'[y] = rows[y]
                          /\ rows'[y].spec \/ rows'[y].paused => rows[y].spec \/ rows[y].paused
                          /\ rows'[y].spec \/ rows'[y].paused => rows'[y].present
      BY <1>0, <2>3
    <3> QED BY <1>0, <1>1, <2>1, <2>2, <2>3, <3>1, BaseSteady
  <2>4. CASE OnConnected(s, e)
    <3>1. /\ Typed'
          /\ \A r \in Tab : r # s => cmds'[r] = cmds[r]
          /\ \A c : Has(cmds'[s], c) => Has(cmds[s], c) \/ \E x \in Resent(s) : c = Start(x)
          /\ \A x \in Xfer : rows'[x] = IF x \in Resent(s) THEN [rows[x] EXCEPT !.paused = FALSE]
                                       ELSE rows[x]
      BY <1>7, <2>4, ConnectedSteps
    <3>2. \A x \in Resent(s) : x \in Xfer /\ Known(x) /\ Owner(x) = s /\ rows[x].spec /\ rows[x].paused
      BY RowHere DEF Resent
    <3>3. \A y \in Xfer : rows'[y] # rows[y] =>
                          /\ Known(y)
                          /\ rows'[y].spec \/ rows'[y].paused => rows[y].spec \/ rows[y].paused
                          /\ rows'[y].spec \/ rows'[y].paused => rows'[y].present
      <4> SUFFICES ASSUME NEW y \in Xfer, rows'[y] # rows[y]
                   PROVE  /\ Known(y)
                          /\ rows'[y].spec \/ rows'[y].paused => rows[y].spec \/ rows[y].paused
                          /\ rows'[y].spec \/ rows'[y].paused => rows'[y].present
        OBVIOUS
      <4>1. rows'[y] = [rows[y] EXCEPT !.paused = FALSE] /\ Known(y) /\ rows[y].spec
        BY <3>1, <3>2
      <4>2. rows[y] \in RowT /\ rows[y].present
        BY <4>1, RowHere
      <4>3. rows'[y].present = rows[y].present
        BY <4>1, <4>2 DEF RowT
      <4> QED BY <4>1, <4>2, <4>3
    <3>4. \A r \in Tab : \A c \in Cmd : Has(cmds'[r], c) =>
                 Has(cmds[r], c) \/ (Known(c.x) /\ (c.op = "start" => Owner(c.x) = r))
      BY <3>1, <3>2, StartCmd
    <3> QED BY <2>3, <3>1, <3>3, <3>4
  <2>5. CASE OnDisconnected(s, e)
    <3>1. /\ Typed' /\ cmds' = cmds
          /\ \A x \in Xfer :
              rows'[x] = IF Owner(x) = s /\ rows[x].present /\ rows[x].spec /\ rows[x].ok # "ok"
                         THEN [rows[x] EXCEPT !.ok = "open", !.paused = TRUE] ELSE rows[x]
      BY <1>7, <2>5, DisconnectedSteps
    <3>2. \A y \in Xfer : rows'[y] # rows[y] =>
                          /\ Known(y)
                          /\ rows'[y].spec \/ rows'[y].paused => rows[y].spec \/ rows[y].paused
                          /\ rows'[y].spec \/ rows'[y].paused => rows'[y].present
      BY <1>0, <3>1 DEF RowT
    <3> QED BY <2>3, <3>1, <3>2
  <2>6. CASE OnStart(e)
    <3>1. /\ Typed' /\ cmds' = cmds /\ e.ev = "start" /\ e.x \in Xfer
          /\ rows'[e.x] = IF rows[e.x].present THEN [rows[e.x] EXCEPT !.queued = FALSE] ELSE Row
          /\ \A y \in Xfer : y # e.x => rows'[y] = rows[y]
      BY <1>7, <2>6, StartSteps
    <3>2. Known(e.x)
      BY <2>1, <3>1, EvtHere
    <3>3. rows'[e.x].spec \/ rows'[e.x].paused => rows[e.x].spec \/ rows[e.x].paused
      BY <1>0, <3>1, RowTypes DEF RowT
    <3>4. rows'[e.x].spec \/ rows'[e.x].paused => rows'[e.x].present
      BY <1>0, <3>1, RowTypes DEF RowT
    <3> QED BY <2>3, <3>1, <3>2, <3>3, <3>4
  <2>7. CASE OnDone(e)
    <3>1. /\ Typed' /\ cmds' = cmds /\ e.ev = "done" /\ e.x \in Xfer
          /\ ~rows[e.x].present => rows' = rows
          /\ rows[e.x].present =>
               \/ rows[e.x].spec /\ rows'[e.x] = [rows[e.x] EXCEPT !.paused = TRUE, !.queued = FALSE]
               \/ \E ok \in {"ok", "fail"} :
                   rows'[e.x] = [rows[e.x] EXCEPT !.ok = ok, !.queued = FALSE]
          /\ \A y \in Xfer : y # e.x => rows'[y] = rows[y]
      BY <1>7, <2>7, DoneSteps
    <3>2. rows'[e.x] # rows[e.x] =>
            /\ Known(e.x)
            /\ rows'[e.x].spec \/ rows'[e.x].paused => rows[e.x].spec \/ rows[e.x].paused
            /\ rows'[e.x].spec \/ rows'[e.x].paused => rows'[e.x].present
      BY <1>0, <3>1 DEF RowT
    <3> QED BY <2>3, <3>1, <3>2
  <2> QED BY <2>1, <2>4, <2>5, <2>6, <2>7
<1>8. ASSUME NEW s \in Tab, Take(s)
      PROVE  Base' /\ Kept /\ job' = job /\ SamePlans
             /\ \A y \in Xfer : (Known(y)' <=> Known(y)) /\ Owner(y)' = Owner(y)
  <2>1. PICK c \in Cmd :
              /\ Has(cmds[s], c)
              /\ \A d : Has(cmds[s], d) <=> d = c \/ Has(cmds'[s], d)
              /\ \/ /\ c = Start(c.x)
                    /\ \E n \in Task : n.x = c.x /\ tasks' = tasks \union {n}
                 \/ Marked
                 \/ tasks' = tasks
    BY <1>8, TakeSteps
  <2>2. Typed' /\ evts' = evts /\ rows' = rows /\ job' = job /\ plan' = plan /\ ask' = ask
        /\ \A r \in Tab : r # s => cmds'[r] = cmds[r]
    BY <1>8, TakeSteps
  <2>3. Known(c.x)
    BY <2>1, CmdHere
  <2>4. \A t \in tasks' : Known(t.x)
    BY <1>0, <2>1, <2>3 DEF Marked
  <2>5. \A r \in Tab : \A d : Has(cmds'[r], d) => Has(cmds[r], d)
    BY <2>1, <2>2
  <2> QED BY <1>0, <1>1, <2>2, <2>4, <2>5, BaseSteady
<1>9. ASSUME NEW s \in Tab, Lose(s)
      PROVE  Base' /\ Kept /\ job' = job /\ SamePlans
             /\ \A y \in Xfer : (Known(y)' <=> Known(y)) /\ Owner(y)' = Owner(y)
  <2>1. /\ Typed' /\ Marked /\ cmds'[s] = <<>>
        /\ \A r \in Tab : r # s => cmds'[r] = cmds[r]
        /\ Report(s, LostEvt)
        /\ rows' = rows /\ job' = job /\ plan' = plan /\ ask' = ask
    BY <1>9, LoseSteps
  <2>2. \A r \in Tab : \A d : Has(evts'[r], d) => Has(evts[r], d) \/ d = LostEvt
    BY <2>1, EvtTypes, ReportHas DEF Base
  <2>3. LostEvt.ev = "disconnected"
    BY EvtTypes
  <2>4. \A r \in Tab : \A e \in Evt : Has(evts'[r], e) /\ e.ev \in {"start", "done"} => Has(evts[r], e)
    BY <2>2, <2>3
  <2>5. \A t \in tasks' : Known(t.x)
    BY <1>0, <2>1 DEF Marked
  <2>6. \A r \in Tab : \A d : Has(cmds'[r], d) => Has(cmds[r], d)
    BY <2>1, HasEmpty
  <2> QED BY <1>0, <1>1, <2>1, <2>4, <2>5, <2>6, BaseSteady
<1>10. ASSUME NEW t \in tasks, Announce(t)
      PROVE  Base' /\ Kept /\ job' = job /\ SamePlans
             /\ \A y \in Xfer : (Known(y)' <=> Known(y)) /\ Owner(y)' = Owner(y)
  <2>1. /\ Typed' /\ Report(Owner(t.x), Begins(t.x))
        /\ cmds' = cmds /\ rows' = rows /\ job' = job /\ plan' = plan /\ ask' = ask
    BY <1>10, AnnounceSteps
  <2>2. \A w \in tasks' : Known(w.x)
    <3>1. PICK r \in Task : r.x = t.x /\ tasks' = (tasks \ {t}) \union {r}
      BY <1>10, AnnounceSteps
    <3> QED BY <1>0, <3>1
  <2>3. t.x \in Xfer /\ Known(t.x) /\ Owner(t.x) \in Tab /\ Begins(t.x) \in Evt /\ Begins(t.x).x = t.x
    BY TaskParts, EvtTypes
  <2>4. \A r \in Tab : \A d : Has(evts'[r], d) => Has(evts[r], d) \/ (d = Begins(t.x) /\ r = Owner(t.x))
    BY <2>1, <2>3, ReportHas DEF Base
  <2> QED BY <1>0, <1>1, <2>1, <2>2, <2>3, <2>4, BaseSteady
<1>11. ASSUME NEW t \in tasks, Succeed(t) \/ Fail(t)
      PROVE  Base' /\ Kept /\ job' = job /\ SamePlans
             /\ \A y \in Xfer : (Known(y)' <=> Known(y)) /\ Owner(y)' = Owner(y)
  <2>1. /\ Typed' /\ tasks' = tasks \ {t}
        /\ evts' = evts \/ \E ok \in BOOLEAN : Report(Owner(t.x), Done(t.x, ok))
        /\ cmds' = cmds /\ rows' = rows /\ job' = job /\ plan' = plan /\ ask' = ask
    BY <1>11, EndSteps
  <2>2. t.x \in Xfer /\ Known(t.x) /\ Owner(t.x) \in Tab
    BY TaskParts
  <2>3. \A r \in Tab : \A e \in Evt : Has(evts'[r], e) /\ e.ev \in {"start", "done"} =>
           Has(evts[r], e) \/ (Known(e.x) /\ Owner(e.x) = r)
    <3>1. ASSUME NEW ok \in BOOLEAN, Report(Owner(t.x), Done(t.x, ok))
          PROVE  \A r \in Tab : \A e \in Evt : Has(evts'[r], e) =>
                   Has(evts[r], e) \/ (Known(e.x) /\ Owner(e.x) = r)
      <4>1. Done(t.x, ok) \in Evt /\ Done(t.x, ok).x = t.x
        BY <2>2, EvtTypes
      <4>2. \A r \in Tab : \A d : Has(evts'[r], d) => Has(evts[r], d) \/ (d = Done(t.x, ok) /\ r = Owner(t.x))
        BY <2>2, <3>1, <4>1, ReportHas DEF Base
      <4> QED BY <2>2, <4>1, <4>2
    <3> QED BY <2>1, <3>1
  <2> QED BY <1>0, <1>1, <2>1, <2>3, BaseSteady
<1>12. CASE /\ (ask # <<>> /\ ask' = Tail(ask)) \/ Asked
            /\ UNCHANGED <<link, online, cmds, evts, tasks, rows, job, plan, disk, cut>>
  <2>1. ask \in Seq(Plan)
    BY DEF Base, Typed
  <2>2. ask' \in Seq(Plan) /\ \A q \in Plan : Has(ask', q) => Has(ask, q) \/ q.kind = "direct"
    <3>1. CASE ask # <<>> /\ ask' = Tail(ask)
      BY <2>1, <3>1, HasTail
    <3>2. CASE Asked
      <4>1. PICK pl \in Plan : pl.kind = "direct" /\ ask' = Append(ask, pl)
        BY <3>2 DEF Asked
      <4>2. QED  BY <2>1, <4>1, HasAppend
    <3> QED BY <1>12, <3>1, <3>2
  <2>3. Typed'
    BY <1>12, <2>2 DEF Base, Typed, disk
  <2> QED BY <1>0, <1>1, <1>12, <2>2, <2>3, BaseSteady
<1>13. CASE UNCHANGED vars
  <2>1. Typed' /\ UNCHANGED <<cmds, evts, tasks, rows, job, plan, ask>>
    BY <1>13 DEF vars, jobs, disk, Base, Typed
  <2> QED BY <1>0, <1>1, <2>1, BaseSteady
<1> QED BY <1>2, <1>3, <1>4, <1>5, <1>6, <1>7, <1>8, <1>9, <1>10, <1>11, <1>12, <1>13 DEF Quietly, Work

\* Every step begins a paste, is one of a job, or is neither.
LEMMA Steps ==
  ASSUME Base, [Next]_vars
  PROVE  \/ \E p \in Paste : \E pl \in Plan : Entered(p, pl) /\ Typed'
         \/ \E p \in Paste : Advanced(p) /\ Typed'
         \/ Quietly
<1>1. ASSUME NEW p \in Paste, NEW pl \in Plans, PasteFile(p, pl)
      PROVE  \E q \in Paste : \E r \in Plan : Entered(q, r) /\ Typed'
  BY <1>1, PasteFileEnters
<1>2. ASSUME NEW p \in Paste, AnswerFallback(p)
      PROVE  (\E q \in Paste : \E r \in Plan : Entered(q, r) /\ Typed') \/ Quietly
  <2>1. \/ \E r \in Plan : Entered(p, r) /\ Typed'
        \/ /\ ask # <<>> /\ ask' = Tail(ask)
           /\ UNCHANGED <<link, online, cmds, evts, tasks, rows, job, plan, disk, cut>>
    BY <1>2, FallbackEnters
  <2> QED BY <2>1 DEF Quietly
<1>3. ASSUME NEW p \in Paste, Advance(p)
      PROVE  \E q \in Paste : Advanced(q) /\ Typed'
  BY <1>3, AdvanceSteps
<1>4. ASSUME NEW pl \in Plans, RefuseDirect(pl) PROVE Quietly
  <2>1. pl \in Plan
    BY DEF Plans, Plan, Kinds
  <2> QED BY <1>4, <2>1 DEF RefuseDirect, Quietly, Asked
<1> QED BY <1>1, <1>2, <1>3, <1>4 DEF Next, Quietly

LEMMA BaseNext ==
  ASSUME Base, [Next]_vars
  PROVE  Base' /\ Kept
  BY Steps, BaseEntered, BaseAdvanced, BaseQuietly

LEMMA InitParts ==
  ASSUME Init
  PROVE  /\ Base
         /\ \A s \in Tab : cmds[s] = <<>> /\ evts[s] = <<>> /\ link[s] = "up"
         /\ tasks = {} /\ gone = {}
         /\ \A p \in Paste : job[p] = "none"
         /\ \A x \in Xfer : rows[x] = NoRow
<1>1. /\ \A s \in Tab : cmds[s] = <<>> /\ evts[s] = <<>> /\ link[s] = "up"
      /\ tasks = {} /\ gone = {} /\ ask = <<>>
      /\ \A p \in Paste : job[p] = "none"
      /\ \A x \in Xfer : rows[x] = NoRow
  BY DEF Init
<1>2. NoPlan \in Plan
  BY DEF NoPlan, Plan, Tab
<1>3. <<>> \in Seq(Cmd) /\ <<>> \in Seq(Evt) /\ <<>> \in Seq(Plan)
  OBVIOUS
<1>4. cmds \in [Tab -> Seq(Cmd)] /\ evts \in [Tab -> Seq(Evt)] /\ ask \in Seq(Plan)
  BY <1>3 DEF Init
<1>5. rows \in [Xfer -> RowT]
  <2>1. rows = [x \in Xfer |-> NoRow]
    BY DEF Init
  <2> QED BY <2>1, RowTypes, Zenon
<1>6. online \in [Tab -> BOOLEAN]
  <2> DEFINE t == TRUE
  <2>1. t \in BOOLEAN /\ online = [s \in Tab |-> t]
    BY DEF Init
  <2> HIDE DEF t
  <2> QED BY <2>1
<1>7. /\ link \in [Tab -> {"up", "down", "closed"}]
      /\ job \in [Paste -> {"none", "down", "up", "direct", "local", "ended"}]
      /\ cut \in [Paste -> {"none", "offline", "replaced", "norow"}]
  BY DEF Init
<1>8. plan \in [Paste -> Plan]
  BY <1>2 DEF Init
<1>9. Typed
  BY <1>1, <1>4, <1>5, <1>6, <1>7, <1>8 DEF Typed, Init
<1>10. \A p \in Paste : PlanOK(p)
  BY <1>1, XferParts DEF PlanOK
<1>11. Ways
  BY <1>1, HasEmpty DEF Ways
<1>12. \A x \in Xfer : RowKind(x)
  BY <1>1, RowTypes DEF RowKind
<1> QED BY <1>1, <1>9, <1>10, <1>11, <1>12 DEF Base

-----------------------------------------------------------------------------
(* A success has left its files.                                              *)

LEMMA LandedKept ==
  ASSUME Kept, copies \subseteq copies', NEW x \in Xfer, Known(x), Landed(x)
  PROVE  Landed(x)'
  BY KeptOwner DEF Landed, IsRelay

LEMMA StepOk ==
  ASSUME NEW p \in Paste, Step(p) = "ok"
  PROVE  rows[Follows(p)].ok = "ok"
  BY DEF Step, Outcome

LEMMA OkKnown ==
  ASSUME Base, NEW x \in Xfer, rows[x].ok # "open"
  PROVE  Known(x)
<1>1. x[1] \in Paste /\ x \in {Src(x[1]), Dst(x[1])}
  BY XferParts
<1>2. job[x[1]] = "none" => rows[x] = NoRow
  BY <1>1 DEF Base, PlanOK
<1> QED BY <1>2, RowTypes DEF Known

LEMMA FollowsXfer == \A p \in Paste : Follows(p) \in {Src(p), Dst(p)} /\ Follows(p) \in Xfer
  BY XferParts DEF Follows

\* The job of a transfer that is complete may delete what was copied.
LEMMA OkCopied ==
  ASSUME Base, LandInv, NEW p \in Paste, Step(p) = "ok", job[p] \in {"up", "direct", "local"}
  PROVE  \A e \in Files : <<plan[p].src, plan[p].dst, e>> \in copies
<1>1. Landed(Follows(p)) /\ Follows(p) \in {Src(p), Dst(p)}
  BY StepOk, FollowsXfer DEF LandInv
<1>2. ~(IsRelay(p) /\ Follows(p) = Src(p))
  <2>1. CASE job[p] = "up"
    BY <2>1, XferParts DEF Follows
  <2>2. CASE job[p] \in {"direct", "local"}
    BY <2>2, JobPlan DEF IsRelay
  <2> QED BY <2>1, <2>2
<1> QED BY <1>1, <1>2, XferParts DEF Landed

LEMMA LandKept ==
  ASSUME Base, LandInv, Kept, copies \subseteq copies',
         \A s \in Tab : \A x \in Xfer : Has(evts'[s], Done(x, TRUE)) =>
           Has(evts[s], Done(x, TRUE)) \/ Landed(x)',
         \A x \in Xfer : rows'[x].ok = "ok" =>
           rows[x].ok = "ok" \/ (Landed(x) /\ Known(x)),
         \A s \in Tab : \A c \in Cmd : Has(cmds'[s], c) /\ c.op = "delete" =>
           Has(cmds[s], c) \/ Copied(s),
         \A s \in gone' : s \in gone \/ Copied(s)
  PROVE  LandInv'
<1>1. \A s \in Tab : Copied(s) => Copied(s)'
  BY DEF Copied
<1>2. ASSUME NEW s \in Tab, NEW x \in Xfer, Has(evts'[s], Done(x, TRUE)) PROVE Landed(x)'
  <2>1. CASE Has(evts[s], Done(x, TRUE))
    <3>1. Landed(x)
      BY <2>1 DEF LandInv
    <3>2. TRUE \in BOOLEAN
      OBVIOUS
    <3>3. Done(x, TRUE) \in Evt /\ Done(x, TRUE).ev = "done" /\ Done(x, TRUE).x = x
      BY <3>2, EvtTypes, Zenon
    <3>4. Known(x)
      BY <2>1, <3>3, EvtHere
    <3> QED BY <3>1, <3>4, LandedKept
  <2> QED BY <1>2, <2>1
<1>3. ASSUME NEW x \in Xfer, rows'[x].ok = "ok" PROVE Landed(x)'
  BY <1>3, OkKnown, LandedKept DEF LandInv
<1>4. \A s \in Tab : \A c \in Cmd : Has(cmds'[s], c) /\ c.op = "delete" => Copied(s)'
  BY <1>1 DEF LandInv
<1>5. \A s \in gone' : Copied(s)'
  BY DEF LandInv, Copied
<1> QED BY <1>2, <1>3, <1>4, <1>5 DEF LandInv

LEMMA LandEntered ==
  ASSUME Base, LandInv, NEW p \in Paste, NEW pl \in Plan, Entered(p, pl)
  PROVE  LandInv'
<1>1. /\ Kept /\ \A x \in Xfer : x[1] # p => rows'[x] = rows[x]
      /\ First(p, pl) \in {Src(p), Dst(p)} /\ FirstTab(pl) \in Tab
  BY EnteredParts
<1>2. copies' = copies /\ evts' = evts /\ gone' = gone
  BY DEF Entered, disk
<1>3. \A x \in Xfer : x[1] = p => rows'[x].ok = "open"
  BY XferParts DEF Entered
<1>4. /\ Start(First(p, pl)) \in Cmd /\ Start(First(p, pl)).op = "start"
  BY <1>1, XferParts, StartCmd
<1>5. \A s \in Tab : \A c : Has(cmds'[s], c) => Has(cmds[s], c) \/ c = Start(First(p, pl))
  BY <1>1, <1>4, SentHas DEF Entered, Base
<1>6. \A x \in Xfer : rows'[x].ok = "ok" => rows[x].ok = "ok" \/ (Landed(x) /\ Known(x))
  BY <1>1, <1>3
<1>7. \A s \in Tab : \A c \in Cmd : Has(cmds'[s], c) /\ c.op = "delete" =>
           Has(cmds[s], c) \/ Copied(s)
  BY <1>4, <1>5
<1>8. \A s \in Tab : \A x \in Xfer : Has(evts'[s], Done(x, TRUE)) =>
           Has(evts[s], Done(x, TRUE)) \/ Landed(x)'
  BY <1>2
<1>9. copies \subseteq copies' /\ \A s \in gone' : s \in gone \/ Copied(s)
  BY <1>2
<1> QED BY <1>1, <1>6, <1>7, <1>8, <1>9, LandKept

LEMMA LandAdvanced ==
  ASSUME Base, LandInv, NEW p \in Paste, Advanced(p), Typed'
  PROVE  LandInv'
<1>1. /\ Kept /\ copies' = copies /\ evts' = evts /\ gone' = gone
      /\ \A x \in Xfer : x # Dst(p) => rows'[x] = rows[x]
  BY BaseAdvanced DEF Advanced
<1>2. Dst(p) \in Xfer /\ Dst(p)[1] = p /\ rows[Dst(p)] \in RowT
  BY XferParts, JobPlan
<1>3. rows'[Dst(p)].ok = "ok" => rows[Dst(p)].ok = "ok" \/ (job[p] = "direct" /\ Step(p) = "ok")
  <2>1. \/ rows'[Dst(p)] = rows[Dst(p)]
        \/ rows'[Dst(p)] = [rows[Dst(p)] EXCEPT !.queued = FALSE]
        \/ \E ok \in {"ok", "fail"} :
             /\ rows'[Dst(p)] = [rows[Dst(p)] EXCEPT !.ok = ok, !.queued = FALSE]
             /\ ok = "ok" => job[p] = "direct" /\ Step(p) = "ok"
    BY DEF Advanced, Uploading, Ending
  <2> QED BY <1>2, <2>1 DEF RowT
<1>4. job[p] = "direct" /\ Step(p) = "ok" => Landed(Dst(p)) /\ Known(Dst(p))
  BY <1>2, OkCopied DEF Landed, Known
<1>5. \A s \in Tab : \A c \in Cmd : Has(cmds'[s], c) /\ c.op = "delete" =>
           Has(cmds[s], c) \/ Copied(s)
  <2>1. CASE Uploading(p)
    <3>1. \A s \in Tab : \A c : Has(cmds'[s], c) => Has(cmds[s], c) \/ c = Start(Dst(p))
      BY <2>1, JobPlan, SentHas DEF Uploading, Base
    <3> QED BY <1>2, <3>1, StartCmd
  <2>2. CASE Ending(p) /\ cmds' # cmds
    <3>1. Step(p) = "ok" /\ job[p] \in {"up", "direct", "local"} /\ Send(plan[p].src, Deletes(p))
      BY <2>2 DEF Ending
    <3>2. \A s \in Tab : \A c : Has(cmds'[s], c) => Has(cmds[s], c) \/ s = plan[p].src
      BY <3>1, JobPlan, SentHas DEF Base
    <3>3. Copied(plan[p].src)
      BY <3>1, JobPlan, OkCopied DEF Copied
    <3> QED BY <3>2, <3>3
  <2> QED BY <2>1, <2>2 DEF Advanced
<1>6. \A x \in Xfer : rows'[x].ok = "ok" => rows[x].ok = "ok" \/ (Landed(x) /\ Known(x))
  BY <1>1, <1>3, <1>4
<1>7. \A s \in Tab : \A x \in Xfer : Has(evts'[s], Done(x, TRUE)) =>
           Has(evts[s], Done(x, TRUE)) \/ Landed(x)'
  BY <1>1
<1>8. copies \subseteq copies' /\ \A s \in gone' : s \in gone \/ Copied(s)
  BY <1>1
<1> QED BY <1>1, <1>5, <1>6, <1>7, <1>8, LandKept

\* A task that succeeds leaves every file, or the packed file of a relay.
LEMMA SucceedLands ==
  ASSUME Base, NEW t \in tasks, Succeed(t)
  PROVE  Landed(t.x)'
<1>1. t.x \in Xfer /\ t.x[1] \in Paste /\ t.x[2] \in {"src", "dst"} /\ plan' = plan
  BY TaskParts, XferParts DEF Succeed, jobs, Src, Dst
<1>2. Stores(t.x)
  BY DEF Succeed
<1>3. Files \subseteq Moved(t.x)
  BY DEF Moved, Files
<1>4. CASE IsRelay(t.x[1]) /\ t.x[2] = "src"
  BY <1>1, <1>4 DEF Landed, IsRelay
<1>5. CASE ~(IsRelay(t.x[1]) /\ t.x[2] = "src")
  <2>1. copies' = copies \union ({plan[t.x[1]].src} \X {plan[t.x[1]].dst} \X Moved(t.x))
    BY <1>2, <1>5 DEF Stores
  <2>2. \A e \in Files : <<plan[t.x[1]].src, plan[t.x[1]].dst, e>> \in copies'
    BY <1>3, <2>1
  <2> QED BY <1>1, <2>2 DEF Landed
<1> QED BY <1>4, <1>5

\* What the other steps do to files, and to what follows from them.
LEMMA LandQuietly ==
  ASSUME Base, LandInv, Quietly
  PROVE  LandInv'
<1> DEFINE Rel ==
      /\ copies \subseteq copies'
      /\ \A s \in Tab : \A x \in Xfer : Has(evts'[s], Done(x, TRUE)) =>
           Has(evts[s], Done(x, TRUE)) \/ Landed(x)'
      /\ \A x \in Xfer : rows'[x].ok = "ok" => rows[x].ok = "ok" \/ (Landed(x) /\ Known(x))
      /\ \A s \in Tab : \A c \in Cmd : Has(cmds'[s], c) /\ c.op = "delete" =>
           Has(cmds[s], c) \/ Copied(s)
      /\ \A s \in gone' : s \in gone \/ Copied(s)
<1>0. \A x \in Xfer : rows[x] \in RowT /\ Owner(x) \in Tab
  BY RowHere
<1>1. ASSUME NEW x \in Xfer, Cancel(x) PROVE Rel
  <2>1. /\ UNCHANGED <<evts, rows, gone, copies>>
        /\ \/ cmds' = cmds
           \/ \E y \in Xfer : Send(Owner(y), CancelCmd(y))
    BY <1>1, CancelSteps
  <2>2. \A s \in Tab : \A c \in Cmd : Has(cmds'[s], c) => Has(cmds[s], c) \/ c.op = "cancel"
    <3>1. ASSUME NEW y \in Xfer, Send(Owner(y), CancelCmd(y))
          PROVE  \A s \in Tab : \A c \in Cmd : Has(cmds'[s], c) => Has(cmds[s], c) \/ c.op = "cancel"
      <4>1. CancelCmd(y) \in Cmd /\ CancelCmd(y).op = "cancel"
        BY DEF CancelCmd, Cmd
      <4> QED BY <1>0, <3>1, <4>1, SentHas DEF Base
    <3> QED BY <2>1, <3>1
  <2> QED BY <2>1, <2>2
<1>2. ASSUME NEW x \in Xfer, Resume(x) PROVE Rel
  <2>1. /\ Send(Owner(x), Start(x))
        /\ \A y \in Xfer : y # x => rows'[y] = rows[y]
        /\ rows'[x] = [rows[x] EXCEPT !.ok = "open", !.paused = FALSE]
        /\ UNCHANGED <<evts, gone, copies>>
    BY <1>2, ResumeSteps
  <2>2. \A s \in Tab : \A c : Has(cmds'[s], c) => Has(cmds[s], c) \/ c = Start(x)
    BY <1>0, <2>1, StartCmd, SentHas DEF Base
  <2>3. rows'[x].ok = "open"
    BY <1>0, <2>1 DEF RowT
  <2>4. Start(x).op = "start"
    BY StartCmd
  <2> QED BY <2>1, <2>2, <2>3, <2>4
<1>3. ASSUME NEW x \in Xfer, Remove(x) PROVE Rel
  <2>1. rows'[x] = NoRow /\ (\A y \in Xfer : y # x => rows'[y] = rows[y])
        /\ UNCHANGED <<evts, cmds, gone, copies>>
    BY <1>3, RemoveSteps
  <2> QED BY <2>1, RowTypes
<1>4. ASSUME NEW s \in Tab, Close(s) PROVE Rel
  <2>1. /\ cmds'[s] = <<>> /\ evts'[s] = <<>>
        /\ \A r \in Tab : r # s => cmds'[r] = cmds[r] /\ evts'[r] = evts[r]
        /\ \A x \in Xfer : rows'[x] = IF Owner(x) = s THEN NoRow ELSE rows[x]
        /\ UNCHANGED <<gone, copies>>
    BY <1>4, CloseSteps
  <2>2. \A r \in Tab : \A c : (Has(cmds'[r], c) => Has(cmds[r], c)) /\ (Has(evts'[r], c) => Has(evts[r], c))
    BY <2>1, HasEmpty
  <2>3. \A x \in Xfer : rows'[x].ok = "ok" => rows[x].ok = "ok"
    BY <2>1, RowTypes
  <2> QED BY <2>1, <2>2, <2>3
<1>5. ASSUME NEW s \in Tab, Reconnect(s) PROVE Rel
  <2>1. /\ cmds'[s] = <<>> /\ evts'[s] = <<ConnEvt>>
        /\ \A r \in Tab : r # s => cmds'[r] = cmds[r] /\ evts'[r] = evts[r]
        /\ UNCHANGED <<rows, gone, copies>>
    BY <1>5, ReconnectSteps
  <2>2. \A c : ~Has(cmds'[s], c)
    BY <2>1, HasEmpty
  <2>3. \A c : Has(evts'[s], c) => c = ConnEvt
    BY <2>1, HasOne
  <2>4. \A x : Done(x, TRUE) # ConnEvt
    BY DEF Done, ConnEvt
  <2> HIDE DEF Has
  <2> QED BY <2>1, <2>2, <2>3, <2>4
<1>6. ASSUME NEW s \in Tab, Drain(s) PROVE Rel
  <2>1. PICK e \in Evt :
         /\ Has(evts[s], e)
         /\ OnConnected(s, e) \/ OnDisconnected(s, e) \/ OnStart(e) \/ OnDone(e)
         /\ \A d : Has(evts[s], d) <=> d = e \/ Has(evts'[s], d)
         /\ \A r \in Tab : r # s => evts'[r] = evts[r]
         /\ UNCHANGED <<gone, copies>>
    BY <1>6, DrainSteps
  <2>2. \A r \in Tab : \A d : Has(evts'[r], d) => Has(evts[r], d)
    BY <2>1
  <2>3. ASSUME \A x \in Xfer : rows'[x].ok = "ok" => rows[x].ok = "ok" \/ (Landed(x) /\ Known(x)),
               \A r \in Tab : \A c \in Cmd : Has(cmds'[r], c) => Has(cmds[r], c) \/ c.op = "start"
        PROVE  Rel
    BY <2>1, <2>2, <2>3
  <2>4. CASE OnConnected(s, e)
    <3>1. /\ \A r \in Tab : r # s => cmds'[r] = cmds[r]
          /\ \A c : Has(cmds'[s], c) => Has(cmds[s], c) \/ \E x \in Resent(s) : c = Start(x)
          /\ \A x \in Xfer : rows'[x] = IF x \in Resent(s) THEN [rows[x] EXCEPT !.paused = FALSE]
                                       ELSE rows[x]
      BY <1>6, <2>4, ConnectedSteps
    <3>2. \A x \in Xfer : rows'[x].ok = rows[x].ok
      BY <1>0, <3>1 DEF RowT
    <3>3. \A r \in Tab : \A c \in Cmd : Has(cmds'[r], c) => Has(cmds[r], c) \/ c.op = "start"
      BY <3>1, StartCmd DEF Resent
    <3> QED BY <2>3, <3>2, <3>3
  <2>5. CASE OnDisconnected(s, e)
    <3>1. /\ cmds' = cmds
          /\ \A x \in Xfer :
              rows'[x] = IF Owner(x) = s /\ rows[x].present /\ rows[x].spec /\ rows[x].ok # "ok"
                         THEN [rows[x] EXCEPT !.ok = "open", !.paused = TRUE] ELSE rows[x]
      BY <1>6, <2>5, DisconnectedSteps
    <3>2. \A x \in Xfer : rows'[x].ok = "ok" => rows[x].ok = "ok"
      BY <1>0, <3>1 DEF RowT
    <3> QED BY <2>3, <3>1, <3>2
  <2>6. CASE OnStart(e)
    <3>1. /\ cmds' = cmds /\ e.x \in Xfer
          /\ rows'[e.x] = IF rows[e.x].present THEN [rows[e.x] EXCEPT !.queued = FALSE] ELSE Row
          /\ \A y \in Xfer : y # e.x => rows'[y] = rows[y]
      BY <1>6, <2>6, StartSteps
    <3>2. rows'[e.x].ok = "ok" => rows[e.x].ok = "ok"
      BY <1>0, <3>1, RowTypes DEF RowT
    <3>3. \A x \in Xfer : rows'[x].ok = "ok" => rows[x].ok = "ok"
      BY <3>1, <3>2
    <3> QED BY <2>3, <3>1, <3>3
  <2>7. CASE OnDone(e)
    <3>1. /\ cmds' = cmds /\ e.ev = "done" /\ e.x \in Xfer
          /\ ~rows[e.x].present => rows' = rows
          /\ rows[e.x].present =>
               \/ rows[e.x].spec /\ rows'[e.x] = [rows[e.x] EXCEPT !.paused = TRUE, !.queued = FALSE]
               \/ \E ok \in {"ok", "fail"} :
                   /\ rows'[e.x] = [rows[e.x] EXCEPT !.ok = ok, !.queued = FALSE]
                   /\ ok = "ok" => e = Done(e.x, TRUE)
          /\ \A y \in Xfer : y # e.x => rows'[y] = rows[y]
      BY <1>6, <2>7, DoneSteps
    <3>2. rows'[e.x].ok = "ok" => rows[e.x].ok = "ok" \/ e = Done(e.x, TRUE)
      BY <1>0, <3>1 DEF RowT
    <3>3. e = Done(e.x, TRUE) => Landed(e.x) /\ Known(e.x)
      <4>1. e = Done(e.x, TRUE) => Landed(e.x)
        BY <2>1, <3>1 DEF LandInv
      <4>2. Known(e.x)
        BY <2>1, <3>1, EvtHere
      <4> QED BY <4>1, <4>2
    <3>4. \A x \in Xfer : rows'[x].ok = "ok" => rows[x].ok = "ok" \/ (Landed(x) /\ Known(x))
      BY <3>1, <3>2, <3>3
    <3> QED BY <2>3, <3>1, <3>4
  <2> QED BY <2>1, <2>4, <2>5, <2>6, <2>7
<1>7. ASSUME NEW s \in Tab, Take(s) PROVE Rel
  <2>1. PICK c \in Cmd :
              /\ Has(cmds[s], c)
              /\ \A d : Has(cmds[s], d) <=> d = c \/ Has(cmds'[s], d)
              /\ gone' = gone \/ (c.op = "delete" /\ gone' = gone \union {s})
    BY <1>7, TakeSteps
  <2>2. evts' = evts /\ rows' = rows /\ copies' = copies
        /\ \A r \in Tab : r # s => cmds'[r] = cmds[r]
    BY <1>7, TakeSteps
  <2>3. c.op = "delete" => Copied(s)
    BY <2>1 DEF LandInv
  <2> QED BY <2>1, <2>2, <2>3
<1>8. ASSUME NEW s \in Tab, Lose(s) PROVE Rel
  <2>1. /\ cmds'[s] = <<>>
        /\ \A r \in Tab : r # s => cmds'[r] = cmds[r]
        /\ Report(s, LostEvt)
        /\ UNCHANGED <<rows, gone, copies>>
    BY <1>8, LoseSteps
  <2>2. \A r \in Tab : \A d : Has(evts'[r], d) => Has(evts[r], d) \/ d = LostEvt
    BY <2>1, EvtTypes, ReportHas DEF Base
  <2>3. \A x : Done(x, TRUE) # LostEvt
    BY DEF Done, LostEvt
  <2>4. \A r \in Tab : \A d : Has(cmds'[r], d) => Has(cmds[r], d)
    BY <2>1, HasEmpty
  <2> QED BY <2>1, <2>2, <2>3, <2>4
<1>9. ASSUME NEW t \in tasks, Announce(t) PROVE Rel
  <2>1. /\ Report(Owner(t.x), Begins(t.x)) /\ UNCHANGED <<cmds, rows, gone, copies>>
    BY <1>9, AnnounceSteps
  <2>2. Owner(t.x) \in Tab /\ Begins(t.x) \in Evt
    BY TaskParts, EvtTypes
  <2>3. \A r \in Tab : \A d : Has(evts'[r], d) => Has(evts[r], d) \/ d = Begins(t.x)
    BY <2>1, <2>2, ReportHas DEF Base
  <2>4. \A x : Done(x, TRUE) # Begins(t.x)
    BY DEF Done, Begins
  <2> QED BY <2>1, <2>3, <2>4
<1>10. ASSUME NEW t \in tasks, Succeed(t) \/ Fail(t) PROVE Rel
  <2>1. /\ IF t.old THEN evts' = evts
           ELSE \E ok \in BOOLEAN : Report(Owner(t.x), Done(t.x, ok)) /\ (ok => Succeed(t))
        /\ copies \subseteq copies' /\ UNCHANGED <<cmds, rows, gone>>
    BY <1>10, EndSteps
  <2>2. Owner(t.x) \in Tab /\ t.x \in Xfer /\ (Succeed(t) => Landed(t.x)')
    BY TaskParts, SucceedLands
  <2>3. \A r \in Tab : \A x \in Xfer : Has(evts'[r], Done(x, TRUE)) =>
           Has(evts[r], Done(x, TRUE)) \/ Landed(x)'
    <3>1. ASSUME NEW ok \in BOOLEAN, Report(Owner(t.x), Done(t.x, ok)), ok => Succeed(t)
          PROVE  \A r \in Tab : \A x \in Xfer : Has(evts'[r], Done(x, TRUE)) =>
                    Has(evts[r], Done(x, TRUE)) \/ Landed(x)'
      <4>1. Done(t.x, ok) \in Evt
        BY <2>2, EvtTypes
      <4>2. \A r \in Tab : \A d : Has(evts'[r], d) => Has(evts[r], d) \/ d = Done(t.x, ok)
        BY <2>2, <3>1, <4>1, ReportHas DEF Base
      <4>3. \A x \in Xfer : Done(x, TRUE) = Done(t.x, ok) => x = t.x /\ ok
        BY DEF Done
      <4>4. \A x \in Xfer : Done(x, TRUE) = Done(t.x, ok) => Landed(x)'
        BY <2>2, <3>1, <4>3
      <4> QED BY <4>2, <4>4
    <3> QED BY <2>1, <3>1
  <2> QED BY <2>1, <2>3
<1>11. ASSUME UNCHANGED <<link, online, cmds, evts, tasks, rows, job, plan, disk, cut>>
       PROVE  Rel
  <2>1. UNCHANGED <<cmds, evts, rows, gone, copies>>
    BY <1>11 DEF disk
  <2> QED BY <2>1
<1>12. ASSUME UNCHANGED vars PROVE Rel
  <2>1. UNCHANGED <<cmds, evts, rows, gone, copies>>
    BY <1>12 DEF vars, disk
  <2> QED BY <2>1
<1>13. Rel
  <2> HIDE DEF Rel
  <2> QED BY <1>1, <1>2, <1>3, <1>4, <1>5, <1>6, <1>7, <1>8, <1>9, <1>10, <1>11, <1>12
          DEF Quietly, Work
<1>14. Kept
  BY BaseQuietly
<1> QED BY <1>13, <1>14, LandKept

LEMMA LandNext ==
  ASSUME Base, LandInv, [Next]_vars
  PROVE  LandInv'
  BY Steps, LandEntered, LandAdvanced, LandQuietly

LEMMA LandInit == Init => LandInv
  BY InitParts, HasEmpty, RowTypes DEF LandInv

-----------------------------------------------------------------------------
(* A job that waits is heard, or was cut off.                                 *)

LEMMA FollowsSame ==
  ASSUME job' = job, SamePlans, NEW p \in Paste
  PROVE  Follows(p)' = Follows(p) /\ (Waiting(p)' <=> Waiting(p))
  BY DEF SamePlans, Follows, Waiting, Src, Dst

LEMMA HeardEntered ==
  ASSUME Base, HeardInv, NEW p \in Paste, NEW pl \in Plan, Entered(p, pl)
  PROVE  HeardInv'
<1> DEFINE c == Start(First(p, pl))
           s == FirstTab(pl)
<1>1. /\ plan'[p] = pl /\ (\A q \in Paste \ {p} : plan'[q] = plan[q] /\ job'[q] = job[q])
      /\ First(p, pl) \in {Src(p), Dst(p)} /\ Owner(First(p, pl))' = s /\ s \in Tab
      /\ \A x \in Xfer : x[1] # p => rows'[x] = rows[x] /\ Owner(x)' = Owner(x)
  BY EnteredParts
<1>2. c \in Cmd
  BY <1>1, XferParts, StartCmd
<1>3. /\ \A r \in Tab : \A d : Has(cmds[r], d) => Has(cmds'[r], d)
      /\ link[s] = "up" => Has(cmds'[s], c)
  BY <1>1, <1>2, SentGrows DEF Entered, Base
<1>4. link' = link /\ evts' = evts /\ tasks' = tasks
      /\ cut' = IF link[s] = "up" THEN cut ELSE [cut EXCEPT ![p] = "offline"]
  BY DEF Entered, CutBy
<1>5. cut \in [Paste -> {"none", "offline", "replaced", "norow"}]
  BY DEF Base, Typed
<1> SUFFICES ASSUME NEW q \in Paste, Waiting(q)', HangsAt(q, Follows(q))'
             PROVE  Saved(Follows(q))'
  BY DEF HeardInv, Heard
<1>6. CASE q = p
  <2>1. Follows(p)' = First(p, pl)
    <3>1. CASE pl.kind = "relay"
      BY <1>1, <3>1 DEF Entered, First, Follows, Src, Dst
    <3>2. CASE pl.kind = "direct"
      BY <1>1, <3>2 DEF Entered, First, Follows, Src, Dst
    <3>3. CASE pl.kind = "local"
      <4>1. job'[p] = "local"
        BY <1>6, <3>3 DEF Entered, Waiting
      <4> QED BY <1>1, <3>3, <4>1 DEF First, Follows, Src, Dst
    <3> QED BY <3>1, <3>2, <3>3 DEF Entered, Kinds
  <2>2. link[s] = "up"
    BY <1>4, <1>5, <1>6 DEF HangsAt
  <2>3. Has(cmds'[s], c)
    BY <1>3, <2>2
  <2>4. Has(cmds'[Owner(First(p, pl))'], c)
    BY <1>1, <2>3
  <2> QED BY <1>6, <2>1, <2>4 DEF Saved, Start
<1>7. CASE q # p
  <2>1. Follows(q)' = Follows(q) /\ (Waiting(q)' <=> Waiting(q))
    BY <1>1, <1>7 DEF Follows, Waiting, Src, Dst
  <2>2. PICK x \in Xfer : x = Follows(q) /\ x[1] # p
    BY <1>7, FollowsXfer, XferParts
  <2>3. rows'[x] = rows[x] /\ Owner(x)' = Owner(x) /\ Owner(x) \in Tab
    BY <1>1, <2>2, OwnerTab DEF Base
  <2>4. cut'[q] = cut[q]
    BY <1>4, <1>5, <1>7
  <2>5. HangsAt(q, x)
    BY <1>4, <2>1, <2>2, <2>3, <2>4 DEF HangsAt, Open
  <2>6. Saved(x)
    BY <2>1, <2>2, <2>5 DEF HeardInv, Heard
  <2>7. Saved(x)'
    BY <1>3, <1>4, <2>3, <2>6 DEF Saved, Runs, Start, Ends, Done, LostEvt
  <2> QED BY <2>1, <2>2, <2>7
<1> QED BY <1>6, <1>7

LEMMA HeardAdvanced ==
  ASSUME Base, HeardInv, NEW p \in Paste, Advanced(p)
  PROVE  HeardInv'
<1>1. /\ (\A q \in Paste \ {p} : job'[q] = job[q])
      /\ \A x \in Xfer : x # Dst(p) => rows'[x] = rows[x]
      /\ link' = link /\ evts' = evts /\ tasks' = tasks /\ plan' = plan
  BY DEF Advanced
<1>2. \A x \in Xfer : Owner(x)' = Owner(x) /\ Owner(x) \in Tab
  BY <1>1, OwnerTab DEF Owner, Base
<1>3. Dst(p) \in Xfer /\ Owner(Dst(p)) = plan[p].dst /\ plan[p].dst \in Tab /\ plan[p].src \in Tab
  BY XferParts, Owners DEF Base
<1>4. cut \in [Paste -> {"none", "offline", "replaced", "norow"}]
  BY DEF Base, Typed
<1>5. /\ \A r \in Tab : \A d : Has(cmds[r], d) => Has(cmds'[r], d)
      /\ Uploading(p) /\ link[plan[p].dst] = "up" => Has(cmds'[plan[p].dst], Start(Dst(p)))
  <2>1. CASE Uploading(p)
    BY <1>3, <2>1, JobPlan, SentGrows DEF Uploading, Base
  <2>2. CASE Ending(p)
    <3>1. job'[p] = "ended" /\ (cmds' = cmds \/ Send(plan[p].src, Deletes(p)))
      BY <2>2 DEF Ending
    <3>2. \A r \in Tab : \A d : Has(cmds[r], d) => Has(cmds'[r], d)
      BY <1>3, <3>1, JobPlan, SentGrows DEF Base
    <3> QED BY <3>1, <3>2 DEF Uploading
  <2> QED BY <2>1, <2>2 DEF Advanced
<1>6. \A q \in Paste : q # p => cut'[q] = cut[q]
  BY <1>4 DEF Advanced, Uploading, Ending, CutBy
<1> SUFFICES ASSUME NEW q \in Paste, Waiting(q)', HangsAt(q, Follows(q))'
             PROVE  Saved(Follows(q))'
  BY DEF HeardInv, Heard
<1>7. CASE q = p
  <2>1. Uploading(p) /\ job'[p] = "up"
    BY <1>7 DEF Advanced, Ending, Uploading, Waiting
  <2>2. Follows(p)' = Dst(p)
    BY <2>1 DEF Follows, Dst
  <2>3. link[plan[p].dst] = "up"
    BY <1>4, <1>7, <2>1 DEF HangsAt, Uploading, CutBy
  <2>4. Has(cmds'[Owner(Dst(p))'], Start(Dst(p)))
    BY <1>2, <1>3, <1>5, <2>1, <2>3
  <2> QED BY <1>7, <2>2, <2>4 DEF Saved, Start, Dst
<1>8. CASE q # p
  <2>1. Follows(q)' = Follows(q) /\ (Waiting(q)' <=> Waiting(q))
    BY <1>1, <1>8 DEF Follows, Waiting, Src, Dst
  <2>2. PICK x \in Xfer : x = Follows(q) /\ x # Dst(p)
    BY <1>8, FollowsXfer, XferParts
  <2>3. rows'[x] = rows[x] /\ Owner(x)' = Owner(x) /\ Owner(x) \in Tab /\ cut'[q] = cut[q]
    BY <1>1, <1>2, <1>6, <1>8, <2>2
  <2>5. HangsAt(q, x)
    BY <1>1, <2>1, <2>2, <2>3 DEF HangsAt, Open
  <2>6. Saved(x)
    BY <2>1, <2>2, <2>5 DEF HeardInv, Heard
  <2>7. Saved(x)'
    BY <1>1, <1>5, <2>3, <2>6 DEF Saved, Runs, Start, Ends, Done, LostEvt
  <2> QED BY <2>1, <2>2, <2>7
<1> QED BY <1>7, <1>8

\* The other steps, seen from the transfer x that job p waits for.
LEMMA HeardQuietly ==
  ASSUME Base, HeardInv, Quietly, NEW p \in Paste
  PROVE  Heard(p)'
<1>0. /\ job' = job /\ SamePlans
      /\ \A x \in Xfer : Owner(x)' = Owner(x)
      /\ Follows(p)' = Follows(p) /\ (Waiting(p)' <=> Waiting(p))
  BY BaseQuietly, FollowsSame
<1>1. PICK x \in Xfer : x = Follows(p)
  BY FollowsXfer
<1>2. PICK o \in Tab : o = Owner(x)
  BY OwnerTab DEF Base
<1>3. /\ rows[x] \in RowT
      /\ rows[x].spec \/ rows[x].paused => rows[x].present
      /\ x[1] = p
      /\ cut \in [Paste -> {"none", "offline", "replaced", "norow"}]
  <2>1. Typed
    BY DEF Base
  <2>2. rows[x] \in RowT /\ cut \in [Paste -> {"none", "offline", "replaced", "norow"}]
    BY <2>1 DEF Typed
  <2>3. rows[x].spec \/ rows[x].paused => rows[x].present
    BY RowHere
  <2>4. x[1] = p
    BY <1>1, FollowsXfer, XferParts
  <2> QED BY <2>2, <2>3, <2>4
<1> DEFINE Now == /\ link[o] # "closed" /\ (rows[x].present => rows[x].ok = "open")
                  /\ ~rows[x].paused /\ cut[p] = "none"
           Then == /\ link'[o] # "closed" /\ (rows'[x].present => rows'[x].ok = "open")
                   /\ ~rows'[x].paused /\ cut'[p] = "none"
           Sent1 == Has(cmds[o], Start(x))
           Runs1 == \E t \in tasks : Runs(t, x)
           Ends1 == \E d \in Ends(x) : Has(evts[o], d)
           Lost1 == rows[x].spec /\ Has(evts[o], LostEvt)
           Safe2 == \/ Has(cmds'[o], Start(x))
                    \/ \E t \in tasks' : t.x = x /\ ~t.old
                    \/ \E d \in Ends(x) : Has(evts'[o], d)
                    \/ rows'[x].spec /\ Has(evts'[o], LostEvt)
<1>4. Waiting(p) /\ Now => Sent1 \/ Runs1 \/ Ends1 \/ Lost1
  <2>1. Heard(p)
    BY DEF HeardInv
  <2> QED BY <1>1, <1>2, <2>1 DEF Heard, HangsAt, Saved, Open
<1>5. SUFFICES ASSUME Waiting(p), Then PROVE Safe2
  <2>1. HangsAt(p, x)' <=> Then
    BY <1>0, <1>2 DEF HangsAt, Open
  <2>2. Safe2 => Saved(x)'
    BY <1>0, <1>2 DEF Saved, Runs, Start, Ends, Done, LostEvt
  <2>3. Heard(p)' <=> (Waiting(p) /\ HangsAt(p, x)' => Saved(x)')
    BY <1>0, <1>1 DEF Heard
  <2> HIDE DEF Then, Safe2
  <2> QED BY <2>1, <2>2, <2>3
\* Steps which leave the row and what comes for it.
<1>6. ASSUME link'[o] # "closed" => link[o] # "closed", rows'[x] = rows[x], cut'[p] = cut[p],
             \A d : Has(cmds[o], d) => Has(cmds'[o], d),
             \A d : Has(evts[o], d) => Has(evts'[o], d),
             \A t \in tasks : t.x = x /\ ~t.old => \E u \in tasks' : u.x = x /\ ~u.old
      PROVE  Safe2
  BY <1>4, <1>5, <1>6 DEF Runs
<1>7. ASSUME NEW y \in Xfer, Cancel(y) PROVE Safe2
  <2>1. /\ UNCHANGED <<link, evts, tasks, rows, cut>>
        /\ \/ cmds' = cmds
           \/ \E z \in Xfer : Send(Owner(z), CancelCmd(z))
    BY <1>7, CancelSteps
  <2>2. \A d : Has(cmds[o], d) => Has(cmds'[o], d)
    <3>1. ASSUME NEW z \in Xfer, Send(Owner(z), CancelCmd(z))
          PROVE  \A d : Has(cmds[o], d) => Has(cmds'[o], d)
      <4>1. CancelCmd(z) \in Cmd /\ Owner(z) \in Tab
        BY OwnerTab DEF CancelCmd, Cmd, Base
      <4> QED BY <3>1, <4>1, SentGrows DEF Base
    <3> QED BY <2>1, <3>1
  <2> QED BY <1>6, <2>1, <2>2
<1>8. ASSUME NEW y \in Xfer, Resume(y) PROVE Safe2
  <2>1. /\ Send(Owner(y), Start(y)) /\ CutBy(y[1], Owner(y), "offline")
        /\ \A z \in Xfer : z # y => rows'[z] = rows[z]
        /\ UNCHANGED <<link, evts, tasks>>
    BY <1>8, ResumeSteps
  <2>2. Start(y) \in Cmd /\ Owner(y) \in Tab
    BY StartCmd, OwnerTab DEF Base
  <2>3. /\ \A d : Has(cmds[o], d) => Has(cmds'[o], d)
        /\ link[Owner(y)] = "up" => Has(cmds'[Owner(y)], Start(y))
    BY <2>1, <2>2, SentGrows DEF Base
  <2>4. cut'[p] = cut[p] /\ (y = x => link[o] = "up")
    <3>1. cut' = IF link[Owner(y)] = "up" THEN cut ELSE [cut EXCEPT ![y[1]] = "offline"]
      BY <2>1 DEF CutBy
    <3>2. cut'[p] = cut[p] \/ cut'[p] = "offline"
      BY <1>3, <3>1
    <3>3. cut'[p] = "none"
      BY <1>5
    <3>4. y = x => link[o] = "up"
      BY <1>2, <1>3, <3>1, <3>3
    <3> QED BY <3>2, <3>3, <3>4
  <2>5. CASE y = x
    BY <1>2, <2>3, <2>4, <2>5
  <2>6. CASE y # x
    BY <1>6, <2>1, <2>3, <2>4, <2>6
  <2> QED BY <2>5, <2>6
<1>9. ASSUME NEW y \in Xfer, Remove(y) PROVE Safe2
  <2>1. /\ Quiet /\ Open(Owner(y)) /\ rows[y].present /\ rows[y].ok # "open"
        /\ \A z \in Xfer : z # y => rows'[z] = rows[z]
        /\ UNCHANGED <<link, cmds, evts, tasks, cut>>
    BY <1>9, RemoveSteps
  <2>2. y # x
    <3>1. SUFFICES ASSUME y = x PROVE FALSE
      OBVIOUS
    <3>2. Outcome(x) = rows[x].ok /\ rows[x].ok \in {"ok", "fail"}
      BY <1>3, <2>1, <3>1 DEF Outcome, RowT
    <3>3. Step(p) = rows[x].ok
      BY <1>1, <3>2 DEF Step
    <3> QED BY <1>5, <2>1, <3>2, <3>3 DEF Quiet, Ready
  <2> QED BY <1>6, <2>1, <2>2
<1>10. ASSUME NEW s \in Tab, Unseen(s), rows'[x] = rows[x], cut'[p] = cut[p], o # s,
              link'[o] = link[o], evts'[o] = evts[o], cmds'[o] = cmds[o]
       PROVE  Safe2
  <2>1. \A t \in tasks : t.x = x /\ ~t.old => t \in tasks'
    BY <1>2, <1>10 DEF Unseen
  <2> QED BY <1>6, <1>10, <2>1
<1>11. ASSUME NEW s \in Tab, Close(s) PROVE Safe2
  <2>1. /\ Unseen(s) /\ cut' = cut /\ link'[s] = "closed"
        /\ \A r \in Tab : r # s => cmds'[r] = cmds[r] /\ evts'[r] = evts[r] /\ link'[r] = link[r]
        /\ \A y \in Xfer : rows'[y] = IF Owner(y) = s THEN NoRow ELSE rows[y]
    BY <1>11, CloseSteps
  <2>2. o # s
    BY <1>5, <2>1
  <2> QED BY <1>2, <1>10, <2>1, <2>2
<1>12. ASSUME NEW s \in Tab, Reconnect(s) PROVE Safe2
  <2>1. /\ Unseen(s) /\ rows' = rows
        /\ \A r \in Tab : r # s => cmds'[r] = cmds[r] /\ evts'[r] = evts[r] /\ link'[r] = link[r]
        /\ cut'[p] = IF Waiting(p) /\ Owner(Follows(p)) = s /\ ~rows[Follows(p)].paused
                     THEN "replaced" ELSE cut[p]
    BY <1>12, ReconnectSteps
  <2>2. o # s /\ cut'[p] = cut[p]
    BY <1>1, <1>2, <1>5, <2>1
  <2> QED BY <1>10, <2>1, <2>2
<1>13. ASSUME NEW s \in Tab, Drain(s) PROVE Safe2
  <2>1. PICK e \in Evt :
         /\ Has(evts[s], e)
         /\ OnConnected(s, e) \/ OnDisconnected(s, e) \/ OnStart(e) \/ OnDone(e)
         /\ \A d : Has(evts[s], d) <=> d = e \/ Has(evts'[s], d)
         /\ \A r \in Tab : r # s => evts'[r] = evts[r]
         /\ link' = link /\ tasks' = tasks
    BY <1>13, DrainSteps
  <2>2. \A d : Has(evts[o], d) /\ d # e => Has(evts'[o], d)
    BY <2>1
  <2>3. e.ev # "done" => e \notin Ends(x)
    BY DEF Ends, Done
  <2>4. e.ev # "disconnected" => e # LostEvt
    BY DEF LostEvt
  \* Everything but e stays on its way.
  <2>5. ASSUME rows'[x] = rows[x], cut'[p] = cut[p], e \notin Ends(x), e # LostEvt \/ ~rows[x].spec,
               \A d : Has(cmds[o], d) => Has(cmds'[o], d)
        PROVE  Safe2
    BY <1>4, <1>5, <2>1, <2>2, <2>5 DEF Runs
  <2>6. CASE OnConnected(s, e)
    <3>1. /\ e.ev = "connected"
          /\ \A r \in Tab : r # s => cmds'[r] = cmds[r]
          /\ \A c : Has(cmds[s], c) => Has(cmds'[s], c)
          /\ link[s] = "up" => \A y \in Resent(s) : Has(cmds'[s], Start(y))
          /\ rows'[x] = IF x \in Resent(s) THEN [rows[x] EXCEPT !.paused = FALSE] ELSE rows[x]
          /\ cut'[p] = IF link[s] # "up" /\ \E y \in Resent(s) : y[1] = p
                       THEN "offline" ELSE cut[p]
      BY <1>13, <2>6, ConnectedSteps
    <3>2. CASE x \in Resent(s)
      <4>1. o = s
        BY <1>2, <3>2 DEF Resent
      <4>2. link[s] = "up"
        BY <1>3, <1>5, <3>1, <3>2
      <4> QED BY <3>1, <3>2, <4>1, <4>2
    <3>3. CASE x \notin Resent(s)
      <4>1. \A d : Has(cmds[o], d) => Has(cmds'[o], d)
        BY <3>1
      <4>2. cut'[p] = cut[p]
        BY <1>5, <3>1
      <4>3. e \notin Ends(x) /\ e # LostEvt
        BY <2>3, <2>4, <3>1
      <4> QED BY <2>5, <3>1, <3>3, <4>1, <4>2, <4>3
    <3> QED BY <3>2, <3>3
  <2>7. CASE OnDisconnected(s, e)
    <3>1. /\ e.ev = "disconnected" /\ UNCHANGED <<cmds, cut>>
          /\ rows'[x] = IF Owner(x) = s /\ rows[x].present /\ rows[x].spec /\ rows[x].ok # "ok"
                        THEN [rows[x] EXCEPT !.ok = "open", !.paused = TRUE] ELSE rows[x]
      BY <1>13, <2>7, DisconnectedSteps
    <3>2. e \notin Ends(x)
      BY <2>3, <3>1
    <3>3. rows'[x] = rows[x]
      BY <1>3, <1>5, <3>1 DEF RowT
    <3>4. CASE o = s
      <4>1. ~rows[x].spec
        <5>1. rows[x].present => rows[x].ok = "open"
          BY <1>5, <3>3
        <5>2. ~(rows[x].present /\ rows[x].spec /\ rows[x].ok # "ok")
          <6>1. SUFFICES ASSUME rows[x].present, rows[x].spec, rows[x].ok # "ok" PROVE FALSE
            OBVIOUS
          <6>2. rows'[x] = [rows[x] EXCEPT !.ok = "open", !.paused = TRUE]
            BY <1>2, <3>1, <3>4, <6>1
          <6>3. rows'[x].paused
            BY <1>3, <6>2 DEF RowT
          <6> QED BY <1>5, <6>3
        <5> QED BY <1>3, <5>1, <5>2
      <4> QED BY <2>5, <3>1, <3>2, <3>3, <4>1
    <3>5. CASE o # s
      BY <1>6, <2>1, <3>1, <3>3, <3>5
    <3> QED BY <3>4, <3>5
  <2>8. CASE OnStart(e)
    <3>1. /\ e.ev = "start" /\ e.x \in Xfer /\ UNCHANGED <<cmds, cut>>
          /\ rows'[e.x] = IF rows[e.x].present THEN [rows[e.x] EXCEPT !.queued = FALSE] ELSE Row
          /\ \A y \in Xfer : y # e.x => rows'[y] = rows[y]
      BY <1>13, <2>8, StartSteps
    <3>2. e \notin Ends(x) /\ e # LostEvt
      BY <2>3, <2>4, <3>1
    <3>3. CASE e.x # x
      BY <2>5, <3>1, <3>2, <3>3
    <3>4. CASE e.x = x /\ rows[x].present
      <4>1. /\ rows'[x].present = rows[x].present /\ rows'[x].ok = rows[x].ok
            /\ rows'[x].paused = rows[x].paused /\ rows'[x].spec = rows[x].spec
        BY <1>3, <3>1, <3>4 DEF RowT
      <4> QED BY <1>4, <1>5, <2>1, <2>2, <3>1, <3>2, <4>1 DEF Runs
    <3>5. CASE e.x = x /\ ~rows[x].present
      <4>1. ~rows[x].paused /\ ~rows[x].spec
        BY <1>3, <3>5
      <4> QED BY <1>4, <1>5, <2>1, <2>2, <3>1, <3>2, <3>5, <4>1 DEF Runs
    <3> QED BY <3>3, <3>4, <3>5
  <2>9. CASE OnDone(e)
    <3>1. /\ e.ev = "done" /\ e.x \in Xfer /\ cmds' = cmds
          /\ rows[e.x].present =>
              \/ rows'[e.x] = [rows[e.x] EXCEPT !.paused = TRUE, !.queued = FALSE]
              \/ \E ok \in {"ok", "fail"} : rows'[e.x] = [rows[e.x] EXCEPT !.ok = ok, !.queued = FALSE]
          /\ \A y \in Xfer : y # e.x => rows'[y] = rows[y]
          /\ cut' = IF ~rows[e.x].present /\ Waiting(e.x[1]) /\ Follows(e.x[1]) = e.x
                    THEN [cut EXCEPT ![e.x[1]] = "norow"] ELSE cut
      BY <1>13, <2>9, DoneSteps
    <3>2. e.x # x
      <4>1. SUFFICES ASSUME e.x = x PROVE FALSE
        OBVIOUS
      <4>2. rows[x].present
        BY <1>1, <1>3, <1>5, <3>1, <4>1
      <4>3. rows'[x].paused \/ (rows'[x].present /\ rows'[x].ok # "open")
        BY <1>3, <3>1, <4>1, <4>2 DEF RowT
      <4> QED BY <1>5, <4>3
    <3>3. cut'[p] = cut[p]
      BY <1>1, <1>3, <3>1, <3>2, FollowsXfer, XferParts
    <3>4. e \notin Ends(x)
      <4>1. \A d \in Ends(x) : d.x = x
        BY DEF Ends, Done
      <4> QED BY <3>2, <4>1
    <3>5. e # LostEvt
      BY <2>4, <3>1
    <3> QED BY <2>5, <3>1, <3>2, <3>3, <3>4, <3>5
  <2> QED BY <2>1, <2>6, <2>7, <2>8, <2>9
<1>14. ASSUME NEW s \in Tab, Take(s) PROVE Safe2
  <2>1. PICK c \in Cmd :
              /\ \A d : Has(cmds[s], d) <=> d = c \/ Has(cmds'[s], d)
              /\ \/ /\ c = Start(c.x)
                    /\ \E n \in Task : /\ n.x = c.x /\ ~n.old
                                       /\ tasks' = tasks \union {n}
                 \/ c.op # "start" /\ Marked
                 \/ c.op # "start" /\ tasks' = tasks
    BY <1>14, TakeSteps
  <2>2. /\ link' = link /\ evts' = evts /\ rows' = rows /\ cut' = cut
        /\ \A r \in Tab : r # s => cmds'[r] = cmds[r]
    BY <1>14, TakeSteps
  <2>3. \A t \in tasks : t.x = x /\ ~t.old => \E u \in tasks' : u.x = x /\ ~u.old
    BY <2>1, MarkedRuns
  <2>4. CASE c = Start(x)
    <3>1. c.x = x /\ c.op = "start"
      BY <2>4, StartCmd
    <3> QED BY <2>1, <3>1
  <2>5. CASE c # Start(x)
    <3>1. Has(cmds[o], Start(x)) => Has(cmds'[o], Start(x))
      BY <2>1, <2>2, <2>5
    <3> QED BY <1>4, <1>5, <2>2, <2>3, <3>1 DEF Runs
  <2> QED BY <2>4, <2>5
<1>15. ASSUME NEW s \in Tab, Lose(s) PROVE Safe2
  <2>1. /\ Marked /\ link[s] = "up"
        /\ \A r \in Tab : r # s => cmds'[r] = cmds[r] /\ link'[r] = link[r]
        /\ Report(s, LostEvt) /\ rows' = rows
        /\ cut'[p] = IF Follower(p, s) /\ Has(cmds[s], Start(Follows(p)))
                     THEN "offline" ELSE cut[p]
    BY <1>15, LoseSteps
  <2>2. \A r \in Tab : \A d : Has(evts'[r], d) <=> Has(evts[r], d) \/ (d = LostEvt /\ r = s)
    BY <2>1, EvtTypes, Reported DEF Base
  <2>3. \A t \in tasks : t.x = x /\ ~t.old => \E u \in tasks' : u.x = x /\ ~u.old
    BY <2>1, MarkedRuns
  <2>4. cut'[p] = cut[p] /\ (o = s /\ Has(cmds[s], Start(x)) => rows[x].spec)
    BY <1>1, <1>2, <1>5, <2>1 DEF Follower
  <2>5. CASE o = s
    BY <1>4, <1>5, <2>1, <2>2, <2>3, <2>4, <2>5 DEF Runs
  <2>6. CASE o # s
    <3>1. \A d : Has(evts[o], d) => Has(evts'[o], d)
      BY <2>2
    <3> QED BY <1>6, <2>1, <2>3, <2>4, <2>6, <3>1
  <2> QED BY <2>5, <2>6
<1>16. ASSUME NEW t \in tasks, Announce(t) PROVE Safe2
  <2>1. /\ Report(Owner(t.x), Begins(t.x)) /\ UNCHANGED <<link, cmds, rows, cut>>
    BY <1>16, AnnounceSteps
  <2>2. Owner(t.x) \in Tab /\ Begins(t.x) \in Evt
    BY TaskParts, EvtTypes
  <2>3. \A d : Has(evts[o], d) => Has(evts'[o], d)
    BY <2>1, <2>2, Reported DEF Base
  <2>4. \A w \in tasks : w.x = x /\ ~w.old => \E u \in tasks' : u.x = x /\ ~u.old
    <3>1. PICK r \in Task : r.x = t.x /\ ~r.old /\ tasks' = (tasks \ {t}) \union {r}
      BY <1>16, AnnounceSteps
    <3> QED BY <3>1
  <2> QED BY <1>6, <2>1, <2>3, <2>4
<1>17. ASSUME NEW t \in tasks, Succeed(t) \/ Fail(t) PROVE Safe2
  <2>1. /\ tasks' = tasks \ {t}
        /\ IF t.old THEN evts' = evts
           ELSE \E ok \in BOOLEAN : Report(Owner(t.x), Done(t.x, ok))
        /\ UNCHANGED <<link, cmds, rows, cut>>
    BY <1>17, EndSteps
  <2>2. Owner(t.x) \in Tab /\ t.x \in Xfer
    BY TaskParts
  <2>3. CASE t.old
    BY <1>6, <2>1, <2>3
  <2>4. CASE ~t.old
    <3>1. PICK ok \in BOOLEAN : Report(Owner(t.x), Done(t.x, ok))
      BY <2>1, <2>4
    <3>2. Done(t.x, ok) \in Evt
      BY <2>2, EvtTypes
    <3>3. \A r \in Tab : \A d : Has(evts'[r], d) <=> Has(evts[r], d) \/ (d = Done(t.x, ok) /\ r = Owner(t.x))
      BY <2>2, <3>1, <3>2, Reported DEF Base
    <3>4. CASE t.x = x
      <4>1. Done(x, ok) \in Ends(x)
        BY DEF Ends
      <4>2. Has(evts'[o], Done(x, ok))
        BY <1>2, <3>3, <3>4
      <4> QED BY <4>1, <4>2
    <3>5. CASE t.x # x
      <4>1. \A d : Has(evts[o], d) => Has(evts'[o], d)
        BY <3>3
      <4> QED BY <1>6, <2>1, <3>5, <4>1
    <3> QED BY <3>4, <3>5
  <2> QED BY <2>3, <2>4
<1>18. ASSUME UNCHANGED <<link, cmds, evts, tasks, rows, cut>> PROVE Safe2
  BY <1>6, <1>18
<1>19. UNCHANGED vars => UNCHANGED <<link, cmds, evts, tasks, rows, cut>>
  BY DEF vars
<1> HIDE DEF Safe2
<1> QED BY <1>7, <1>8, <1>9, <1>11, <1>12, <1>13, <1>14, <1>15, <1>16, <1>17, <1>18, <1>19
        DEF Quietly, Work

-----------------------------------------------------------------------------
(* One attempt of a transfer that is never resent.                            *)

Goes(x) == Once(x)' /\ (Over(x) => Over(x)') /\ (Over(x) /\ ~Told(x) => ~Told(x)')

\* Nothing new for x: what is on its way for it stays or is lost.
CmdsLess(x, o) == /\ Has(cmds'[o], Start(x)) => Has(cmds[o], Start(x))
                  /\ Single(cmds'[o], Start(x))
TasksLess(x) ==
  /\ \A t \in tasks' : t.x = x /\ ~t.old => \E u \in tasks : Runs(u, x) /\ u.st = t.st
  /\ \A t, w \in tasks' : t.x = x /\ ~t.old /\ w.x = x /\ ~w.old => t = w
EvtsLess(x, o) ==
  /\ \A d \in Ends(x) \union {Begins(x)} : Has(evts'[o], d) => Has(evts[o], d)
  /\ InOrder(evts'[o], Begins(x), Ends(x))

LEMMA OnceParts ==
  ASSUME NEW x, NEW o, o = Owner(x)
  PROVE  /\ Once(x) <=>
              /\ Single(cmds[o], Start(x))
              /\ Has(cmds[o], Start(x)) => ~Told(x) /\ \A t \in tasks : ~Runs(t, x)
              /\ \A t, u \in tasks : Runs(t, x) /\ Runs(u, x) => t = u
              /\ \A t \in tasks : Runs(t, x) =>
                   /\ \A e \in Ends(x) : ~Has(evts[o], e)
                   /\ t.st = "new" => ~Has(evts[o], Begins(x))
              /\ InOrder(evts[o], Begins(x), Ends(x))
         /\ Told(x) <=> \E e \in Ends(x) \union {Begins(x)} : Has(evts[o], e)
         /\ Over(x) <=> /\ ~Has(cmds[o], Start(x))
                        /\ \A t \in tasks : ~Runs(t, x)
                        /\ ~Has(evts[o], Begins(x))
  BY DEF Once, Told, Over

LEMMA OnceNext ==
  ASSUME NEW x, NEW o, o = Owner(x)'
  PROVE  /\ Once(x)' <=>
              /\ Single(cmds'[o], Start(x))
              /\ Has(cmds'[o], Start(x)) => ~Told(x)' /\ \A t \in tasks' : ~(t.x = x /\ ~t.old)
              /\ \A t, u \in tasks' : t.x = x /\ ~t.old /\ u.x = x /\ ~u.old => t = u
              /\ \A t \in tasks' : t.x = x /\ ~t.old =>
                   /\ \A e \in Ends(x) : ~Has(evts'[o], e)
                   /\ t.st = "new" => ~Has(evts'[o], Begins(x))
              /\ InOrder(evts'[o], Begins(x), Ends(x))
         /\ Told(x)' <=> \E e \in Ends(x) \union {Begins(x)} : Has(evts'[o], e)
         /\ Over(x)' <=> /\ ~Has(cmds'[o], Start(x))
                         /\ \A t \in tasks' : ~(t.x = x /\ ~t.old)
                         /\ ~Has(evts'[o], Begins(x))
<1>1. Start(x)' = Start(x) /\ Begins(x)' = Begins(x) /\ Ends(x)' = Ends(x)
  BY DEF Start, Begins, Ends, Done
<1>2. \A t : Runs(t, x)' <=> t \in tasks' /\ t.x = x /\ ~t.old
  BY DEF Runs
<1>3. Told(x)' <=> \E e \in Ends(x) \union {Begins(x)} : Has(evts'[o], e)
  BY <1>1 DEF Told
<1>4. Over(x)' <=> /\ ~Has(cmds'[o], Start(x))
                   /\ \A t \in tasks' : ~(t.x = x /\ ~t.old)
                   /\ ~Has(evts'[o], Begins(x))
  BY <1>1, <1>2 DEF Over
<1>5. Once(x)' <=>
              /\ Single(cmds'[o], Start(x))
              /\ Has(cmds'[o], Start(x)) => ~Told(x)' /\ \A t \in tasks' : ~(t.x = x /\ ~t.old)
              /\ \A t, u \in tasks' : t.x = x /\ ~t.old /\ u.x = x /\ ~u.old => t = u
              /\ \A t \in tasks' : t.x = x /\ ~t.old =>
                   /\ \A e \in Ends(x) : ~Has(evts'[o], e)
                   /\ t.st = "new" => ~Has(evts'[o], Begins(x))
              /\ InOrder(evts'[o], Begins(x), Ends(x))
  BY <1>1, <1>2 DEF Once
<1> QED BY <1>3, <1>4, <1>5

LEMMA LessGoes ==
  ASSUME NEW x, NEW o, o = Owner(x), o = Owner(x)', Once(x),
         CmdsLess(x, o), TasksLess(x), EvtsLess(x, o)
  PROVE  Goes(x)
<1>1. Told(x)' => Told(x)
  BY OnceParts, OnceNext DEF EvtsLess
<1>2. Over(x) => Over(x)'
  BY OnceParts, OnceNext DEF CmdsLess, TasksLess, EvtsLess
<1>3. Has(cmds'[o], Start(x)) => ~Told(x)' /\ \A t \in tasks' : ~(t.x = x /\ ~t.old)
  BY <1>1, OnceParts DEF CmdsLess, TasksLess
<1>4. \A t \in tasks' : t.x = x /\ ~t.old =>
                   /\ \A e \in Ends(x) : ~Has(evts'[o], e)
                   /\ t.st = "new" => ~Has(evts'[o], Begins(x))
  BY OnceParts DEF TasksLess, EvtsLess
<1>5. Once(x)'
  BY <1>3, <1>4, OnceNext DEF CmdsLess, TasksLess, EvtsLess
<1> QED BY <1>1, <1>2, <1>5 DEF Goes

LEMMA TasksStay ==
  ASSUME NEW x, Once(x), tasks' \subseteq tasks \/ Marked \/ \E s : Unseen(s)
  PROVE  TasksLess(x)
<1>1. \A t, u \in tasks : t.x = x /\ ~t.old /\ u.x = x /\ ~u.old => t = u
  BY DEF Once, Runs
<1>2. CASE tasks' \subseteq tasks
  BY <1>1, <1>2 DEF TasksLess, Runs
<1>3. CASE Marked
  <2>1. ASSUME NEW t \in tasks', NEW w \in tasks', t.x = x, ~t.old, w.x = x, ~w.old
        PROVE  t = w /\ \E u \in tasks : Runs(u, x) /\ u.st = t.st
    <3>1. PICK u \in tasks, v \in tasks :
            /\ t.x = u.x /\ t.st = u.st /\ t.old = u.old
            /\ w.x = v.x /\ w.st = v.st /\ w.old = v.old
            /\ u = v => t = w
      BY <1>3 DEF Marked
    <3>2. u.x = x /\ ~u.old /\ v.x = x /\ ~v.old
      BY <2>1, <3>1, Zenon
    <3>3. t = w
      BY <1>1, <3>1, <3>2
    <3> QED BY <3>1, <3>2, <3>3 DEF Runs
  <2> QED BY <2>1 DEF TasksLess
<1>4. CASE \E s : Unseen(s)
  <2>1. \A t \in tasks' : ~t.old => t \in tasks
    BY <1>4 DEF Unseen
  <2> QED BY <1>1, <2>1 DEF TasksLess, Runs
<1> QED BY <1>2, <1>3, <1>4

LEMMA CmdsStay ==
  ASSUME NEW x, NEW o, o = Owner(x), Once(x), cmds'[o] = cmds[o]
  PROVE  CmdsLess(x, o)
  BY OnceParts DEF CmdsLess

LEMMA EvtsStay ==
  ASSUME NEW x, NEW o, o = Owner(x), Once(x), evts'[o] = evts[o]
  PROVE  EvtsLess(x, o)
  BY OnceParts DEF EvtsLess

\* The start is sent, where nothing was before.
LEMMA OnceSent ==
  ASSUME Typed, NEW x \in Xfer, NEW o \in Tab, o = Owner(x)',
         \A t \in tasks : ~Runs(t, x),
         ~Has(cmds[o], Start(x)), Single(cmds[o], Start(x)),
         \A d \in Ends(x) \union {Begins(x)} : ~Has(evts[o], d),
         Send(o, Start(x)), tasks' = tasks, evts' = evts
  PROVE  Once(x)'
<1>1. Start(x) \in Cmd
  BY StartCmd
<1>2. Single(cmds'[o], Start(x))
  BY <1>1, Sent
<1>3. InOrder(evts'[o], Begins(x), Ends(x))
  BY DEF InOrder, Has
<1>4. ~Told(x)' /\ \A t \in tasks' : ~(t.x = x /\ ~t.old)
  BY OnceNext DEF Runs
<1> QED BY <1>2, <1>3, <1>4, OnceNext

LEMMA EvtsDistinct ==
  ASSUME NEW x, NEW y
  PROVE  /\ Begins(x) \notin Ends(y)
         /\ Begins(x) # LostEvt /\ Begins(x) # ConnEvt
         /\ LostEvt \notin Ends(x) /\ ConnEvt \notin Ends(x)
         /\ \A d \in Ends(x) : d.ev = "done" /\ d.x = x
         /\ Begins(x).ev = "start" /\ Begins(x).x = x
  BY DEF Begins, Ends, Done, LostEvt, ConnEvt

\* The worker takes the start.
LEMMA OnceTaken ==
  ASSUME NEW x, NEW o, o = Owner(x), o = Owner(x)', Once(x),
         Has(cmds[o], Start(x)), Single(cmds'[o], Start(x)), ~Has(cmds'[o], Start(x)),
         NEW n, n.x = x, tasks' = tasks \union {n}, evts' = evts
  PROVE  Goes(x)
<1>1. ~Over(x)
  BY OnceParts
<1>2. /\ \A t \in tasks : ~(t.x = x /\ ~t.old)
      /\ \A d \in Ends(x) \union {Begins(x)} : ~Has(evts[o], d)
      /\ InOrder(evts[o], Begins(x), Ends(x))
  BY OnceParts DEF Runs
<1>3. Once(x)'
  BY <1>2, OnceNext
<1> QED BY <1>1, <1>3 DEF Goes

\* The task announces its start.
LEMMA OnceAnnounced ==
  ASSUME Typed, NEW x \in Xfer, NEW o \in Tab, o = Owner(x), o = Owner(x)', Once(x),
         NEW t \in tasks, t.x = x, ~t.old, t.st = "new",
         NEW r, r.st = "run", tasks' = (tasks \ {t}) \union {r},
         cmds' = cmds, Report(o, Begins(x))
  PROVE  Goes(x)
<1>1. Runs(t, x)
  BY DEF Runs
<1>2. ~Over(x) /\ ~Has(cmds[o], Start(x)) /\ Single(cmds[o], Start(x))
  BY <1>1, OnceParts
<1>3. /\ \A e \in Ends(x) : ~Has(evts[o], e)
      /\ ~Has(evts[o], Begins(x))
      /\ InOrder(evts[o], Begins(x), Ends(x))
  BY <1>1, OnceParts
<1>4. /\ \A d : Has(evts'[o], d) <=> Has(evts[o], d) \/ d = Begins(x)
      /\ InOrder(evts'[o], Begins(x), Ends(x))
  <2>1. Begins(x) \in Evt
    BY EvtTypes
  <2>2. \A d : Has(evts'[o], d) <=> Has(evts[o], d) \/ d = Begins(x)
    BY <2>1, Reported
  <2>3. InOrder(evts'[o], Begins(x), Ends(x))
    BY <1>3, <2>1, EvtsDistinct, Reported
  <2> QED BY <2>2, <2>3
<1>5. \A e \in Ends(x) : ~Has(evts'[o], e)
  BY <1>3, <1>4, EvtsDistinct
<1>6. \A u \in tasks' : u.x = x /\ ~u.old => u = r
  BY <1>1, OnceParts DEF Runs
<1>7. Once(x)'
  BY <1>2, <1>4, <1>5, <1>6, OnceNext
<1> QED BY <1>2, <1>7 DEF Goes

\* The task ends and says so.
LEMMA OnceEnded ==
  ASSUME Typed, NEW x \in Xfer, NEW o \in Tab, o = Owner(x), o = Owner(x)', Once(x),
         NEW t \in tasks, t.x = x, ~t.old, tasks' = tasks \ {t},
         cmds' = cmds, NEW ok \in BOOLEAN, Report(o, Done(x, ok))
  PROVE  Goes(x)
<1>1. Runs(t, x)
  BY DEF Runs
<1>2. ~Over(x) /\ ~Has(cmds[o], Start(x)) /\ Single(cmds[o], Start(x))
      /\ InOrder(evts[o], Begins(x), Ends(x))
  BY <1>1, OnceParts
<1>3. \A u \in tasks' : ~(u.x = x /\ ~u.old)
  BY <1>1, OnceParts DEF Runs
<1>4. Done(x, ok) \in Evt /\ Done(x, ok) # Begins(x)
  BY EvtTypes DEF Done, Begins
<1>5. InOrder(evts'[o], Begins(x), Ends(x))
  BY <1>2, <1>4, EvtsDistinct, Reported
<1>6. Once(x)'
  BY <1>2, <1>3, <1>5, OnceNext
<1> QED BY <1>2, <1>6 DEF Goes

LEMMA SentLess ==
  ASSUME Typed, NEW s \in Tab, NEW c \in Cmd, Send(s, c),
         NEW x, c # Start(x), NEW o \in Tab, o = Owner(x), Once(x)
  PROVE  CmdsLess(x, o)
<1>1. Single(cmds[o], Start(x))
  BY OnceParts
<1>2. Single(cmds'[o], Start(x))
  BY <1>1, Sent
<1>3. Has(cmds'[o], Start(x)) => Has(cmds[o], Start(x))
  BY SentHas
<1> QED BY <1>2, <1>3 DEF CmdsLess

LEMMA StartsDiffer ==
  /\ \A x, y : Start(x) = Start(y) <=> x = y
  /\ \A x, p : Start(x) # Deletes(p)
  /\ \A x, y : Start(x) # CancelCmd(y)
  BY DEF Start, Deletes, CancelCmd

\* A row and its job, when the attempt goes on.
LEMMA PlainGoes ==
  ASSUME Base, NEW x \in Xfer, NEW o \in Tab, o = Owner(x), o = Owner(x)', PlainOK(x), Goes(x),
         job'[x[1]] = job[x[1]],
         link'[o] = "closed" => link[o] = "closed",
         rows'[x].ok # "open" => rows[x].ok # "open" \/ Over(x)',
         rows'[x] = rows[x] \/ ~rows'[x].present \/ ~Over(x) \/ (rows[x].present /\ rows'[x].ok # "open"),
         Waits(x) => rows'[x].ok = "open"
  PROVE  PlainOK(x)'
<1>1. (Passed(x)' <=> Passed(x)) /\ (Waits(x)' <=> Waits(x))
  BY DEF Passed, Waits
<1>2. Once(x)' /\ (Over(x) => Over(x)') /\ (Over(x) /\ ~Told(x) => ~Told(x)')
  BY DEF Goes
<1>3. link[o] = "closed" => Over(x) /\ ~rows[x].present
  BY DEF PlainOK
<1>4. rows'[x].ok # "open" => Over(x)'
  BY <1>2 DEF PlainOK
<1>5. Passed(x) => Over(x)' /\ (rows'[x].present => rows'[x].ok # "open")
  BY <1>2 DEF PlainOK
<1>6. Waits(x) => Over(x)' /\ ~Told(x)' /\ rows'[x].ok = "open"
  BY <1>2 DEF PlainOK
<1>7. link'[o] = "closed" => Over(x)' /\ ~rows'[x].present
  BY <1>2, <1>3 DEF PlainOK
<1> QED BY <1>1, <1>2, <1>4, <1>5, <1>6, <1>7 DEF PlainOK

LEMMA PlainEntered ==
  ASSUME Base, PlainInv, NEW p \in Paste, NEW pl \in Plan, Entered(p, pl), NEW x \in Xfer, Plain(x)'
  PROVE  PlainOK(x)'
<1>1. /\ plan'[p] = pl /\ (\A q \in Paste \ {p} : plan'[q] = plan[q] /\ job'[q] = job[q])
      /\ job[p] = "none"
      /\ First(p, pl) \in {Src(p), Dst(p)} /\ Owner(First(p, pl))' = FirstTab(pl) /\ FirstTab(pl) \in Tab
      /\ \A y \in Xfer : y[1] # p => rows'[y] = rows[y] /\ Owner(y)' = Owner(y) /\ (Known(y)' <=> Known(y))
  BY EnteredParts
<1>2. link' = link /\ tasks' = tasks /\ evts' = evts
      /\ Send(FirstTab(pl), Start(First(p, pl)))
  BY DEF Entered
<1>3. First(p, pl) \in Xfer /\ Start(First(p, pl)) \in Cmd /\ First(p, pl)[1] = p
  BY <1>1, XferParts, StartCmd
<1>4. CASE x[1] # p
  <2>1. x[1] \in Paste
    BY XferParts
  <2>2. Plain(x) /\ PlainOK(x) /\ Once(x)
    BY <1>1, <1>4, <2>1 DEF Plain, PlainInv, PlainOK
  <2>3. PICK o \in Tab : o = Owner(x) /\ o = Owner(x)'
    BY <1>1, <1>4, OwnerTab DEF Base
  <2>4. Start(First(p, pl)) # Start(x)
    BY <1>3, <1>4, StartsDiffer
  <2>5. CmdsLess(x, o)
    BY <1>1, <1>2, <1>3, <2>2, <2>3, <2>4, SentLess DEF Base
  <2>6. Goes(x)
    BY <1>2, <2>2, <2>3, <2>5, TasksStay, EvtsStay, LessGoes
  <2>7. job'[x[1]] = job[x[1]] /\ rows'[x] = rows[x]
    BY <1>1, <1>4, <2>1
  <2>8. Waits(x) => rows'[x].ok = "open"
    BY <2>2, <2>7 DEF PlainOK
  <2> QED BY <1>2, <2>2, <2>3, <2>6, <2>7, <2>8, PlainGoes
<1>5. CASE x[1] = p
  <2>1. ~Known(x) /\ x \in {Src(p), Dst(p)}
    BY <1>1, <1>5, XferParts DEF Known
  <2>2. /\ \A t \in tasks : ~Runs(t, x)
        /\ \A s \in Tab : ~Has(cmds[s], Start(x))
        /\ \A s \in Tab : \A d \in Ends(x) \union {Begins(x)} : ~Has(evts[s], d)
    <3>1. \A t \in tasks : ~Runs(t, x)
      BY <2>1, TaskParts DEF Runs
    <3>2. ASSUME NEW s \in Tab PROVE ~Has(cmds[s], Start(x))
      BY <2>1, StartCmd, CmdHere
    <3>3. ASSUME NEW s \in Tab, NEW d \in Ends(x) \union {Begins(x)} PROVE ~Has(evts[s], d)
      <4>1. d \in Evt /\ d.ev \in {"start", "done"} /\ d.x = x
        <5>1. TRUE \in BOOLEAN /\ FALSE \in BOOLEAN
          OBVIOUS
        <5>2. /\ Done(x, TRUE) \in Evt /\ Done(x, TRUE).ev = "done" /\ Done(x, TRUE).x = x
              /\ Done(x, FALSE) \in Evt /\ Done(x, FALSE).ev = "done" /\ Done(x, FALSE).x = x
          BY <5>1, EvtTypes, Zenon
        <5>3. Begins(x) \in Evt /\ Begins(x).ev = "start" /\ Begins(x).x = x
          BY EvtTypes
        <5> QED BY <5>2, <5>3 DEF Ends
      <4> QED BY <2>1, <4>1, EvtHere
    <3> QED BY <3>1, <3>2, <3>3
  <2>3. pl.kind # "local" /\ job'[p] \in {"down", "direct"}
    BY <1>1, <1>5 DEF Plain, Entered, Kinds
  <2>4. First(p, pl) = Src(p) /\ FirstTab(pl) = pl.src
    BY <2>3 DEF First, FirstTab
  <2>5. rows'[x].ok = "open"
    BY <2>1 DEF Entered
  <2>6. PICK o \in Tab : o = Owner(x)' /\ o \in {pl.src, pl.dst} /\ (x = Src(p) => o = pl.src)
    BY <1>1, <2>1, PlanParts DEF Owner, Src, Dst
  <2>7. link'[o] # "closed"
    BY <1>2, <2>6 DEF Entered, Open
  <2>8. Single(cmds[o], Start(x))
    BY <2>2 DEF Single, Has
  <2>9. CASE x = Src(p)
    <3>1. Send(o, Start(x))
      BY <1>2, <2>4, <2>6, <2>9
    <3>2. Once(x)'
      BY <1>2, <2>2, <2>6, <2>8, <3>1, OnceSent DEF Base
    <3>3. ~Passed(x)' /\ ~Waits(x)'
      BY <1>5, <2>3, <2>9, XferParts DEF Passed, Waits
    <3> QED BY <2>5, <2>6, <2>7, <3>2, <3>3 DEF PlainOK
  <2>10. CASE x = Dst(p)
    <3>1. Start(x) # Start(Src(p))
      BY <2>10, StartsDiffer, XferParts
    <3>2. Send(FirstTab(pl), Start(Src(p))) /\ Start(Src(p)) \in Cmd
      BY <1>2, <1>3, <2>4
    <3>3. ~Has(cmds'[o], Start(x))
      BY <1>1, <2>2, <3>1, <3>2, SentHas DEF Base
    <3>4. Single(cmds'[o], Start(x)) /\ InOrder(evts'[o], Begins(x), Ends(x))
      BY <1>2, <2>2, <3>3 DEF Single, InOrder, Has
    <3>5. Once(x)' /\ Over(x)' /\ ~Told(x)'
      BY <1>2, <2>2, <2>6, <3>3, <3>4, OnceNext DEF Runs
    <3>6. ~Passed(x)'
      BY <1>5, <2>3 DEF Passed
    <3> QED BY <2>5, <2>6, <2>7, <3>5, <3>6 DEF PlainOK
  <2> QED BY <2>1, <2>9, <2>10
<1> QED BY <1>4, <1>5

\* What a job has learnt of the row it follows.
LEMMA StepRow ==
  ASSUME Base, NEW p \in Paste, NEW x \in Xfer, x = Follows(p), Step(p) # "wait"
  PROVE  \/ rows[x].ok # "open" /\ rows[x].ok = Step(p)
         \/ Step(p) = "gone" /\ link[Owner(x)] = "closed"
<1>1. CASE Outcome(x) # "open"
  BY <1>1 DEF Step, Outcome
<1>2. CASE Outcome(x) = "open"
  BY <1>2 DEF Step, Open
<1> QED BY <1>1, <1>2

LEMMA PlainAdvanced ==
  ASSUME Base, PlainInv, NEW p \in Paste, Advanced(p), NEW x \in Xfer, Plain(x)'
  PROVE  PlainOK(x)'
<1>1. /\ Waiting(p) /\ Step(p) # "wait"
      /\ \A q \in Paste \ {p} : job'[q] = job[q]
      /\ \A y \in Xfer : y # Dst(p) => rows'[y] = rows[y]
      /\ link' = link /\ evts' = evts /\ tasks' = tasks /\ plan' = plan
      /\ Uploading(p) \/ Ending(p)
  BY DEF Advanced
<1>2. x[1] \in Paste /\ Src(p) \in Xfer /\ Dst(p) \in Xfer /\ Src(p)[1] = p /\ Dst(p)[1] = p
      /\ Src(p) # Dst(p) /\ Src(p)[2] = "src" /\ Dst(p)[2] = "dst"
      /\ (x[1] = p => x \in {Src(p), Dst(p)})
  BY XferParts
<1>3. Owner(x)' = Owner(x)
  BY <1>1 DEF Owner
<1>4. PICK o \in Tab : o = Owner(x) /\ o = Owner(x)'
  BY <1>3, OwnerTab DEF Base
<1>5. job[p] \in {"down", "up", "direct", "local"}
  BY <1>1, JobPlan DEF Waiting
<1>6. Plain(x) /\ PlainOK(x) /\ Once(x)
  <2>1. Known(x)
    BY <1>1, <1>2, <1>5 DEF Plain, Known
  <2> QED BY <1>1, <2>1 DEF Plain, PlainInv, PlainOK
<1>7. /\ Deletes(p) \in Cmd /\ Start(Dst(p)) \in Cmd /\ plan[p].src \in Tab /\ plan[p].dst \in Tab
      /\ Owner(Dst(p)) = plan[p].dst /\ Owner(Src(p)) = plan[p].src
      /\ rows[Dst(p)] \in RowT
  BY JobPlan, Owners DEF Base
<1>8. \/ x = Dst(p) /\ Uploading(p)
      \/ Goes(x)
  <2>1. CASE Uploading(p) /\ x # Dst(p)
    <3>1. CmdsLess(x, o)
      <4>1. PICK c \in Cmd : c = Start(Dst(p)) /\ Send(plan[p].dst, c)
        BY <1>7, <2>1 DEF Uploading
      <4>2. c # Start(x)
        BY <2>1, <4>1, StartsDiffer
      <4>3. Typed /\ Once(x) /\ plan[p].dst \in Tab
        BY <1>6, <1>7 DEF Base
      <4> QED BY <1>4, <4>1, <4>2, <4>3, SentLess
    <3> QED BY <1>1, <1>4, <1>6, <3>1, TasksStay, EvtsStay, LessGoes
  <2>2. CASE Ending(p)
    <3>1. cmds' = cmds \/ Send(plan[p].src, Deletes(p))
      BY <2>2 DEF Ending
    <3>2. CmdsLess(x, o)
      BY <1>4, <1>6, <1>7, <3>1, StartsDiffer, SentLess, CmdsStay DEF Base
    <3> QED BY <1>1, <1>4, <1>6, <3>2, TasksStay, EvtsStay, LessGoes
  <2> QED BY <1>1, <2>1, <2>2
<1>9. CASE x[1] # p
  <2>1. Goes(x) /\ rows'[x] = rows[x] /\ job'[x[1]] = job[x[1]]
    BY <1>1, <1>2, <1>8, <1>9
  <2>2. Waits(x) => rows'[x].ok = "open"
    BY <1>6, <2>1 DEF PlainOK
  <2> QED BY <1>1, <1>4, <1>6, <2>1, <2>2, PlainGoes
<1>10. plan[p].kind # "local" /\ x[1] = p => job[p] \in {"down", "up", "direct"}
  BY <1>5, JobPlan
<1>11. x[1] = p => plan[p].kind # "local"
  BY <1>6 DEF Plain
\* What is over: the row followed has an outcome, or its tab is closed.
<1>12. LET y == Follows(p) IN x = y =>
         /\ Over(x)
         /\ rows[x].ok # "open" \/ (link[o] = "closed" /\ ~rows[x].present)
  <2>1. x = Follows(p) => rows[x].ok # "open" \/ link[o] = "closed"
    BY <1>1, <1>4, StepRow
  <2> QED BY <1>4, <1>6, <2>1 DEF PlainOK
<1>13. CASE x = Src(p)
  <2>1. Goes(x) /\ rows'[x] = rows[x]
    BY <1>1, <1>2, <1>8, <1>13
  <2>2. Over(x) /\ (rows[x].present => rows[x].ok # "open")
    <3>1. CASE job[p] = "up"
      BY <1>2, <1>6, <1>13, <3>1 DEF PlainOK, Passed
    <3>2. CASE job[p] \in {"down", "direct"}
      <4>1. x = Follows(p)
        BY <1>13, <3>2 DEF Follows
      <4> QED BY <1>12, <4>1
    <3> QED BY <1>2, <1>10, <1>11, <1>13, <3>1, <3>2
  <2>3. Once(x)' /\ Over(x)'
    BY <2>1, <2>2 DEF Goes
  <2>4. ~Waits(x)'
    BY <1>2, <1>13 DEF Waits
  <2>5. link[o] = "closed" => ~rows[x].present
    BY <1>4, <1>6 DEF PlainOK
  <2> QED BY <1>1, <1>4, <2>1, <2>2, <2>3, <2>4, <2>5 DEF PlainOK
<1>14. CASE x = Dst(p) /\ Uploading(p)
  <2>1. /\ job[p] = "down" /\ job'[p] = "up" /\ Open(plan[p].dst)
        /\ Send(plan[p].dst, Start(x))
        /\ rows'[x] = [rows[x] EXCEPT !.queued = FALSE]
    BY <1>14 DEF Uploading
  <2>2. Waits(x)
    BY <1>2, <1>14, <2>1 DEF Waits
  <2>3. Over(x) /\ ~Told(x) /\ rows[x].ok = "open"
    BY <1>6, <2>2 DEF PlainOK
  <2>4. /\ \A t \in tasks : ~Runs(t, x)
        /\ ~Has(cmds[o], Start(x)) /\ Single(cmds[o], Start(x))
        /\ \A d \in Ends(x) \union {Begins(x)} : ~Has(evts[o], d)
    BY <1>4, <1>6, <2>3, OnceParts
  <2>5. Once(x)'
    BY <1>1, <1>4, <1>7, <1>14, <2>1, <2>4, OnceSent DEF Base
  <2>6. rows'[x].ok = "open"
    BY <1>7, <1>14, <2>1, <2>3 DEF RowT
  <2>7. ~Passed(x)' /\ ~Waits(x)'
    BY <1>2, <1>14, <2>1 DEF Passed, Waits
  <2>8. link'[o] # "closed"
    BY <1>1, <1>4, <1>7, <1>14, <2>1 DEF Open
  <2> QED BY <1>4, <2>5, <2>6, <2>7, <2>8 DEF PlainOK
<1>15. CASE x = Dst(p) /\ Ending(p)
  <2>1. Goes(x) /\ job'[p] = "ended"
    <3>1. job'[p] = "ended"
      BY <1>15 DEF Ending
    <3>2. ~Uploading(p)
      BY <3>1 DEF Uploading
    <3> QED BY <1>8, <3>1, <3>2
  <2>2. job[p] \in {"down", "up", "direct"}
    BY <1>2, <1>10, <1>11, <1>15
  <2>3. Over(x)
    <3>1. CASE job[p] = "up"
      <4>1. x = Follows(p)
        BY <1>15, <3>1 DEF Follows
      <4> QED BY <1>12, <4>1
    <3>2. CASE job[p] \in {"down", "direct"}
      BY <1>2, <1>6, <1>15, <3>2 DEF PlainOK, Waits
    <3> QED BY <2>2, <3>1, <3>2
  <2>4. link[o] = "closed" => ~rows[x].present
    BY <1>4, <1>6 DEF PlainOK
  <2>5. /\ rows'[x].present = rows[x].present
        /\ rows'[x].present => rows'[x].ok # "open"
    <3>1. CASE /\ rows'[x] = rows[x]
               /\ job[p] = "down" => ~Open(plan[p].dst)
               /\ job[p] # "direct"
      <4>1. CASE job[p] = "down"
        BY <1>4, <1>7, <1>15, <2>4, <3>1, <4>1 DEF Open
      <4>2. CASE job[p] = "up"
        <5>1. x = Follows(p)
          BY <1>15, <4>2 DEF Follows
        <5> QED BY <1>12, <3>1, <5>1
      <4> QED BY <2>2, <3>1, <4>1, <4>2
    <3>2. CASE /\ job[p] \in {"down", "direct"}
               /\ IF Open(plan[p].dst) /\ rows[x].present
                  THEN \E ok \in {"ok", "fail"} :
                         rows'[x] = [rows[x] EXCEPT !.ok = ok, !.queued = FALSE]
                  ELSE rows'[x] = rows[x]
      <4>1. CASE Open(plan[p].dst) /\ rows[x].present
        BY <1>7, <1>15, <3>2, <4>1 DEF RowT
      <4>2. CASE ~(Open(plan[p].dst) /\ rows[x].present)
        BY <1>4, <1>7, <1>15, <2>4, <3>2, <4>2 DEF Open
      <4> QED BY <4>1, <4>2
    <3> QED BY <1>15, <3>1, <3>2 DEF Ending
  <2>6. Once(x)' /\ Over(x)'
    BY <2>1, <2>3 DEF Goes
  <2>7. ~Waits(x)'
    BY <1>2, <1>15, <2>1 DEF Waits
  <2> QED BY <1>1, <1>4, <2>4, <2>5, <2>6, <2>7 DEF PlainOK
<1> QED BY <1>1, <1>2, <1>9, <1>13, <1>14, <1>15


\* The tasks of other transfers come, go and change.
LEMMA OthersLess ==
  ASSUME NEW x, Once(x), NEW n, n.x # x, NEW D,
         tasks' = tasks \union {n} \/ tasks' = (tasks \ D) \union {n}
  PROVE  TasksLess(x)
<1>1. \A t, u \in tasks : t.x = x /\ ~t.old /\ u.x = x /\ ~u.old => t = u
  BY DEF Once, Runs
<1>2. \A t \in tasks' : t.x = x => t \in tasks
  OBVIOUS
<1> QED BY <1>1, <1>2 DEF TasksLess, Runs

LEMMA ReportLess ==
  ASSUME Typed, NEW s \in Tab, NEW e \in Evt, Report(s, e),
         NEW x, NEW o \in Tab, o = Owner(x), Once(x), e # Begins(x), e \notin Ends(x)
  PROVE  EvtsLess(x, o)
<1>1. InOrder(evts[o], Begins(x), Ends(x)) /\ Begins(x) \notin Ends(x)
  BY OnceParts, EvtsDistinct
<1>2. InOrder(evts'[o], Begins(x), Ends(x))
  <2>1. CASE o = s
    BY <1>1, <2>1, Reported
  <2>2. CASE o # s
    <3>1. evts'[o] = evts[o]
      BY <2>2, Reported
    <3> QED BY <1>1, <3>1
  <2> QED BY <2>1, <2>2
<1>3. \A d \in Ends(x) \union {Begins(x)} : Has(evts'[o], d) => Has(evts[o], d)
  BY ReportHas
<1> QED BY <1>2, <1>3 DEF EvtsLess

LEMMA PlainQuietly ==
  ASSUME Base, PlainInv, Quietly, NEW x \in Xfer, Plain(x)'
  PROVE  PlainOK(x)'
<1>1. job' = job /\ SamePlans /\ Owner(x)' = Owner(x) /\ (Known(x)' <=> Known(x))
  BY BaseQuietly
<1>2. Plain(x)
  <2>1. x[1] \in Paste
    BY XferParts
  <2> QED BY <1>1, <2>1 DEF Plain, SamePlans
<1>3. PlainOK(x) /\ Once(x)
  BY <1>2 DEF PlainInv, PlainOK
<1>4. rows[x] \in RowT /\ ~rows[x].spec /\ ~rows[x].paused
  BY <1>2, RowHere DEF Plain
<1>5. PICK o \in Tab : o = Owner(x)
  BY OwnerTab DEF Base
<1>6. o = Owner(x)' /\ job'[x[1]] = job[x[1]]
  BY <1>1, <1>5
<1>7. Typed /\ Start(x) \in Cmd /\ (\A y \in Xfer : Start(y) = Start(x) <=> y = x)
  BY StartCmd DEF Base
<1>8. Waits(x) => rows[x].ok = "open"
  BY <1>3 DEF PlainOK
\* Steps which leave the row.
<1>9. ASSUME Goes(x), rows'[x] = rows[x], link'[o] = "closed" => link[o] = "closed"
      PROVE  PlainOK(x)'
  BY <1>3, <1>5, <1>6, <1>8, <1>9, PlainGoes
<1>10. ASSUME CmdsLess(x, o), TasksLess(x), EvtsLess(x, o), rows'[x] = rows[x],
              link'[o] = "closed" => link[o] = "closed"
       PROVE  PlainOK(x)'
  <2>1. Goes(x)
    BY <1>3, <1>5, <1>6, <1>10, LessGoes
  <2> QED BY <1>9, <1>10, <2>1
<1>11. ASSUME tasks' = tasks PROVE TasksLess(x)
  BY <1>3, <1>11, TasksStay
<1>12. ASSUME NEW y \in Xfer, Cancel(y) PROVE PlainOK(x)'
  <2>1. /\ UNCHANGED <<link, evts, tasks, rows>>
        /\ \/ cmds' = cmds
           \/ \E z \in Xfer : Send(Owner(z), CancelCmd(z))
    BY <1>12, CancelSteps
  <2>2. CmdsLess(x, o)
    <3>1. ASSUME NEW z \in Xfer, Send(Owner(z), CancelCmd(z)) PROVE CmdsLess(x, o)
      <4>1. CancelCmd(z) \in Cmd /\ Owner(z) \in Tab /\ CancelCmd(z) # Start(x)
        BY OwnerTab, StartsDiffer DEF CancelCmd, Cmd, Base
      <4> QED BY <1>3, <1>5, <1>7, <3>1, <4>1, SentLess
    <3>2. CASE cmds' = cmds
      BY <1>3, <1>5, <3>2, CmdsStay
    <3> QED BY <2>1, <3>1, <3>2
  <2> QED BY <1>3, <1>5, <1>10, <1>11, <2>1, <2>2, EvtsStay
<1>13. ASSUME NEW y \in Xfer, Resume(y) PROVE PlainOK(x)'
  <2>1. /\ plan[y[1]].kind = "local" /\ Send(Owner(y), Start(y))
        /\ \A z \in Xfer : z # y => rows'[z] = rows[z]
        /\ UNCHANGED <<link, evts, tasks>>
    BY <1>13, ResumeSteps
  <2>2. y # x
    BY <1>2, <2>1 DEF Plain
  <2>3. Start(y) \in Cmd /\ Owner(y) \in Tab /\ Start(y) # Start(x)
    BY <1>7, <2>2, StartCmd, OwnerTab
  <2>4. CmdsLess(x, o)
    BY <1>3, <1>5, <1>7, <2>1, <2>3, SentLess
  <2> QED BY <1>3, <1>5, <1>10, <1>11, <2>1, <2>2, <2>4, EvtsStay
<1>14. ASSUME NEW y \in Xfer, Remove(y) PROVE PlainOK(x)'
  <2>1. /\ rows[y].ok # "open"
        /\ \A z \in Xfer : z # y => rows'[z] = rows[z]
        /\ rows'[y] = NoRow
        /\ UNCHANGED <<link, cmds, evts, tasks>>
    BY <1>14, RemoveSteps
  <2>2. CmdsLess(x, o) /\ TasksLess(x) /\ EvtsLess(x, o)
    BY <1>3, <1>5, <1>11, <2>1, CmdsStay, EvtsStay
  <2>3. CASE y = x
    <3>1. Goes(x)
      BY <1>3, <1>5, <1>6, <2>2, LessGoes
    <3>2. ~rows'[x].present /\ rows'[x].ok = "open"
      BY <2>1, <2>3, RowTypes DEF NoRow
    <3> QED BY <1>3, <1>5, <1>6, <2>1, <3>1, <3>2, PlainGoes
  <2>4. CASE y # x
    BY <1>10, <2>1, <2>2, <2>4
  <2> QED BY <2>3, <2>4
<1>15. ASSUME NEW s \in Tab, Close(s) PROVE PlainOK(x)'
  <2>1. /\ Unseen(s) /\ cmds'[s] = <<>> /\ evts'[s] = <<>> /\ link'[s] = "closed"
        /\ \A r \in Tab : r # s => cmds'[r] = cmds[r] /\ evts'[r] = evts[r] /\ link'[r] = link[r]
        /\ rows'[x] = IF Owner(x) = s THEN NoRow ELSE rows[x]
    BY <1>15, CloseSteps
  <2>2. TasksLess(x)
    BY <1>3, <2>1, TasksStay
  <2>3. CASE o # s
    BY <1>3, <1>5, <1>10, <2>1, <2>2, <2>3, CmdsStay, EvtsStay
  <2>4. CASE o = s
    <3>1. CmdsLess(x, o) /\ EvtsLess(x, o)
      BY <2>1, <2>4, EmptyKeeps, HasEmpty DEF CmdsLess, EvtsLess
    <3>2. Goes(x)
      BY <1>3, <1>5, <1>6, <2>2, <3>1, LessGoes
    <3>3. rows'[x] = NoRow /\ ~rows'[x].present /\ rows'[x].ok = "open"
      BY <1>5, <2>1, <2>4 DEF NoRow
    <3>4. \A t \in tasks' : ~(t.x = x /\ ~t.old)
      <4>1. ASSUME NEW t \in tasks', t.x = x, ~t.old PROVE FALSE
        <5>1. \E u \in tasks : t = u /\ Owner(u.x) # s
          BY <2>1, <4>1 DEF Unseen
        <5> QED BY <1>5, <2>4, <4>1, <5>1
      <4> QED BY <4>1
    <3>5. Over(x)' /\ ~Told(x)'
      <4>1. ~Has(cmds'[o], Start(x)) /\ \A d : ~Has(evts'[o], d)
        BY <2>1, <2>4, HasEmpty
      <4> QED BY <1>6, <3>4, <4>1, OnceNext
    <3>6. Once(x)'
      BY <3>2 DEF Goes
    <3> QED BY <3>3, <3>5, <3>6 DEF PlainOK
  <2> QED BY <2>3, <2>4
<1>16. ASSUME NEW s \in Tab, Reconnect(s) PROVE PlainOK(x)'
  <2>1. /\ Unseen(s) /\ cmds'[s] = <<>> /\ evts'[s] = <<ConnEvt>> /\ link'[s] = "up"
        /\ \A r \in Tab : r # s => cmds'[r] = cmds[r] /\ evts'[r] = evts[r] /\ link'[r] = link[r]
        /\ rows' = rows
    BY <1>16, ReconnectSteps
  <2>2. TasksLess(x)
    BY <1>3, <2>1, TasksStay
  <2>3. CASE o # s
    BY <1>3, <1>5, <1>10, <2>1, <2>2, <2>3, CmdsStay, EvtsStay
  <2>4. CASE o = s
    <3>1. CmdsLess(x, o)
      BY <2>1, <2>4, EmptyKeeps, HasEmpty DEF CmdsLess
    <3>2. \A d \in Ends(x) \union {Begins(x)} : ~Has(evts'[o], d)
      <4>1. \A d : Has(evts'[o], d) => d = ConnEvt
        <5> DEFINE c == <<ConnEvt>>
        <5>1. evts'[o] = c
          BY <2>1, <2>4
        <5>2. \A d : Has(c, d) => d = ConnEvt
          BY HasOne
        <5> HIDE DEF c
        <5> QED BY <5>1, <5>2
      <4>2. ConnEvt \notin Ends(x) \union {Begins(x)}
        BY EvtsDistinct
      <4> QED BY <4>1, <4>2
    <3>3. EvtsLess(x, o)
      BY <3>2 DEF EvtsLess, InOrder, Has
    <3> QED BY <1>10, <2>1, <2>2, <2>4, <3>1, <3>3
  <2> QED BY <2>3, <2>4
<1>17. ASSUME NEW s \in Tab, Drain(s) PROVE PlainOK(x)'
  <2>1. PICK e \in Evt :
         /\ e = Head(evts[s]) /\ Has(evts[s], e)
         /\ OnConnected(s, e) \/ OnDisconnected(s, e) \/ OnStart(e) \/ OnDone(e)
         /\ evts[s] # <<>> /\ evts[s] \in Seq(Evt) /\ evts'[s] = Tail(evts[s])
         /\ \A d : Has(evts[s], d) <=> d = e \/ Has(evts'[s], d)
         /\ \A r \in Tab : r # s => evts'[r] = evts[r]
         /\ link' = link /\ tasks' = tasks
    BY <1>17, DrainSteps
  <2>2. EvtsLess(x, o)
    <3>1. CASE o = s
      <4>1. InOrder(evts[s], Begins(x), Ends(x))
        BY <1>3, <1>5, <3>1, OnceParts
      <4>2. InOrder(evts'[s], Begins(x), Ends(x))
        BY <2>1, <4>1, InOrderTail
      <4> QED BY <2>1, <3>1, <4>2 DEF EvtsLess
    <3>2. CASE o # s
      BY <1>3, <1>5, <2>1, <3>2, EvtsStay
    <3> QED BY <3>1, <3>2
  <2>3. TasksLess(x)
    BY <1>11, <2>1
  <2>4. CASE OnConnected(s, e)
    <3>1. /\ \A r \in Tab : r # s => cmds'[r] = cmds[r]
          /\ \A c : Has(cmds'[s], c) => Has(cmds[s], c) \/ \E y \in Resent(s) : c = Start(y)
          /\ \A c : Single(cmds[s], c) /\ (\A y \in Resent(s) : c # Start(y)) => Single(cmds'[s], c)
          /\ rows'[x] = IF x \in Resent(s) THEN [rows[x] EXCEPT !.paused = FALSE] ELSE rows[x]
      BY <1>17, <2>4, ConnectedSteps
    <3>2. x \notin Resent(s) /\ \A y \in Resent(s) : Start(x) # Start(y)
      BY <1>4, <1>7 DEF Resent
    <3>3. CmdsLess(x, o)
      <4>1. CASE o = s
        BY <1>3, <1>5, <3>1, <3>2, <4>1, OnceParts DEF CmdsLess
      <4>2. CASE o # s
        BY <1>3, <1>5, <3>1, <4>2, CmdsStay
      <4> QED BY <4>1, <4>2
    <3> QED BY <1>10, <2>1, <2>2, <2>3, <3>1, <3>2, <3>3
  <2>5. CASE OnDisconnected(s, e)
    <3>1. cmds' = cmds /\ rows'[x] = rows[x]
      BY <1>4, <1>17, <2>5, DisconnectedSteps
    <3> QED BY <1>3, <1>5, <1>10, <2>1, <2>2, <2>3, <3>1, CmdsStay
  <2>6. CASE OnStart(e)
    <3>1. /\ e.ev = "start" /\ e.x \in Xfer /\ cmds' = cmds
          /\ rows'[e.x] = IF rows[e.x].present THEN [rows[e.x] EXCEPT !.queued = FALSE] ELSE Row
          /\ \A y \in Xfer : y # e.x => rows'[y] = rows[y]
      BY <1>17, <2>6, StartSteps
    <3>2. CmdsLess(x, o)
      BY <1>3, <1>5, <3>1, CmdsStay
    <3>3. CASE e.x # x
      BY <1>10, <2>1, <2>2, <2>3, <3>1, <3>2, <3>3
    <3>4. CASE e.x = x
      <4>1. e = Begins(x) /\ o = s
        BY <1>5, <2>1, <3>1, <3>4, EvtTypes, EvtHere
      <4>2. ~Over(x) /\ Told(x)
        BY <1>5, <2>1, <4>1, OnceParts
      <4>3. rows[x].ok = "open" /\ ~Waits(x)
        BY <1>3, <4>2 DEF PlainOK
      <4>4. rows'[x].ok = "open"
        BY <1>4, <3>1, <3>4, <4>3 DEF RowT, Row, NoRow
      <4>5. Goes(x)
        BY <1>3, <1>5, <1>6, <2>2, <2>3, <3>2, LessGoes
      <4> QED BY <1>3, <1>5, <1>6, <2>1, <4>2, <4>4, <4>5, PlainGoes
    <3> QED BY <3>3, <3>4
  <2>7. CASE OnDone(e)
    <3>1. /\ e.ev = "done" /\ e.x \in Xfer /\ cmds' = cmds
          /\ ~rows[e.x].present => rows' = rows
          /\ rows[e.x].present =>
              \/ rows[e.x].spec
              \/ \E ok \in {"ok", "fail"} : rows'[e.x] = [rows[e.x] EXCEPT !.ok = ok, !.queued = FALSE]
          /\ \A y \in Xfer : y # e.x => rows'[y] = rows[y]
      BY <1>17, <2>7, DoneSteps
    <3>2. CmdsLess(x, o)
      BY <1>3, <1>5, <3>1, CmdsStay
    <3>3. CASE e.x # x
      BY <1>10, <2>1, <2>2, <2>3, <3>1, <3>2, <3>3
    <3>4. CASE e.x = x
      <4>1. e \in Ends(x) /\ o = s
        <5>1. o = s
          BY <1>5, <2>1, <3>1, <3>4, EvtHere
        <5>2. e.ok \in BOOLEAN /\ e = Done(x, e.ok)
          BY <3>1, <3>4, EvtTypes
        <5>3. e.ok = TRUE \/ e.ok = FALSE
          BY <5>2
        <5>4. e = Done(x, TRUE) \/ e = Done(x, FALSE)
          BY <5>2, <5>3, Zenon
        <5> QED BY <5>1, <5>4 DEF Ends
      <4>2. Told(x) /\ ~Waits(x)
        BY <1>3, <1>5, <2>1, <4>1, OnceParts DEF PlainOK
      <4>3. ~Has(cmds[o], Start(x)) /\ \A t \in tasks : ~Runs(t, x)
        BY <1>3, <1>5, <2>1, <4>1, <4>2, OnceParts
      <4>4. ~Has(evts'[o], Begins(x))
        <5>1. InOrder(evts[s], Begins(x), Ends(x))
          BY <1>3, <1>5, <4>1, OnceParts
        <5> QED BY <2>1, <4>1, <5>1, InOrderTail
      <4>5. Over(x)'
        BY <1>6, <2>1, <3>1, <4>3, <4>4, OnceNext DEF Runs
      <4>6. rows'[x] = rows[x] \/ (rows[x].present /\ rows'[x].ok # "open")
        <5>1. CASE ~rows[x].present
          BY <3>1, <3>4, <5>1
        <5>2. CASE rows[x].present
          <6>1. PICK ok \in {"ok", "fail"} : rows'[x] = [rows[x] EXCEPT !.ok = ok, !.queued = FALSE]
            BY <1>4, <3>1, <3>4, <5>2
          <6>2. rows'[x].ok = ok
            BY <1>4, <6>1 DEF RowT
          <6> QED BY <5>2, <6>2
        <5> QED BY <5>1, <5>2
      <4>7. Goes(x)
        BY <1>3, <1>5, <1>6, <2>2, <2>3, <3>2, LessGoes
      <4> QED BY <1>3, <1>5, <1>6, <2>1, <4>2, <4>5, <4>6, <4>7, PlainGoes
    <3> QED BY <3>3, <3>4
  <2> QED BY <2>1, <2>4, <2>5, <2>6, <2>7
<1>18. ASSUME NEW s \in Tab, Take(s) PROVE PlainOK(x)'
  <2>1. /\ link' = link /\ evts' = evts /\ rows' = rows
        /\ \A r \in Tab : r # s => cmds'[r] = cmds[r]
        /\ \A e : Single(cmds[s], e) => Single(cmds'[s], e)
    BY <1>18, TakeSteps
  <2>2. PICK c \in Cmd :
              /\ Has(cmds[s], c)
              /\ \A d : Has(cmds[s], d) <=> d = c \/ Has(cmds'[s], d)
              /\ Single(cmds[s], c) => ~Has(cmds'[s], c)
              /\ \/ /\ c = Start(c.x)
                    /\ \E n \in Task : n.x = c.x /\ tasks' = tasks \union {n}
                 \/ c.op = "cancel" /\ Marked
                 \/ c.op = "delete" /\ tasks' = tasks
    BY <1>18, TakeSteps
  <2>3. CmdsLess(x, o)
    <3>1. CASE o = s
      <4>1. Single(cmds[o], Start(x))
        BY <1>3, <1>5, OnceParts
      <4> QED BY <2>1, <2>2, <3>1, <4>1 DEF CmdsLess
    <3>2. CASE o # s
      BY <1>3, <1>5, <2>1, <3>2, CmdsStay
    <3> QED BY <3>1, <3>2
  <2>4. EvtsLess(x, o)
    BY <1>3, <1>5, <2>1, EvtsStay
  <2>5. CASE c = Start(x)
    <3>1. c.x = x /\ c.op = "start"
      BY <2>5, StartCmd
    <3>2. o = s
      BY <1>5, <2>2, <3>1, CmdHere
    <3>3. PICK n \in Task : n.x = x /\ tasks' = tasks \union {n}
      BY <2>2, <3>1
    <3>4. Single(cmds[o], Start(x))
      BY <1>3, <1>5, OnceParts
    <3>5. Has(cmds[o], Start(x)) /\ Single(cmds'[o], Start(x)) /\ ~Has(cmds'[o], Start(x))
      BY <2>1, <2>2, <2>5, <3>2, <3>4
    <3>6. Goes(x)
      BY <1>3, <1>5, <1>6, <2>1, <3>3, <3>5, OnceTaken
    <3> QED BY <1>9, <2>1, <3>6
  <2>6. CASE c # Start(x)
    <3>1. TasksLess(x)
      <4>1. CASE c = Start(c.x) /\ \E n \in Task : n.x = c.x /\ tasks' = tasks \union {n}
        <5>1. PICK n \in Task : n.x = c.x /\ tasks' = tasks \union {n}
          BY <4>1
        <5>2. n.x # x
          BY <2>6, <4>1, <5>1
        <5> QED BY <1>3, <5>1, <5>2, OthersLess
      <4>2. CASE Marked
        BY <1>3, <4>2, TasksStay
      <4>3. CASE tasks' = tasks
        BY <1>11, <4>3
      <4> QED BY <2>2, <4>1, <4>2, <4>3
    <3> QED BY <1>10, <2>1, <2>3, <2>4, <3>1
  <2> QED BY <2>5, <2>6
<1>19. ASSUME NEW s \in Tab, Lose(s) PROVE PlainOK(x)'
  <2>1. /\ Marked /\ link[s] = "up" /\ link'[s] = "down" /\ cmds'[s] = <<>>
        /\ \A r \in Tab : r # s => cmds'[r] = cmds[r] /\ link'[r] = link[r]
        /\ Report(s, LostEvt) /\ rows' = rows
    BY <1>19, LoseSteps
  <2>2. CmdsLess(x, o)
    <3>1. CASE o = s
      BY <2>1, <3>1, EmptyKeeps, HasEmpty DEF CmdsLess
    <3>2. CASE o # s
      BY <1>3, <1>5, <2>1, <3>2, CmdsStay
    <3> QED BY <3>1, <3>2
  <2>3. TasksLess(x)
    BY <1>3, <2>1, TasksStay
  <2>4. EvtsLess(x, o)
    BY <1>3, <1>5, <1>7, <2>1, EvtTypes, EvtsDistinct, ReportLess
  <2>5. link'[o] = "closed" => link[o] = "closed"
    BY <2>1
  <2> QED BY <1>10, <2>1, <2>2, <2>3, <2>4, <2>5
<1>20. ASSUME NEW t \in tasks, Announce(t) PROVE PlainOK(x)'
  <2>1. /\ ~t.old /\ t.st = "new" /\ Report(Owner(t.x), Begins(t.x))
        /\ UNCHANGED <<link, cmds, rows>>
    BY <1>20, AnnounceSteps
  <2>2. PICK r \in Task : r.x = t.x /\ r.st = "run" /\ tasks' = (tasks \ {t}) \union {r}
    BY <1>20, AnnounceSteps
  <2>3. t.x \in Xfer /\ Owner(t.x) \in Tab /\ Begins(t.x) \in Evt
    BY TaskParts, EvtTypes
  <2>4. CASE t.x = x
    <3>1. Goes(x)
      BY <1>3, <1>5, <1>6, <1>7, <2>1, <2>2, <2>4, OnceAnnounced
    <3> QED BY <1>9, <2>1, <3>1
  <2>5. CASE t.x # x
    <3>1. TasksLess(x)
      BY <1>3, <2>2, <2>5, OthersLess
    <3>2. Begins(t.x) # Begins(x) /\ Begins(t.x) \notin Ends(x)
      BY <2>5, EvtsDistinct
    <3>3. EvtsLess(x, o)
      BY <1>3, <1>5, <1>7, <2>1, <2>3, <3>2, ReportLess
    <3> QED BY <1>3, <1>5, <1>10, <2>1, <3>1, <3>3, CmdsStay
  <2> QED BY <2>4, <2>5
<1>21. ASSUME NEW t \in tasks, Succeed(t) \/ Fail(t) PROVE PlainOK(x)'
  <2>1. /\ tasks' = tasks \ {t}
        /\ IF t.old THEN evts' = evts
           ELSE \E ok \in BOOLEAN : Report(Owner(t.x), Done(t.x, ok))
        /\ UNCHANGED <<link, cmds, rows>>
    BY <1>21, EndSteps
  <2>2. t.x \in Xfer /\ Owner(t.x) \in Tab
    BY TaskParts
  <2>3. TasksLess(x)
    <3>1. tasks' \subseteq tasks
      BY <2>1
    <3> QED BY <1>3, <3>1, TasksStay
  <2>4. CmdsLess(x, o)
    BY <1>3, <1>5, <2>1, CmdsStay
  <2>5. CASE t.old
    BY <1>3, <1>5, <1>10, <2>1, <2>3, <2>4, <2>5, EvtsStay
  <2>6. CASE ~t.old
    <3>1. PICK ok \in BOOLEAN : Report(Owner(t.x), Done(t.x, ok))
      BY <2>1, <2>6
    <3>2. CASE t.x = x
      <4>1. Goes(x)
        BY <1>3, <1>5, <1>6, <1>7, <2>1, <2>6, <3>1, <3>2, OnceEnded
      <4> QED BY <1>9, <2>1, <4>1
    <3>3. CASE t.x # x
      <4>1. Done(t.x, ok) \in Evt /\ Done(t.x, ok).x = t.x /\ Done(t.x, ok).ev = "done"
        BY <2>2, EvtTypes
      <4>2. Done(t.x, ok) # Begins(x) /\ Done(t.x, ok) \notin Ends(x)
        BY <3>3, <4>1, EvtsDistinct
      <4>3. EvtsLess(x, o)
        BY <1>3, <1>5, <1>7, <2>2, <3>1, <4>1, <4>2, ReportLess
      <4> QED BY <1>10, <2>1, <2>3, <2>4, <4>3
    <3> QED BY <3>2, <3>3
  <2> QED BY <2>5, <2>6
<1>22. ASSUME UNCHANGED <<link, cmds, evts, tasks, rows>> PROVE PlainOK(x)'
  BY <1>3, <1>5, <1>10, <1>11, <1>22, CmdsStay, EvtsStay
<1>23. UNCHANGED vars => UNCHANGED <<link, cmds, evts, tasks, rows>>
  BY DEF vars
<1> QED BY <1>12, <1>13, <1>14, <1>15, <1>16, <1>17, <1>18, <1>19, <1>20, <1>21, <1>22, <1>23
        DEF Quietly, Work


LEMMA PlainNext ==
  ASSUME Base, PlainInv, [Next]_vars
  PROVE  PlainInv'
<1> SUFFICES ASSUME NEW x \in Xfer, Plain(x)' PROVE PlainOK(x)'
  BY DEF PlainInv
<1> QED BY Steps, PlainEntered, PlainAdvanced, PlainQuietly

LEMMA HeardNext ==
  ASSUME Base, HeardInv, [Next]_vars
  PROVE  HeardInv'
<1>1. ASSUME Quietly PROVE HeardInv'
  BY <1>1, HeardQuietly DEF HeardInv
<1> QED BY <1>1, Steps, HeardEntered, HeardAdvanced

LEMMA HeardInit == Init => HeardInv
  BY InitParts DEF HeardInv, Heard, Waiting

LEMMA PlainInit == Init => PlainInv
<1>1. ASSUME Init, NEW x \in Xfer PROVE ~Known(x)
  BY <1>1, InitParts, XferParts DEF Known
<1> QED BY <1>1 DEF PlainInv, Plain

-----------------------------------------------------------------------------
(* The theorems.                                                              *)

IInv == Base /\ LandInv /\ HeardInv /\ PlainInv

LEMMA Invariance == Spec => []IInv
<1>1. Init => IInv
  BY InitParts, LandInit, HeardInit, PlainInit DEF IInv
<1>2. IInv /\ [Next]_vars => IInv'
  BY BaseNext, LandNext, HeardNext, PlainNext DEF IInv
<1> QED BY <1>1, <1>2, PTL DEF Spec

\* The channels hold commands and events of pastes, rows and jobs have their
\* states (TransferRow, RelayPhase, UiCommand).
THEOREM TypeCorrect == Spec => []Typed
<1>1. IInv => Typed
  BY DEF IInv, Base
<1> QED BY <1>1, Invariance, PTL

\* The directory that was cut is deleted only when all its files are at a
\* destination, whichever connections are lost, whichever transfers are
\* cancelled or retried, rows removed and tabs closed meanwhile
\* (process_relays: "delete the source only after the upload").
THEOREM CutKeepsFiles == Spec => [](\A s \in gone : Copied(s))
<1>1. IInv => \A s \in gone : Copied(s)
  BY DEF IInv, LandInv
<1> QED BY <1>1, Invariance, PTL

\* Where the directory holds no link, all of it is there.  The upload passes
\* links over, and the directory is deleted with them: the hypothesis cannot
\* be dropped.
THEOREM CutKeepsAll ==
  ASSUME "link" \notin Entries
  PROVE  Spec => []CutKeepsCopy
<1>1. Files = Entries
  BY DEF Files
<1>2. IInv => CutKeepsCopy
  BY <1>1 DEF IInv, LandInv, Copied, CutKeepsCopy
<1> QED BY <1>2, Invariance, PTL

\* A relay or a direct paste that is over leaves no row spinning, in neither
\* of its tabs (fail_placeholder, finish_mirror): each has one attempt of each
\* transfer, and nothing on its way can open its row again.
THEOREM NoRowSpins == Spec => []NoRowLeft
<1>1. ASSUME IInv PROVE NoRowLeft
  <2> SUFFICES ASSUME NEW x \in Xfer, job[x[1]] = "ended", plan[x[1]].kind # "local",
                      rows[x].present
               PROVE  rows[x].ok # "open"
    BY DEF NoRowLeft
  <2>1. Plain(x) /\ Passed(x)
    BY DEF Plain, Known, Passed
  <2> QED BY <1>1, <2>1 DEF IInv, PlainInv, PlainOK
<1> QED BY <1>1, Invariance, PTL

\* A job that waits for a row nobody will settle any more is one whose command
\* was sent into a tab that was not connected, whose tab was connected again
\* while its transfer was under way, or whose answer came before its row:
\* nothing else orphans it (transfer_ok, reconnect_session, drain_events).
THEOREM OrphansAreExplained == Spec => []OrphansExplained
<1>1. ASSUME IInv PROVE OrphansExplained
  <2> SUFFICES ASSUME NEW p \in Paste, Orphan(p), cut[p] = "none" PROVE FALSE
    BY DEF OrphansExplained
  <2>1. PICK x \in Xfer : x = Follows(p)
    BY FollowsXfer
  <2>2. /\ Waiting(p) /\ Step(p) = "wait" /\ ~rows[x].paused /\ ~Outstanding(x)
        /\ rows[x].spec => ~Interrupts(Owner(x))
    BY <2>1 DEF Orphan
  <2>3. rows[x].ok \in {"open", "ok", "fail"}
    BY <1>1, RowHere DEF IInv, RowT
  <2>4. Outcome(x) = "open" /\ Open(Owner(x))
    BY <2>1, <2>2, <2>3 DEF Step, Outcome
  <2>5. HangsAt(p, x)
    BY <2>2, <2>4 DEF HangsAt, Outcome
  <2>6. Saved(x)
    BY <1>1, <2>1, <2>2, <2>5 DEF IInv, HeardInv, Heard
  <2>7. ~Has(cmds[Owner(x)], Start(x)) /\ ~\E t \in tasks : Runs(t, x)
    BY <2>2 DEF Outstanding, Has, Runs
  <2>8. ~\E d \in Ends(x) : Has(evts[Owner(x)], d)
    <3>1. \A d \in Ends(x) : d \in [ev : {"done"}, x : {x}, ok : BOOLEAN]
      <4>1. \A ok \in BOOLEAN : Done(x, ok) \in [ev : {"done"}, x : {x}, ok : BOOLEAN]
        BY DEF Done
      <4>2. TRUE \in BOOLEAN /\ FALSE \in BOOLEAN
        OBVIOUS
      <4>3. \A d \in Ends(x) : \E ok \in BOOLEAN : d = Done(x, ok)
        BY <4>2, Zenon DEF Ends
      <4> QED BY <4>1, <4>3, Zenon
    <3> QED BY <2>2, <3>1 DEF Outstanding, Has
  <2>9. ~(rows[x].spec /\ Has(evts[Owner(x)], LostEvt))
    BY <2>2, EvtTypes DEF Interrupts, Has
  <2> QED BY <2>6, <2>7, <2>8, <2>9 DEF Saved
<1> QED BY <1>1, Invariance, PTL
=============================================================================
