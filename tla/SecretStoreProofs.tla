--------------------------- MODULE SecretStoreProofs ---------------------------
(***************************************************************************)
(* Proofs about SecretStore, for every number of processes, connections,   *)
(* keys, changes, faults and crashes.                                      *)
(*                                                                         *)
(* The invariant is a conjunction over the processes.  Its parts are       *)
(* operators on the record r of one process and on what it shares with     *)
(* the others, so that a step of one process is followed by its new        *)
(* record, and the steps of the others by what they do to what is shared.  *)
(***************************************************************************)
EXTENDS SecretStore, SequenceTheorems, WellFoundedInduction, TLAPS

Computing == {"local", "inventory", "keychain", "verify", "verifylocal"}
\* Only under the lock.
Writing == {"persist", "write", "rename", "migrate", "mint", "mintchain", "mintset",
            "mintback", "install", "writenew", "renamenew"}
HasKeyPcs == {"verify", "verifylocal", "persist", "write", "rename", "mintset", "mintback",
              "install", "writenew", "renamenew"}
AtRest == {"idle", "previous"}
Pcs == Computing \union Writing \union AtRest \union {"key", "use", "lock"}

Texts(k) == {Absent, Plain, Empty} \union 1 .. k
Confs(k) == [Conn -> Texts(k)]
Mems == {"absent", "empty", "text", "failed"}
Labels == [Conn -> Name \union {NoName}]
Recs(k) == [pc : Pcs, cache : {Failed} \union 0 .. k, has : BOOLEAN, local : 0 .. k,
            inv : SUBSET Int, key : 0 .. k, for : {"none", "load", "save"},
            text : Confs(k), labels : Labels, mem : [Conn -> Mems],
            names : [Conn -> Seq(Name)], mine : SUBSET Conn]

\* The key, the lock and the place of a process fit.
PlaceOK(p, r, l) ==
    /\ r.has => l = p
    /\ r.pc \in Writing => r.has
    /\ r.has => r.pc \in Computing \union Writing
    /\ r.pc \in Computing \union Writing \union {"lock"} => r.cache \in {None, Failed}
    /\ r.pc \in HasKeyPcs => r.key # None
    /\ r.pc = "migrate" => r.local # None

\* The key file a process is about to write over was given up, or is already
\* the key it writes; k is the file, s the temporary files, x what was given up.
FileOK(r, k, s, x) ==
    /\ r.pc = "write" =>
         /\ k # None => k \in x \union {r.key}
         /\ k = None /\ s # <<>> => s[Len(s)] \in x
    /\ r.pc = "rename" =>
         /\ k # None => k \in x \union {r.key}
         /\ k = None => s # <<>> /\ s[Len(s)] = r.key
    /\ r.pc = "writenew" => k = None /\ s = <<>>
    /\ r.pc = "renamenew" =>
         /\ k # None => k = r.key
         /\ k = None => s # <<>> /\ s[Len(s)] = r.key

\* What the process knows of one connection it did not touch, and what the
\* file holds of it.
Agrees(m, x, cache) ==
    \/ x = Absent /\ m = "absent"
    \/ x = Empty /\ m = "empty"
    \/ x = Plain /\ m = "text"
    \/ x \notin {Absent, Empty, Plain}
       /\ (m = "failed" \/ (m = "text" /\ x = cache))
KnowsAll(r, t) == \A c \in Settled(r) \ r.mine : Agrees(r.mem[c], t[c], r.cache)
Loading(r) == r.for = "load" /\ r.pc \notin AtRest
Saves(r) == r.for = "save" /\ r.pc \notin AtRest

\* What is in the file has a name; what is in the list has one; and the names
\* in the file are among those the list has had.
Named(t, l) == \A c \in Conn : t[c] # Absent => l[c] # NoName
Borne(r) == \A c \in Conn : r.mem[c] # "absent" => r.names[c] # <<>>
Traced(r, l) == \A c \in Conn : l[c] \in ToSet(r.names[c]) \union {NoName}

\* The file holds t and l, and C are the processes whose list is that of it.
KeepOK(p, r, t, l, C) ==
    /\ Named(r.text, r.labels) /\ Borne(r)
    /\ p \in C =>
         /\ Loading(r) \/ Saves(r) => r.text = t /\ r.labels = l
         /\ ~Loading(r) => KnowsAll(r, t) /\ Traced(r, l)

Typed ==
    /\ keys \in Nat /\ keychain \in 0 .. keys /\ kfile \in 0 .. keys
    /\ side \in Seq(1 .. keys) /\ late \subseteq [by : Proc, key : 1 .. keys]
    /\ conf \in Confs(keys) /\ label \in Labels /\ Named(conf, label)
    /\ lock \in Proc \union {None}
    /\ proc \in [Proc -> Recs(keys)]
ProcOK(p) ==
    /\ PlaceOK(p, proc[p], lock)
    /\ FileOK(proc[p], kfile, side, replaced)
    /\ KeepOK(p, proc[p], conf, label, current)
IInv == Typed /\ \A p \in Proc : ProcOK(p)

\* The keys in the local file and in temporary files of it.
LocalKeys == ({kfile} \union ToSet(side)) \ {None}

\* A key leaves the local files only after a process has decided so at a
\* moment when no secret was saved with it (persist_local_backup): no crash, no
\* fault and no other process makes that decision stale.
LocalKeysKept == [][LocalKeys \subseteq LocalKeys' \union replaced]_vars

----------------------------------------------------------------------------
(* The keys *)

Known == (Stored \union replaced \union slow) \ {None}
\* A key had from the keychain, or about to be checked or kept.
Taken == {"verify", "verifylocal", "persist", "write", "rename"}

\* Every key a process holds is kept somewhere; x are the keys that are, z those
\* of late writes.  The keychain it found empty still is, or holds one of z.
HoldsKnown(p, r, kc, x, z) ==
    /\ r.local # None => r.local \in x
    /\ r.cache \notin {None, Failed} => r.cache \in x
    /\ Encrypted(r.text) \subseteq x
    /\ r.pc \in Taken => r.key \in x
    /\ r.pc \in {"migrate", "mint", "mintchain", "mintset"} /\ p \notin NoBus
         => kc \in {None} \union z
KInv ==
    /\ Encrypted(conf) \subseteq Known
    /\ \A p \in Proc : HoldsKnown(p, proc[p], keychain, Known, slow)

----------------------------------------------------------------------------
(* Sequences and types *)

Extends(t, s, e) == t = Append(s, e)
LEMMA ToSetAppend ==
  ASSUME NEW S, NEW s \in Seq(S), NEW e \in S, NEW t, Extends(t, s, e)
  PROVE  t \in Seq(S) /\ ToSet(t) = ToSet(s) \union {e} /\ t # <<>> /\ t[Len(t)] = e
<1>1. /\ t \in Seq(S) /\ Len(s) \in Nat /\ DOMAIN s = 1 .. Len(s)
      /\ DOMAIN t = 1 .. Len(s) + 1 /\ Len(t) = Len(s) + 1
      /\ t[Len(s) + 1] = e /\ \A i \in 1 .. Len(s) : t[i] = s[i]
  BY DEF Extends
<1>2. ToSet(t) \subseteq ToSet(s) \union {e}
  <2>1. ASSUME NEW i \in DOMAIN t PROVE t[i] \in ToSet(s) \union {e}
    <3>1. i \in DOMAIN s \/ i = Len(s) + 1
      BY <1>1
    <3>2. QED  BY <1>1, <3>1 DEF ToSet
  <2>2. QED  BY <2>1 DEF ToSet
<1>3. ToSet(s) \union {e} \subseteq ToSet(t)
  <2>1. ASSUME NEW i \in DOMAIN s PROVE s[i] \in ToSet(t)
    <3>1. i \in DOMAIN t /\ t[i] = s[i]
      BY <1>1
    <3>2. QED  BY <3>1 DEF ToSet
  <2>2. e \in ToSet(t)
    <3>1. Len(s) + 1 \in DOMAIN t
      BY <1>1
    <3>2. QED  BY <1>1, <3>1 DEF ToSet
  <2>3. QED  BY <2>1, <2>2 DEF ToSet
<1>4. t # <<>> /\ t[Len(t)] = e
  BY <1>1
<1>5. QED  BY <1>1, <1>2, <1>3, <1>4

LEMMA LastFront ==
  ASSUME NEW S, NEW s \in Seq(S), s # <<>>
  PROVE  /\ Last(s) \in S /\ Last(s) = s[Len(s)] /\ Front(s) \in Seq(S)
         /\ ToSet(s) = ToSet(Front(s)) \union {Last(s)}
<1> DEFINE f == Front(s)
<1>1. Len(s) \in Nat \ {0} /\ DOMAIN s = 1 .. Len(s) /\ s[Len(s)] \in S
  OBVIOUS
<1>2. /\ f \in Seq(S) /\ DOMAIN f = 1 .. Len(s) - 1
      /\ \A i \in 1 .. Len(s) - 1 : f[i] = s[i]
  BY <1>1 DEF Front
<1> HIDE DEF f
<1>3. Last(s) = s[Len(s)]
  BY DEF Last
<1>4. ToSet(s) \subseteq ToSet(f) \union {s[Len(s)]}
  <2>1. ASSUME NEW i \in DOMAIN s PROVE s[i] \in ToSet(f) \union {s[Len(s)]}
    <3>1. i \in DOMAIN f \/ i = Len(s)
      BY <1>1, <1>2
    <3>2. QED  BY <1>2, <3>1 DEF ToSet
  <2>2. QED  BY <2>1 DEF ToSet
<1>5. ToSet(f) \union {s[Len(s)]} \subseteq ToSet(s)
  <2>1. ASSUME NEW i \in DOMAIN f PROVE f[i] \in ToSet(s)
    <3>1. i \in DOMAIN s /\ f[i] = s[i]
      BY <1>1, <1>2
    <3>2. QED  BY <3>1 DEF ToSet
  <2>2. Len(s) \in DOMAIN s
    BY <1>1
  <2>3. QED  BY <2>1, <2>2 DEF ToSet
<1>6. QED  BY <1>1, <1>2, <1>3, <1>4, <1>5 DEF f

LEMMA LeastIndex ==
  ASSUME NEW I \in SUBSET Nat, I # {}
  PROVE  Min(I) \in I
<1>1. PICK x \in I : \A y \in I : ~(<<y, x>> \in OpToRel(<, Nat))
  BY NatLessThanWellFounded, WFMin
<1>2. ASSUME NEW y \in I PROVE x <= y
  <2>1. x \in Nat /\ y \in Nat
    OBVIOUS
  <2>2. <<y, x>> \in Nat \X Nat /\ <<y, x>>[1] = y /\ <<y, x>>[2] = x
    BY <2>1
  <2>3. <<y, x>> \in OpToRel(<, Nat) <=> <<y, x>>[1] < <<y, x>>[2]
    BY <2>2, Zenon DEF OpToRel
  <2>4. ~(y < x)
    BY <1>1, <2>2, <2>3, Zenon
  <2>5. QED  BY <2>1, <2>4
<1>3. QED  BY <1>2 DEF Min

LEMMA RemoveFirstFacts ==
  ASSUME NEW S, NEW s \in Seq(S), NEW e, Contains(s, e)
  PROVE  /\ RemoveFirst(s, e) \in Seq(S)
         /\ ToSet(s) \subseteq ToSet(RemoveFirst(s, e)) \union {e}
<1> DEFINE I == {i \in 1 .. Len(s) : s[i] = e}
           n == SelectInSeq(s, LAMBDA v : v = e)
           t == RemoveAt(s, n)
<1>1. Len(s) \in Nat /\ DOMAIN s = 1 .. Len(s)
  OBVIOUS
<1>2. I # {} /\ I \in SUBSET Nat
  BY <1>1 DEF Contains
<1>3. n = Min(I)
  BY <1>2 DEF SelectInSeq
<1>4. n \in 1 .. Len(s) /\ s[n] = e
  BY <1>2, <1>3, LeastIndex
<1>5. RemoveFirst(s, e) = t
  BY DEF RemoveFirst, Contains
<1> HIDE DEF n
<1> DEFINE a == SubSeq(s, 1, n - 1)
           b == SubSeq(s, n + 1, Len(s))
<1>6. /\ a \in Seq(S) /\ Len(a) = n - 1 /\ \A i \in 1 .. n - 1 : a[i] = s[i]
      /\ b \in Seq(S) /\ Len(b) = Len(s) - n
      /\ \A i \in 1 .. Len(s) - n : b[i] = s[n + i]
  <2>1. a \in Seq(S) /\ Len(a) = n - 1 /\ \A i \in 1 .. n - 1 : a[i] = s[i]
    BY <1>1, <1>4
  <2>2. \A i \in n + 1 .. Len(s) : s[i] \in S
    BY <1>1, <1>4
  <2>3. /\ b \in Seq(S)
        /\ Len(b) = IF n + 1 <= Len(s) THEN Len(s) - (n + 1) + 1 ELSE 0
        /\ \A i \in 1 .. Len(s) - (n + 1) + 1 : b[i] = s[n + 1 + i - 1]
    <3>1. n + 1 \in Int /\ Len(s) \in Int
      BY <1>1, <1>4
    <3>2. QED  BY <2>2, <3>1, SubSeqProperties
  <2>4. Len(b) = Len(s) - n
    <3> HIDE DEF b
    <3>1. n \in Nat /\ n <= Len(s) /\ Len(s) \in Nat
      BY <1>1, <1>4
    <3>2. QED  BY <2>3, <3>1
  <2>5. ASSUME NEW i \in 1 .. Len(s) - n PROVE b[i] = s[n + i]
    <3>1. i \in 1 .. Len(s) - (n + 1) + 1 /\ n + 1 + i - 1 = n + i
      BY <1>1, <1>4
    <3>2. QED  BY <2>3, <3>1
  <2>6. QED  BY <2>1, <2>3, <2>4, <2>5
<1>7. t = a \o b
  BY DEF RemoveAt
<1> HIDE DEF a, b, t
<1>8. /\ t \in Seq(S) /\ DOMAIN t = 1 .. Len(s) - 1
      /\ \A i \in 1 .. n - 1 : t[i] = s[i]
      /\ \A i \in n .. Len(s) - 1 : t[i] = s[i + 1]
  <2>1. t \in Seq(S) /\ Len(t) = (n - 1) + (Len(s) - n)
    BY <1>6, <1>7
  <2>2. ASSUME NEW i \in 1 .. n - 1 PROVE t[i] = s[i]
    BY <1>1, <1>4, <1>6, <1>7
  <2>3. ASSUME NEW i \in n .. Len(s) - 1 PROVE t[i] = s[i + 1]
    <3>1. i - (n - 1) \in 1 .. Len(s) - n /\ n + (i - (n - 1)) = i + 1 /\ i \in Nat /\ i > n - 1
      BY <1>1, <1>4
    <3>2. t[i] = b[i - (n - 1)]
      BY <1>1, <1>4, <1>6, <1>7, <3>1
    <3>3. QED  BY <1>6, <3>1, <3>2
  <2>4. QED  BY <1>1, <1>4, <2>1, <2>2, <2>3
<1>9. ASSUME NEW i \in DOMAIN s PROVE s[i] \in ToSet(t) \union {e}
  <2>1. CASE i < n
    <3>1. i \in 1 .. n - 1 /\ i \in DOMAIN t
      BY <1>1, <1>4, <1>8, <2>1
    <3>2. QED  BY <1>8, <3>1 DEF ToSet
  <2>2. CASE i > n
    <3>1. i - 1 \in n .. Len(s) - 1 /\ i - 1 \in DOMAIN t /\ (i - 1) + 1 = i
      BY <1>1, <1>4, <1>8, <2>2
    <3>2. t[i - 1] = s[i]
      BY <1>8, <3>1
    <3>3. QED  BY <3>1, <3>2 DEF ToSet
  <2>3. QED  BY <1>1, <1>4, <2>1, <2>2
<1>10. QED  BY <1>5, <1>8, <1>9 DEF ToSet

LEMMA MoreKeys ==
  ASSUME NEW k \in Nat, NEW m \in Nat, k <= m
  PROVE  /\ 0 .. k \subseteq 0 .. m /\ 1 .. k \subseteq 1 .. m
         /\ Confs(k) \subseteq Confs(m) /\ Recs(k) \subseteq Recs(m)
<1>1. 0 .. k \subseteq 0 .. m /\ 1 .. k \subseteq 1 .. m
  OBVIOUS
<1>2. Texts(k) \subseteq Texts(m)
  BY <1>1 DEF Texts
<1>3. Confs(k) \subseteq Confs(m)
  BY <1>2 DEF Confs
<1>4. Recs(k) \subseteq Recs(m)
  <2>1. {Failed} \union 0 .. k \subseteq {Failed} \union 0 .. m
    BY <1>1
  <2>2. QED  BY <1>1, <1>3, <2>1, Zenon DEF Recs
<1>5. QED  BY <1>1, <1>3, <1>4

----------------------------------------------------------------------------
(* A step of one process *)

LocksOnly(p) == \/ lock' = lock
                \/ lock = None /\ lock' = p
                \/ lock = p /\ lock' = None
\* The local files stay, or the newest temporary file is taken for the one
\* that is missing, or the process holds the lock.
FilesMove(p) == \/ kfile' = kfile /\ side' = side
                \/ kfile = None /\ side # <<>> /\ kfile' = Last(side) /\ side' = Front(side)
                \/ proc[p].has
Becomes(p, r) ==
    /\ keys' \in Nat /\ keys <= keys' /\ keychain' \in 0 .. keys' /\ kfile' \in 0 .. keys'
    /\ side' \in Seq(1 .. keys') /\ late' \subseteq [by : Proc, key : 1 .. keys']
    /\ r \in Recs(keys') /\ proc' = [proc EXCEPT ![p] = r]
    /\ LocksOnly(p) /\ FilesMove(p)
    /\ replaced \subseteq replaced' /\ LocalKeys \subseteq LocalKeys' \union replaced
    /\ \/ conf' = conf /\ label' = label /\ current' \subseteq current \union {p}
       \/ /\ conf' \in Confs(keys') /\ label' \in Labels /\ Named(conf', label')
          /\ current' \subseteq {p}
    /\ PlaceOK(p, r, lock')
    /\ FileOK(r, kfile', side', replaced')
    /\ KeepOK(p, r, conf', label', current')

LEMMA Nothing == None \notin Proc /\ None = 0 /\ Failed = -1
BY SecretAssumption DEF None, Failed

LEMMA ProcTypes ==
  ASSUME IInv, NEW p \in Proc
  PROVE  /\ keys \in Nat /\ proc[p] \in Recs(keys)
         /\ PlaceOK(p, proc[p], lock)
         /\ FileOK(proc[p], kfile, side, replaced)
         /\ KeepOK(p, proc[p], conf, label, current)
BY DEF IInv, Typed, ProcOK

\* What another process does to the shared state leaves a process in order.
LEMMA OthersKept ==
  ASSUME IInv, NEW p \in Proc, NEW r, Becomes(p, r), NEW q \in Proc, q # p
  PROVE  ProcOK(q)'
<1>1. proc'[q] = proc[q] /\ lock \in Proc \union {None}
  BY DEF Becomes, IInv, Typed
<1>2. /\ PlaceOK(q, proc[q], lock) /\ FileOK(proc[q], kfile, side, replaced)
      /\ KeepOK(q, proc[q], conf, label, current)
  BY ProcTypes
<1> DEFINE o == proc[q]
<1>3. PlaceOK(q, o, lock')
  BY <1>2, Nothing DEF PlaceOK, Becomes, LocksOnly
<1>4. FileOK(o, kfile', side', replaced')
  <2>1. replaced \subseteq replaced'
    BY DEF Becomes
  <2>2. CASE kfile' = kfile /\ side' = side
    BY <1>2, <2>1, <2>2 DEF FileOK
  <2>3. CASE kfile = None /\ side # <<>> /\ kfile' = Last(side) /\ side' = Front(side)
    <3>1. Last(side) = side[Len(side)] /\ side[Len(side)] \in 1 .. keys /\ keys \in Nat
      BY <2>3, LastFront DEF IInv, Typed
    <3>2. kfile' # None /\ kfile' = side[Len(side)]
      BY <2>3, <3>1, Nothing
    <3>3. QED  BY <1>2, <2>1, <2>3, <3>2 DEF FileOK
  <2>4. CASE proc[p].has
    <3>1. lock = p
      BY <2>4, ProcTypes DEF PlaceOK
    <3>2. o.pc \notin Writing
      BY <1>2, <3>1 DEF PlaceOK
    <3>3. QED  BY <3>2 DEF FileOK, Writing
  <2>5. QED  BY <2>2, <2>3, <2>4 DEF Becomes, FilesMove
<1>5. KeepOK(q, o, conf', label', current')
  <2>1. CASE conf' = conf /\ label' = label /\ current' \subseteq current \union {p}
    BY <1>2, <2>1 DEF KeepOK
  <2>2. CASE current' \subseteq {p}
    BY <1>2, <2>2 DEF KeepOK
  <2>3. QED  BY <2>1, <2>2 DEF Becomes
<1>6. QED  BY <1>1, <1>3, <1>4, <1>5 DEF ProcOK

LEMMA BecomesInv ==
  ASSUME IInv, NEW p \in Proc, NEW r, Becomes(p, r)
  PROVE  IInv' /\ LocalKeys \subseteq LocalKeys' \union replaced
<1>1. /\ proc \in [Proc -> Recs(keys)] /\ keys \in Nat /\ keys' \in Nat /\ keys <= keys'
      /\ r \in Recs(keys') /\ proc' = [proc EXCEPT ![p] = r]
  BY DEF IInv, Typed, Becomes
<1>2. Recs(keys) \subseteq Recs(keys') /\ Confs(keys) \subseteq Confs(keys')
  BY <1>1, MoreKeys
<1>3. proc' \in [Proc -> Recs(keys')] /\ proc'[p] = r
  BY <1>1, <1>2
<1>4. Typed'
  <2>1. conf \in Confs(keys) /\ label \in Labels /\ Named(conf, label)
        /\ lock \in Proc \union {None}
    BY DEF IInv, Typed
  <2>2. conf' \in Confs(keys') /\ label' \in Labels /\ Named(conf, label)'
    BY <1>2, <2>1 DEF Becomes
  <2>3. lock' \in Proc \union {None}
    BY <2>1 DEF Becomes, LocksOnly
  <2>4. QED  BY <1>3, <2>2, <2>3 DEF Typed, Becomes
<1>5. ProcOK(p)'
  BY <1>3 DEF ProcOK, Becomes
<1>6. ASSUME NEW q \in Proc PROVE ProcOK(q)'
  BY <1>5, OthersKept
<1>7. QED  BY <1>4, <1>6 DEF IInv, Becomes

\* Steps that leave what is shared alone, except the lock.
Still == UNCHANGED <<material, file>>
LEMMA StillBecomes ==
  ASSUME IInv, NEW p \in Proc, NEW r \in Recs(keys), Still, LocksOnly(p),
         Put(p, r), PlaceOK(p, r, lock'), FileOK(r, kfile, side, replaced),
         KeepOK(p, r, conf, label, current)
  PROVE  Becomes(p, r)
<1>1. /\ keys' = keys /\ keychain' = keychain /\ kfile' = kfile /\ side' = side
      /\ late' = late /\ replaced' = replaced
      /\ conf' = conf /\ label' = label /\ current' = current
  BY DEF Still, material, file
<1>2. LocalKeys' = LocalKeys
  BY <1>1 DEF LocalKeys
<1>3. keys <= keys
  BY DEF IInv, Typed
<1>4. QED  BY <1>1, <1>2, <1>3 DEF Becomes, FilesMove, Put, IInv, Typed

\* A process that computes the key knows of the file what it knew; it had no
\* key before.
LEMMA KeepMoved ==
  ASSUME NEW k \in Nat, NEW o \in Recs(k), NEW r, NEW t \in Confs(k), NEW l, NEW p, NEW C,
         KeepOK(p, o, t, l, C),
         o.pc \notin AtRest, r.pc \notin AtRest,
         r.for = o.for, r.text = o.text, r.mem = o.mem, r.mine = o.mine,
         r.labels = o.labels, r.names = o.names,
         r.cache = o.cache \/ o.cache \in {None, Failed}
  PROVE  KeepOK(p, r, t, l, C)
<1>1. Loading(r) = Loading(o) /\ Saves(r) = Saves(o)
  BY DEF Loading, Saves
<1>2. ASSUME KnowsAll(o, t) PROVE KnowsAll(r, t)
  <2>1. ASSUME NEW c \in Settled(r) \ r.mine PROVE Agrees(r.mem[c], t[c], r.cache)
    <3>1. c \in Conn /\ c \in Settled(o) \ o.mine
      BY DEF Settled, Places
    <3>2. Agrees(o.mem[c], t[c], o.cache)
      BY <1>2, <3>1 DEF KnowsAll
    <3>3. t[c] \in {Absent, Plain, Empty} \union 1 .. k
      BY <3>1 DEF Confs, Texts
    <3>4. t[c] \notin {Absent, Plain, Empty} => t[c] # None /\ t[c] # Failed
      BY <3>3 DEF None, Failed, Empty
    <3>5. QED  BY <3>2, <3>4 DEF Agrees
  <2>2. QED  BY <2>1 DEF KnowsAll
<1>3. Borne(r) /\ (Traced(o, l) => Traced(r, l))
  BY DEF KeepOK, Borne, Traced
<1>4. QED  BY <1>1, <1>2, <1>3 DEF KeepOK

LEMMA RecTypes ==
  ASSUME IInv, NEW p \in Proc
  PROVE  /\ proc[p] \in Recs(keys) /\ conf \in Confs(keys)
         /\ label \in Labels /\ Named(conf, label)
         /\ proc[p].cache \in {Failed} \union 0 .. keys
         /\ proc[p].local \in 0 .. keys /\ proc[p].key \in 0 .. keys
         /\ proc[p].text \in Confs(keys) /\ proc[p].labels \in Labels
         /\ proc[p].mem \in [Conn -> Mems] /\ proc[p].names \in [Conn -> Seq(Name)]
         /\ proc[p].mine \in SUBSET Conn
         /\ keychain \in 0 .. keys /\ kfile \in 0 .. keys /\ keys \in Nat
         /\ None \in 0 .. keys
<1>1. proc[p] \in Recs(keys)
  BY ProcTypes
<1>2. /\ proc[p].cache \in {Failed} \union 0 .. keys
      /\ proc[p].local \in 0 .. keys /\ proc[p].key \in 0 .. keys
      /\ proc[p].text \in Confs(keys) /\ proc[p].labels \in Labels
      /\ proc[p].mem \in [Conn -> Mems] /\ proc[p].names \in [Conn -> Seq(Name)]
      /\ proc[p].mine \in SUBSET Conn
  BY <1>1 DEF Recs
<1>3. keys \in Nat
  BY DEF IInv, Typed
<1>4. None \in 0 .. keys
  BY <1>3 DEF None
<1>5. QED  BY <1>1, <1>2, <1>3, <1>4 DEF IInv, Typed

\* Whoever is neither computing nor writing the key holds no lock.
LEMMA NoLock ==
  ASSUME IInv, NEW p \in Proc, proc[p].pc \notin Computing \union Writing
  PROVE  ~proc[p].has
BY ProcTypes DEF PlaceOK

LEMMA Finished ==
  ASSUME IInv, NEW p \in Proc, proc[p].pc \in Computing \union Writing,
         NEW k \in 0 .. keys, Finish(p, k)
  PROVE  \E r \in Recs(keys) :
           /\ Put(p, r) /\ LocksOnly(p) /\ r.pc = "use"
           /\ r.cache = (IF k = None THEN Failed ELSE k)
           /\ r.text = proc[p].text /\ r.local = None
           /\ PlaceOK(p, r, lock') /\ KeepOK(p, r, conf, label, current)
           /\ \A a, b, c : FileOK(r, a, b, c)
<1> DEFINE o == proc[p]
           f == FALSE
           z == IF k = None THEN Failed ELSE k
           r == [o EXCEPT !.pc = "use", !.cache = z, !.has = f, !.local = None,
                          !.inv = {}, !.key = None]
<1>1. Put(p, r) /\ lock' = IF lock = p THEN None ELSE lock
  BY DEF Finish
<1>2. /\ o \in Recs(keys) /\ KeepOK(p, o, conf, label, current) /\ PlaceOK(p, o, lock)
      /\ keys \in Nat /\ conf \in Confs(keys) /\ None \in 0 .. keys
  BY ProcTypes, RecTypes
<1>3. f \in BOOLEAN /\ z \in {Failed} \union 0 .. keys /\ {} \in SUBSET Int /\ "use" \in Pcs
  BY DEF Pcs
<1>4. o.pc \notin AtRest /\ o.cache \in {None, Failed}
  BY <1>2 DEF PlaceOK, Computing, Writing, AtRest
<1>5. ~f /\ (z = IF k = None THEN Failed ELSE k)
  OBVIOUS
<1> HIDE DEF f, z, o
<1>6. /\ r \in Recs(keys) /\ r.pc = "use" /\ r.cache = z /\ r.has = f /\ r.local = None
      /\ r.for = o.for /\ r.text = o.text /\ r.mem = o.mem /\ r.mine = o.mine
      /\ r.labels = o.labels /\ r.names = o.names
  BY <1>2, <1>3 DEF Recs
<1> HIDE DEF r
<1>7. KeepOK(p, r, conf, label, current)
  <2>1. r.pc \notin AtRest
    BY <1>6 DEF AtRest
  <2>2. QED  BY <1>2, <1>4, <1>6, <2>1, KeepMoved
<1>8. PlaceOK(p, r, lock')
  BY <1>5, <1>6 DEF PlaceOK, Computing, Writing, HasKeyPcs
<1>9. \A a, b, c : FileOK(r, a, b, c)
  BY <1>6 DEF FileOK
<1>10. LocksOnly(p)
  BY <1>1 DEF LocksOnly
<1>11. QED  BY <1>1, <1>5, <1>6, <1>7, <1>8, <1>9, <1>10 DEF o

LEMMA FinishStill ==
  ASSUME IInv, NEW p \in Proc, proc[p].pc \in Computing \union Writing,
         NEW k \in 0 .. keys, Finish(p, k), Still
  PROVE  \E r : Becomes(p, r)
<1>1. PICK r \in Recs(keys) :
         /\ Put(p, r) /\ LocksOnly(p)
         /\ PlaceOK(p, r, lock') /\ KeepOK(p, r, conf, label, current)
         /\ \A a, b, c : FileOK(r, a, b, c)
  BY Finished
<1>2. Becomes(p, r)
  BY <1>1, StillBecomes
<1>3. QED  BY <1>2

\* A step of the computation from one place to another.
Goes(o, r) ==
    /\ o.pc \notin AtRest /\ r.pc \notin AtRest /\ r.cache = o.cache
    /\ r.has = o.has /\ r.for = o.for /\ r.text = o.text /\ r.mem = o.mem
    /\ r.mine = o.mine /\ r.labels = o.labels /\ r.names = o.names

LEMMA GoesKeep ==
  ASSUME IInv, NEW p \in Proc, NEW r, Goes(proc[p], r)
  PROVE  KeepOK(p, r, conf, label, current)
<1>1. /\ proc[p] \in Recs(keys) /\ conf \in Confs(keys) /\ keys \in Nat
      /\ KeepOK(p, proc[p], conf, label, current)
  BY ProcTypes, RecTypes
<1>2. QED  BY <1>1, KeepMoved DEF Goes

LEMMA GoTypes ==
  ASSUME IInv, NEW p \in Proc, proc[p].pc \notin AtRest, NEW pc \in Pcs \ AtRest,
         NEW r, r = [proc[p] EXCEPT !.pc = pc]
  PROVE  /\ r \in Recs(keys) /\ r.pc = pc /\ r.key = proc[p].key
         /\ r.local = proc[p].local /\ Goes(proc[p], r)
<1>1. proc[p] \in Recs(keys)
  BY ProcTypes
<1>2. /\ r \in Recs(keys) /\ r.pc = pc /\ r.cache = proc[p].cache
      /\ r.has = proc[p].has /\ r.for = proc[p].for /\ r.text = proc[p].text
      /\ r.mem = proc[p].mem /\ r.mine = proc[p].mine /\ r.labels = proc[p].labels
      /\ r.names = proc[p].names /\ r.key = proc[p].key /\ r.local = proc[p].local
  BY <1>1 DEF Recs
<1>3. QED  BY <1>2 DEF Goes

LEMMA GoIsPut ==
  ASSUME IInv, NEW p \in Proc, NEW pc, Go(p, pc)
  PROVE  Put(p, [proc[p] EXCEPT !.pc = pc])
BY DEF Go, Put

----------------------------------------------------------------------------
(* Names *)

LEMMA BearFacts ==
  ASSUME NEW S, NEW s \in Seq(S), NEW n \in S
  PROVE  /\ Bear(s, n) \in Seq(S) /\ Bear(s, n) # <<>>
         /\ ToSet(s) \subseteq ToSet(Bear(s, n)) /\ Len(s) <= Len(Bear(s, n))
<1>1. CASE Bear(s, n) = s /\ s # <<>>
  <2>1. Len(s) \in Nat
    OBVIOUS
  <2>2. QED  BY <1>1, <2>1
<1>2. CASE Bear(s, n) = Append(s, n)
  <2> DEFINE t == Append(s, n)
  <2>1. Extends(t, s, n) /\ Len(t) = Len(s) + 1 /\ Len(s) \in Nat
    BY DEF Extends
  <2> HIDE DEF t
  <2>2. t \in Seq(S) /\ ToSet(t) = ToSet(s) \union {n} /\ t # <<>>
    BY <2>1, ToSetAppend
  <2>3. Len(s) <= Len(t)
    BY <2>1
  <2>4. Bear(s, n) = t
    BY <1>2 DEF t
  <2>5. QED  BY <2>2, <2>3, <2>4
<1>3. QED  BY <1>1, <1>2 DEF Bear

LEMMA EndsOf ==
  ASSUME NEW S, NEW s \in Seq(S), s # <<>>
  PROVE  /\ Last(s) \in S /\ Last(s) \in ToSet(s) /\ Head(s) \in ToSet(s)
         /\ Len(s) <= 2 => ToSet(s) = {Head(s), Last(s)}
<1>1. /\ Len(s) \in Nat /\ Len(s) >= 1 /\ DOMAIN s = 1 .. Len(s)
      /\ Head(s) = s[1] /\ Last(s) = s[Len(s)] /\ s[Len(s)] \in S
  BY DEF Last
<1>2. 1 \in DOMAIN s /\ Len(s) \in DOMAIN s
  BY <1>1
<1>3. Last(s) \in ToSet(s) /\ Head(s) \in ToSet(s)
  BY <1>1, <1>2 DEF ToSet
<1>4. ASSUME Len(s) <= 2, NEW x \in ToSet(s) PROVE x \in {Head(s), Last(s)}
  <2>1. PICK i \in 1 .. Len(s) : x = s[i]
    BY <1>1 DEF ToSet
  <2>2. i = 1 \/ i = Len(s)
    <3>1. \A m \in Nat : m <= 2 => \A j \in 1 .. m : j = 1 \/ j = m
      OBVIOUS
    <3>2. QED  BY <1>1, <1>4, <3>1
  <2>3. QED  BY <1>1, <2>1, <2>2
<1>5. QED  BY <1>1, <1>3, <1>4

\* Names are only added: what is settled was settled before.
Longer(o, r) == \A c \in Conn : /\ ToSet(o.names[c]) \subseteq ToSet(r.names[c])
                                /\ Len(o.names[c]) <= Len(r.names[c])
LEMMA SettledBefore ==
  ASSUME NEW o, NEW r, Longer(o, r),
         o.names \in [Conn -> Seq(Name)], r.names \in [Conn -> Seq(Name)],
         NEW c \in Settled(r)
  PROVE  c \in Settled(o)
<1>1. c \in Conn /\ Len(r.names[c]) <= 2
  BY DEF Settled
<1>2. Len(o.names[c]) \in Nat /\ Len(r.names[c]) \in Nat /\ Len(o.names[c]) <= Len(r.names[c])
  BY <1>1 DEF Longer
<1>3. Len(o.names[c]) <= 2
  BY <1>1, <1>2
<1>4. \A d \in Conn : Places(o, d) \subseteq Places(r, d)
  BY DEF Places, Longer
<1>5. \A d \in Conn \ {c} : Places(o, c) \cap Places(o, d) = {}
  BY <1>1, <1>4 DEF Settled
<1>6. QED  BY <1>1, <1>3, <1>5 DEF Settled

\* The first connection of the list at a place.
LEMMA SlotFound ==
  ASSUME NEW r, NEW n, Slots(r, n) # {}
  PROVE  Min(Slots(r, n)) \in Slots(r, n)
<1>1. Slots(r, n) \in SUBSET Nat
  BY SecretAssumption DEF Slots, Listed
<1>2. QED  BY <1>1, LeastIndex

----------------------------------------------------------------------------
(* Loading and saving *)

\* A step that reads the list, or forgets that it did.
LEMMA ListBecomes ==
  ASSUME IInv, NEW p \in Proc, NEW r \in Recs(keys), LocksOnly(p),
         UNCHANGED <<material, conf, label>>, current' \subseteq current \union {p},
         Put(p, r), PlaceOK(p, r, lock'), FileOK(r, kfile, side, replaced),
         KeepOK(p, r, conf, label, current')
  PROVE  Becomes(p, r)
<1>1. /\ keys' = keys /\ keychain' = keychain /\ kfile' = kfile /\ side' = side
      /\ late' = late /\ replaced' = replaced /\ conf' = conf /\ label' = label
  BY DEF material
<1>2. LocalKeys' = LocalKeys
  BY <1>1 DEF LocalKeys
<1>3. keys <= keys
  BY DEF IInv, Typed
<1>4. QED  BY <1>1, <1>2, <1>3 DEF Becomes, FilesMove, Put, IInv, Typed

LEMMA LoadStep ==
  ASSUME IInv, NEW p \in Proc, Load(p)
  PROVE  \E r : Becomes(p, r)
<1> DEFINE o == proc[p]
           m == [c \in Conn |-> "absent"]
           n == [c \in Conn |-> <<>>]
           a == [o EXCEPT !.pc = "key", !.for = "load", !.text = conf, !.labels = label]
           b == [o EXCEPT !.mem = m, !.names = n, !.mine = {}]
<1>1. o.pc = "idle" /\ UNCHANGED <<material, conf, label>> /\ lock' = lock
  BY DEF Load, At
<1>2. \/ Put(p, a) /\ current' = current \union {p}
      \/ Put(p, b) /\ current' = current \ {p}
  <2>1. Idle.mem = m /\ Idle.names = n
    BY DEF Idle
  <2>2. QED  BY <2>1 DEF Load
<1>3. /\ o \in Recs(keys) /\ conf \in Confs(keys) /\ label \in Labels /\ Named(conf, label)
      /\ KeepOK(p, o, conf, label, current) /\ PlaceOK(p, o, lock) /\ ~o.has
  BY <1>1, ProcTypes, RecTypes, NoLock DEF Computing, Writing
<1>4. /\ "key" \in Pcs /\ {} \in SUBSET Conn /\ m \in [Conn -> Mems]
      /\ n \in [Conn -> Seq(Name)] /\ LocksOnly(p) /\ \A c \in Conn : m[c] = "absent"
  <2>1. <<>> \in Seq(Name)
    OBVIOUS
  <2>2. QED  BY <1>1, <2>1 DEF Pcs, LocksOnly, Mems
<1> HIDE DEF m, n, o
<1>5. /\ a \in Recs(keys) /\ a.pc = "key" /\ a.for = "load" /\ a.text = conf
      /\ a.labels = label /\ a.has = o.has /\ a.mem = o.mem /\ a.names = o.names
  BY <1>3, <1>4 DEF Recs
<1>6. /\ b \in Recs(keys) /\ b.pc = "idle" /\ b.mem = m /\ b.has = o.has
      /\ b.text = o.text /\ b.labels = o.labels
  BY <1>1, <1>3, <1>4 DEF Recs
<1> HIDE DEF a, b
<1>7. CASE Put(p, a) /\ current' = current \union {p}
  <2>1. PlaceOK(p, a, lock') /\ FileOK(a, kfile, side, replaced)
    BY <1>3, <1>5 DEF PlaceOK, FileOK, Computing, Writing, HasKeyPcs
  <2>2. KeepOK(p, a, conf, label, current')
    BY <1>3, <1>5 DEF KeepOK, Loading, Saves, AtRest, Borne
  <2>3. Becomes(p, a)
    BY <1>1, <1>4, <1>5, <1>7, <2>1, <2>2, ListBecomes
  <2>4. QED  BY <2>3
<1>8. CASE Put(p, b) /\ current' = current \ {p}
  <2>1. PlaceOK(p, b, lock') /\ FileOK(b, kfile, side, replaced)
    BY <1>3, <1>6 DEF PlaceOK, FileOK, Computing, Writing, HasKeyPcs
  <2>2. KeepOK(p, b, conf, label, current')
    BY <1>3, <1>4, <1>6, <1>8 DEF KeepOK, Borne
  <2>3. Becomes(p, b)
    BY <1>1, <1>4, <1>6, <1>8, <2>1, <2>2, ListBecomes
  <2>4. QED  BY <2>3
<1>9. QED  BY <1>2, <1>7, <1>8

\* The changes the user makes.
Edits(p) ==
    \/ \E c \in Conn, n \in Name, what \in {"text", "empty", "other"} : Edit(p, c, n, what)
    \/ \E c \in Conn, n \in Name, what \in {"text", "empty"} : New(p, c, n, what)
    \/ \E c \in Conn : Delete(p, c)

\* A list o that was changed to r: secrets of connections that are settled and
\* that the user did not touch stay.
Altered(o, r) ==
    /\ r.pc = "previous" /\ r.has = o.has /\ r.local = o.local /\ r.cache = o.cache
    /\ r.text = o.text /\ r.labels = o.labels /\ r.for = o.for
    /\ o.mine \subseteq r.mine /\ Longer(o, r)
    /\ (Borne(o) => Borne(r))
    /\ \A c \in Settled(r) \ r.mine : r.mem[c] = o.mem[c]

\* The connection s of the list was given the secret x and the name n.
LEMMA AlteredAt ==
  ASSUME IInv, NEW p \in Proc, NEW s \in Conn, NEW n \in Name, NEW x \in Mems,
         NEW mine \in SUBSET Conn, proc[p].mine \subseteq mine,
         s \in Settled(proc[p]) \ mine => x = proc[p].mem[s],
         NEW r, r = [proc[p] EXCEPT !.pc = "previous", !.mem[s] = x,
                                    !.names[s] = Bear(@, n), !.mine = mine]
  PROVE  r \in Recs(keys) /\ Altered(proc[p], r)
<1> DEFINE o == proc[p]
           M == [o.mem EXCEPT ![s] = x]
           N == [o.names EXCEPT ![s] = Bear(@, n)]
<1>1. /\ o \in Recs(keys) /\ o.mem \in [Conn -> Mems] /\ o.names \in [Conn -> Seq(Name)]
      /\ o.mine \in SUBSET Conn
  BY RecTypes
<1>2. /\ Bear(o.names[s], n) \in Seq(Name) /\ Bear(o.names[s], n) # <<>>
      /\ ToSet(o.names[s]) \subseteq ToSet(Bear(o.names[s], n))
      /\ Len(o.names[s]) <= Len(Bear(o.names[s], n))
  BY <1>1, BearFacts
<1>3. /\ M \in [Conn -> Mems] /\ M[s] = x /\ \A c \in Conn \ {s} : M[c] = o.mem[c]
      /\ N \in [Conn -> Seq(Name)] /\ N[s] = Bear(o.names[s], n)
      /\ \A c \in Conn \ {s} : N[c] = o.names[c]
  BY <1>1, <1>2
<1>4. r = [o EXCEPT !.pc = "previous", !.mem = M, !.names = N, !.mine = mine]
  BY <1>1 DEF Recs
<1>5. "previous" \in Pcs /\ o.mine \subseteq mine
  BY DEF Pcs, AtRest
<1> HIDE DEF M, N, o
<1>6. /\ r \in Recs(keys) /\ r.pc = "previous" /\ r.has = o.has /\ r.local = o.local
      /\ r.cache = o.cache /\ r.text = o.text /\ r.labels = o.labels /\ r.for = o.for
      /\ r.mem = M /\ r.names = N /\ r.mine = mine
  <2>1. PICK a : a = [o EXCEPT !.pc = "previous", !.mine = mine]
    OBVIOUS
  <2>2. /\ a \in Recs(keys) /\ a.pc = "previous" /\ a.has = o.has /\ a.local = o.local
        /\ a.cache = o.cache /\ a.text = o.text /\ a.labels = o.labels /\ a.for = o.for
        /\ a.mine = mine
    BY <1>1, <1>5, <2>1 DEF Recs
  <2>3. r = [a EXCEPT !.mem = M, !.names = N]
    BY <1>1, <1>4, <2>1 DEF Recs
  <2>4. /\ r \in Recs(keys) /\ r.pc = a.pc /\ r.has = a.has /\ r.local = a.local
        /\ r.cache = a.cache /\ r.text = a.text /\ r.labels = a.labels /\ r.for = a.for
        /\ r.mem = M /\ r.names = N /\ r.mine = a.mine
    BY <1>3, <2>2, <2>3 DEF Recs
  <2>5. QED  BY <2>2, <2>4
<1>7. Longer(o, r)
  <2>1. ASSUME NEW c \in Conn
        PROVE  ToSet(o.names[c]) \subseteq ToSet(N[c]) /\ Len(o.names[c]) <= Len(N[c])
    <3>1. CASE c = s
      BY <1>2, <1>3, <3>1
    <3>2. CASE c # s
      <4>1. Len(o.names[c]) \in Nat
        BY <1>1
      <4>2. QED  BY <1>3, <3>2, <4>1
    <3>3. QED  BY <3>1, <3>2
  <2>2. QED  BY <1>6, <2>1 DEF Longer
<1>8. Borne(o) => Borne(r)
  BY <1>2, <1>3, <1>6 DEF Borne
<1>9. ASSUME NEW c \in Settled(r) \ r.mine PROVE r.mem[c] = o.mem[c]
  <2>1. c \in Settled(o)
    BY <1>1, <1>3, <1>6, <1>7, SettledBefore
  <2>2. c \in Conn /\ c \notin mine
    BY <1>6 DEF Settled
  <2>3. QED  BY <1>3, <1>6, <2>1, <2>2 DEF o
<1>10. QED  BY <1>5, <1>6, <1>7, <1>8, <1>9 DEF Altered, o

LEMMA EditAlters ==
  ASSUME IInv, NEW p \in Proc, NEW c \in Conn, NEW n \in Name,
         NEW what \in {"text", "empty", "other"}, Edit(p, c, n, what)
  PROVE  \E r \in Recs(keys) : Put(p, r) /\ Altered(proc[p], r)
<1> DEFINE o == proc[p]
           S == Slots(o, Now(o, c))
           s == Min(S)
           x == Entered(o, c, s, what)
           mine == IF what = "other" THEN o.mine ELSE o.mine \union {s}
           r == [o EXCEPT !.pc = "previous", !.mem[s] = x, !.names[s] = Bear(@, n),
                          !.mine = mine]
<1>1. c \in Listed(o)
  BY DEF Edit
<1>2. o \in Recs(keys) /\ o.mine \in SUBSET Conn /\ o.names \in [Conn -> Seq(Name)] /\ Borne(o)
      /\ o.mem \in [Conn -> Mems]
  BY RecTypes, ProcTypes DEF KeepOK
<1>3. Put(p, r)
  <2>1. Put(p, [o EXCEPT !.pc = "previous", !.mem[s] = x, !.names[s] = Bear(@, n),
                         !.mine = IF what = "other" THEN @ ELSE @ \union {s}])
    BY DEF Edit
  <2>2. r = [o EXCEPT !.pc = "previous", !.mem[s] = x, !.names[s] = Bear(@, n),
                      !.mine = IF what = "other" THEN @ ELSE @ \union {s}]
    BY <1>2 DEF Recs
  <2>3. QED  BY <2>1, <2>2
<1>4. c \in S
  BY <1>1 DEF Slots
<1>5. s \in S /\ s \in Conn /\ s \in Listed(o)
  <2>1. s \in S
    BY <1>4, SlotFound
  <2>2. S \subseteq Listed(o) /\ Listed(o) \subseteq Conn
    BY DEF Slots, Listed
  <2>3. QED  BY <2>1, <2>2
<1>6. x \in Mems
  BY DEF Entered, Mems
<1>7. mine \in SUBSET Conn /\ o.mine \subseteq mine
  BY <1>2, <1>5
<1>8. ASSUME s \in Settled(o) \ mine PROVE x = o.mem[s]
  <2>1. what = "other" /\ s \in Settled(o)
    BY <1>8
  <2>2. Place[Now(o, s)] = Place[Now(o, c)]
    BY <1>5 DEF Slots
  <2>3. ASSUME NEW d \in Conn, d \in Listed(o) PROVE Place[Now(o, d)] \in Places(o, d)
    <3>1. o.names[d] # <<>> /\ o.names[d] \in Seq(Name)
      BY <1>2, <2>3 DEF Listed, Borne
    <3>2. Now(o, d) \in ToSet(o.names[d])
      BY <3>1, EndsOf DEF Now
    <3>3. QED  BY <3>2 DEF Places
  <2>4. Place[Now(o, s)] \in Places(o, s) \cap Places(o, c)
    BY <1>1, <1>5, <2>2, <2>3
  <2>5. s = c
    BY <2>1, <2>4 DEF Settled
  <2>6. o.mem[c] \in {"text", "empty", "failed"}
    BY <1>1, <1>2 DEF Listed, Mems
  <2> HIDE DEF s, o
  <2>7. QED  BY <2>1, <2>5, <2>6 DEF Entered
<1> HIDE DEF s, x, mine
<1>9. r \in Recs(keys) /\ Altered(o, r)
  BY <1>5, <1>6, <1>7, <1>8, AlteredAt
<1>10. QED  BY <1>3, <1>9

LEMMA NewAlters ==
  ASSUME IInv, NEW p \in Proc, NEW c \in Conn, NEW n \in Name,
         NEW what \in {"text", "empty"}, New(p, c, n, what)
  PROVE  \E r \in Recs(keys) : Put(p, r) /\ Altered(proc[p], r)
<1> DEFINE o == proc[p]
           mine == o.mine \union {c}
           r == [o EXCEPT !.pc = "previous", !.mem[c] = what, !.names[c] = Bear(@, n),
                          !.mine = mine]
<1>1. o \in Recs(keys) /\ o.mine \in SUBSET Conn
  BY RecTypes
<1>2. Put(p, r)
  <2>1. Put(p, [o EXCEPT !.pc = "previous", !.mem[c] = what, !.names[c] = Bear(@, n),
                         !.mine = @ \union {c}])
    BY DEF New
  <2>2. r = [o EXCEPT !.pc = "previous", !.mem[c] = what, !.names[c] = Bear(@, n),
                      !.mine = @ \union {c}]
    BY <1>1 DEF Recs
  <2>3. QED  BY <2>1, <2>2
<1>3. mine \in SUBSET Conn /\ o.mine \subseteq mine /\ c \in mine /\ what \in Mems
  BY <1>1 DEF Mems
<1> HIDE DEF mine
<1>4. r \in Recs(keys) /\ Altered(o, r)
  BY <1>3, AlteredAt
<1>5. QED  BY <1>2, <1>4

LEMMA DeleteAlters ==
  ASSUME IInv, NEW p \in Proc, NEW c \in Conn, Delete(p, c)
  PROVE  \E r \in Recs(keys) : Put(p, r) /\ Altered(proc[p], r)
<1> DEFINE o == proc[p]
           M == [o.mem EXCEPT ![c] = "absent"]
           mine == o.mine \union {c}
           r == [o EXCEPT !.pc = "previous", !.mem = M, !.mine = mine]
<1>1. /\ o \in Recs(keys) /\ o.mine \in SUBSET Conn /\ o.mem \in [Conn -> Mems]
      /\ o.names \in [Conn -> Seq(Name)]
  BY RecTypes
<1>2. Put(p, r)
  <2>1. Put(p, [o EXCEPT !.pc = "previous", !.mem[c] = "absent", !.mine = @ \union {c}])
    BY DEF Delete
  <2>2. r = [o EXCEPT !.pc = "previous", !.mem[c] = "absent", !.mine = @ \union {c}]
    BY <1>1 DEF Recs
  <2>3. QED  BY <2>1, <2>2
<1>3. /\ mine \in SUBSET Conn /\ o.mine \subseteq mine /\ c \in mine
      /\ M \in [Conn -> Mems] /\ M[c] = "absent" /\ \A d \in Conn \ {c} : M[d] = o.mem[d]
      /\ "previous" \in Pcs
  BY <1>1 DEF Mems, Pcs, AtRest
<1> HIDE DEF mine, M, o
<1>4. /\ r \in Recs(keys) /\ r.pc = "previous" /\ r.has = o.has /\ r.local = o.local
      /\ r.cache = o.cache /\ r.text = o.text /\ r.labels = o.labels /\ r.for = o.for
      /\ r.mem = M /\ r.names = o.names /\ r.mine = mine
  BY <1>1, <1>3 DEF Recs
<1> HIDE DEF r
<1>5. Longer(o, r)
  <2>1. \A d \in Conn : Len(o.names[d]) \in Nat
    BY <1>1
  <2>2. QED  BY <1>4, <2>1 DEF Longer
<1>6. (Borne(o) => Borne(r)) /\ \A d \in Settled(r) \ r.mine : r.mem[d] = o.mem[d]
  BY <1>3, <1>4 DEF Borne, Settled
<1>7. Altered(o, r)
  BY <1>3, <1>4, <1>5, <1>6 DEF Altered
<1>8. QED  BY <1>2, <1>4, <1>7 DEF o

LEMMA EditsAlter ==
  ASSUME IInv, NEW p \in Proc, Edits(p)
  PROVE  /\ \E r \in Recs(keys) : Put(p, r) /\ Altered(proc[p], r)
         /\ proc[p].pc = "idle" /\ Still /\ lock' = lock
<1>1. \E r \in Recs(keys) : Put(p, r) /\ Altered(proc[p], r)
  BY EditAlters, NewAlters, DeleteAlters DEF Edits
<1>2. Changes(p)
  BY DEF Edits, Edit, New, Delete
<1>3. QED  BY <1>1, <1>2 DEF Changes, At, Still

LEMMA EditsStep ==
  ASSUME IInv, NEW p \in Proc, Edits(p)
  PROVE  \E r : Becomes(p, r)
<1> DEFINE o == proc[p]
<1>1. PICK r \in Recs(keys) : Put(p, r) /\ Altered(o, r)
  BY EditsAlter
<1>2. o.pc = "idle" /\ Still /\ lock' = lock /\ LocksOnly(p)
  BY EditsAlter DEF LocksOnly
<1>3. /\ KeepOK(p, o, conf, label, current) /\ PlaceOK(p, o, lock) /\ ~o.has
      /\ o.names \in [Conn -> Seq(Name)] /\ r.names \in [Conn -> Seq(Name)]
  BY <1>1, <1>2, ProcTypes, RecTypes, NoLock DEF Computing, Writing, Recs
<1>4. PlaceOK(p, r, lock') /\ FileOK(r, kfile, side, replaced)
  BY <1>1, <1>3 DEF Altered, PlaceOK, FileOK, Computing, Writing, HasKeyPcs
<1>5. ~Loading(r) /\ ~Saves(r) /\ ~Loading(o)
  BY <1>1, <1>2 DEF Altered, Loading, Saves, AtRest
<1>6. ASSUME KnowsAll(o, conf) PROVE KnowsAll(r, conf)
  <2>1. ASSUME NEW c \in Settled(r) \ r.mine PROVE Agrees(r.mem[c], conf[c], r.cache)
    <3>1. c \in Settled(o) \ o.mine
      BY <1>1, <1>3, SettledBefore DEF Altered
    <3>2. r.mem[c] = o.mem[c] /\ r.cache = o.cache
      BY <1>1 DEF Altered
    <3>3. QED  BY <1>6, <3>1, <3>2 DEF KnowsAll
  <2>2. QED  BY <2>1 DEF KnowsAll
<1>7. Traced(o, label) => Traced(r, label)
  BY <1>1 DEF Traced, Altered, Longer
<1>8. KeepOK(p, r, conf, label, current)
  BY <1>1, <1>3, <1>5, <1>6, <1>7 DEF KeepOK, Altered
<1>9. Becomes(p, r)
  BY <1>1, <1>2, <1>4, <1>8, StillBecomes
<1>10. QED  BY <1>9

LEMMA ReadPreviousStep ==
  ASSUME IInv, NEW p \in Proc, ReadPrevious(p)
  PROVE  \E r : Becomes(p, r)
<1> DEFINE o == proc[p]
<1>1. PICK text \in {conf, o.text}, labels \in {label, o.labels} :
        /\ Put(p, [o EXCEPT !.pc = "key", !.for = "save", !.text = text, !.labels = labels])
        /\ \/ text = conf /\ labels = label /\ current' = current
           \/ text = o.text /\ labels = o.labels /\ current' = current \ {p}
  <2>1. o \in Recs(keys)
    BY RecTypes
  <2>2. [o EXCEPT !.pc = "key", !.for = "save"]
          = [o EXCEPT !.pc = "key", !.for = "save", !.text = o.text, !.labels = o.labels]
    BY <2>1 DEF Recs
  <2>3. QED  BY <2>2 DEF ReadPrevious
<1> DEFINE r == [o EXCEPT !.pc = "key", !.for = "save", !.text = text, !.labels = labels]
<1>2. o.pc = "previous" /\ UNCHANGED <<material, conf, label>> /\ lock' = lock /\ Put(p, r)
  BY <1>1 DEF ReadPrevious, At
<1>3. /\ o \in Recs(keys) /\ conf \in Confs(keys) /\ label \in Labels /\ Named(conf, label)
      /\ KeepOK(p, o, conf, label, current) /\ PlaceOK(p, o, lock) /\ ~o.has
      /\ o.text \in Confs(keys) /\ o.labels \in Labels
  BY <1>2, ProcTypes, RecTypes, NoLock DEF Computing, Writing
<1>4. text \in Confs(keys) /\ labels \in Labels /\ "key" \in Pcs /\ LocksOnly(p)
  BY <1>2, <1>3 DEF Pcs, LocksOnly
<1>5. Named(text, labels) /\ (p \in current' => p \in current /\ text = conf /\ labels = label)
  BY <1>1, <1>3 DEF KeepOK
<1> HIDE DEF o
<1>6. /\ r \in Recs(keys) /\ r.pc = "key" /\ r.for = "save" /\ r.text = text
      /\ r.labels = labels /\ r.has = o.has /\ r.mem = o.mem /\ r.names = o.names
      /\ r.mine = o.mine /\ r.cache = o.cache
  BY <1>3, <1>4 DEF Recs
<1> HIDE DEF r
<1>7. PlaceOK(p, r, lock') /\ FileOK(r, kfile, side, replaced)
  BY <1>3, <1>6 DEF PlaceOK, FileOK, Computing, Writing, HasKeyPcs
<1>8. KeepOK(p, r, conf, label, current')
  <2>1. ~Loading(r) /\ ~Loading(o)
    BY <1>2, <1>6 DEF Loading, AtRest, o
  <2>2. Borne(r) /\ (Traced(o, label) => Traced(r, label))
    BY <1>3, <1>6 DEF KeepOK, Borne, Traced
  <2>3. KnowsAll(o, conf) => KnowsAll(r, conf)
    BY <1>6 DEF KnowsAll, Settled, Places
  <2>4. QED  BY <1>3, <1>5, <1>6, <2>1, <2>2, <2>3 DEF KeepOK
<1>9. current' \subseteq current \union {p}
  BY <1>1
<1>10. Becomes(p, r)
  BY <1>2, <1>4, <1>6, <1>7, <1>8, <1>9, ListBecomes
<1>11. QED  BY <1>10

LEMMA WantKeyStep ==
  ASSUME IInv, NEW p \in Proc, WantKey(p)
  PROVE  \E r : Becomes(p, r)
<1>1. PICK pc \in {"use", "lock"} :
        Go(p, pc) /\ (pc = "lock" => proc[p].cache \in {None, Failed})
  BY DEF WantKey
<1> DEFINE o == proc[p]
           r == [o EXCEPT !.pc = pc]
<1>2. o.pc = "key" /\ Still /\ lock' = lock /\ Put(p, r) /\ LocksOnly(p)
  BY <1>1, GoIsPut DEF WantKey, Still, At, LocksOnly
<1>3. PlaceOK(p, o, lock) /\ ~o.has
  BY <1>2, ProcTypes, NoLock DEF Computing, Writing
<1>4. r \in Recs(keys) /\ r.pc = pc /\ Goes(o, r)
  <2>1. pc \in Pcs \ AtRest /\ o.pc \notin AtRest
    BY <1>2 DEF Pcs, AtRest
  <2>2. QED  BY <2>1, GoTypes
<1> HIDE DEF r
<1>5. KeepOK(p, r, conf, label, current)
  BY <1>4, GoesKeep
<1>6. PlaceOK(p, r, lock') /\ FileOK(r, kfile, side, replaced)
  BY <1>1, <1>3, <1>4 DEF PlaceOK, FileOK, Computing, Writing, HasKeyPcs, Goes
<1>7. Becomes(p, r)
  BY <1>2, <1>4, <1>5, <1>6, StillBecomes
<1>8. QED  BY <1>7

\* The list a load makes.
Loaded(p, pc, mem, names, text, labels) ==
    [proc[p] EXCEPT !.pc = pc, !.mem = mem, !.names = names, !.mine = {}, !.for = "none",
                    !.text = text, !.labels = labels]
LEMMA LoadEndIs ==
  ASSUME IInv, NEW p \in Proc, LoadEnd(p)
  PROVE  \E pc \in AtRest :
           Put(p, Loaded(p, pc, [c \in Conn |-> Decrypted(p, proc[p].text[c])],
                         [c \in Conn |-> IF proc[p].labels[c] = NoName THEN <<>>
                                          ELSE <<proc[p].labels[c]>>],
                         [c \in Conn |-> Absent], [c \in Conn |-> NoName]))
<1>1. Idle.text = [c \in Conn |-> Absent] /\ Idle.labels = [c \in Conn |-> NoName]
  BY DEF Idle
<1>2. QED  BY <1>1 DEF LoadEnd, Loaded, AtRest

\* What a load makes of the file agrees with it.
LEMMA LoadEndStep ==
  ASSUME IInv, NEW p \in Proc, LoadEnd(p)
  PROVE  \E r : Becomes(p, r)
<1> DEFINE o == proc[p]
           m == [c \in Conn |-> Decrypted(p, o.text[c])]
           n == [c \in Conn |-> IF o.labels[c] = NoName THEN <<>> ELSE <<o.labels[c]>>]
           t == [c \in Conn |-> Absent]
           l == [c \in Conn |-> NoName]
<1>1. PICK pc \in AtRest : Put(p, Loaded(p, pc, m, n, t, l))
  BY LoadEndIs
<1> DEFINE r == Loaded(p, pc, m, n, t, l)
<1>2. o.pc = "use" /\ o.for = "load" /\ Still /\ lock' = lock /\ LocksOnly(p)
  BY DEF LoadEnd, Still, At, LocksOnly
<1>3. /\ o \in Recs(keys) /\ o.text \in Confs(keys) /\ o.labels \in Labels
      /\ KeepOK(p, o, conf, label, current) /\ PlaceOK(p, o, lock) /\ ~o.has
  BY <1>2, ProcTypes, RecTypes, NoLock DEF Computing, Writing
<1>4. ASSUME NEW c \in Conn
      PROVE  /\ m[c] \in Mems /\ Agrees(m[c], o.text[c], o.cache)
             /\ m[c] # "absent" => n[c] # <<>>
             /\ n[c] \in Seq(Name) /\ o.labels[c] \in ToSet(n[c]) \union {NoName}
  <2>1. m[c] = Decrypted(p, o.text[c])
    OBVIOUS
  <2>2. m[c] \in Mems /\ Agrees(m[c], o.text[c], o.cache)
    BY <2>1 DEF Decrypted, Agrees, Absent, Empty, Plain, Mems
  <2>3. m[c] # "absent" => o.labels[c] # NoName
    <3>1. ASSUME o.text[c] = Absent PROVE m[c] = "absent"
      <4>1. Absent # Empty /\ Absent # Plain
        BY DEF Absent, Empty, Plain
      <4>2. Decrypted(p, o.text[c]) = "absent"
        BY <3>1, <4>1 DEF Decrypted
      <4>3. QED  BY <2>1, <4>2
    <3>2. o.text[c] # Absent => o.labels[c] # NoName
      BY <1>3 DEF KeepOK, Named
    <3>3. QED  BY <3>1, <3>2
  <2>4. CASE o.labels[c] = NoName
    BY <2>2, <2>3, <2>4
  <2>5. CASE o.labels[c] # NoName
    <3>1. o.labels[c] \in Name /\ n[c] = <<o.labels[c]>>
      BY <1>3, <2>5 DEF Labels
    <3>2. n[c] \in Seq(Name) /\ n[c] # <<>> /\ 1 \in DOMAIN n[c] /\ n[c][1] = o.labels[c]
      BY <3>1
    <3>3. QED  BY <2>2, <3>2 DEF ToSet
  <2>6. QED  BY <2>4, <2>5
<1>5. m \in [Conn -> Mems] /\ n \in [Conn -> Seq(Name)]
  BY <1>4
<1>6. /\ t \in Confs(keys) /\ l \in Labels /\ Named(t, l) /\ {} \in SUBSET Conn
      /\ pc \in Pcs
  BY DEF Confs, Texts, Labels, Named, Pcs
<1> HIDE DEF m, n, t, l, o
<1>7. /\ r \in Recs(keys) /\ r.pc = pc /\ r.has = o.has /\ r.mem = m /\ r.mine = {}
      /\ r.names = n /\ r.text = t /\ r.labels = l /\ r.cache = o.cache
  BY <1>3, <1>5, <1>6 DEF Recs, Loaded, o
<1> HIDE DEF r
<1>8. PlaceOK(p, r, lock') /\ FileOK(r, kfile, side, replaced)
  BY <1>3, <1>7 DEF PlaceOK, FileOK, Computing, Writing, HasKeyPcs, AtRest
<1>9. KeepOK(p, r, conf, label, current)
  <2>1. ~Loading(r) /\ ~Saves(r) /\ Loading(o)
    BY <1>2, <1>7 DEF Loading, Saves, AtRest, o
  <2>2. Borne(r) /\ Named(r.text, r.labels)
    BY <1>4, <1>6, <1>7 DEF Borne
  <2>3. p \in current => o.text = conf /\ o.labels = label
    BY <1>3, <2>1 DEF KeepOK
  <2>4. p \in current => KnowsAll(r, conf) /\ Traced(r, label)
    BY <1>4, <1>7, <2>3 DEF KnowsAll, Traced, Settled
  <2>5. QED  BY <2>1, <2>2, <2>4 DEF KeepOK
<1>10. Put(p, r)
  BY <1>1 DEF r, m, n, t, l, o
<1>11. Becomes(p, r)
  BY <1>2, <1>7, <1>8, <1>9, <1>10, StillBecomes
<1>12. QED  BY <1>11

\* A connection that is settled is found in the file the list was read from.
LEMMA FoundBefore ==
  ASSUME NEW p \in Proc, NEW r, r = proc[p], r.names \in [Conn -> Seq(Name)],
         r.labels \in Labels, Traced(r, r.labels), NEW c \in Settled(r),
         r.names[c] # <<>>, r.labels[c] # NoName
  PROVE  FindPrevious(p, c) = {c} /\ Min(FindPrevious(p, c)) = c
<1>1. /\ c \in Conn /\ c \in Nat /\ Len(r.names[c]) <= 2 /\ r.names[c] \in Seq(Name)
      /\ \A d \in Conn \ {c} : Places(r, c) \cap Places(r, d) = {}
  BY SecretAssumption DEF Settled
<1>2. /\ Now(r, c) \in ToSet(r.names[c]) /\ Head(r.names[c]) \in ToSet(r.names[c])
      /\ ToSet(r.names[c]) = {Head(r.names[c]), Now(r, c)}
  BY <1>1, EndsOf DEF Now
<1>3. ASSUME NEW n \in ToSet(r.names[c]) PROVE Called(p, n) \subseteq {c}
  <2>1. n \in Name
    BY <1>1, <1>3 DEF ToSet
  <2>2. ASSUME NEW d \in Conn, r.labels[d] = n, d # c PROVE FALSE
    <3>1. n \in ToSet(r.names[d])
      BY <2>1, <2>2, SecretAssumption DEF Traced
    <3>2. Place[n] \in Places(r, c) \cap Places(r, d)
      BY <1>3, <3>1 DEF Places
    <3>3. QED  BY <1>1, <2>2, <3>2
  <2>3. QED  BY <2>2 DEF Called
<1>4. r.labels[c] \in {Head(r.names[c]), Now(r, c)}
  BY <1>1, <1>2 DEF Traced
<1>5. c \in Called(p, r.labels[c])
  BY <1>1 DEF Called
<1>6. FindPrevious(p, c) = {c}
  BY <1>2, <1>3, <1>4, <1>5 DEF FindPrevious
<1>7. Min({c}) \in {c}
  <2>1. {c} \in SUBSET Nat /\ {c} # {}
    BY <1>1
  <2>2. QED  BY <2>1, LeastIndex
<1>8. QED  BY <1>6, <1>7

\* What a save writes of a settled connection that was not touched.
LEMMA WrittenKept ==
  ASSUME IInv, NEW p \in Proc, Saves(proc[p]), p \in current,
         Wanted(p) => HasKey(p),
         NEW c \in Settled(proc[p]) \ proc[p].mine
  PROVE  /\ \/ Written(p, c) = conf[c]
            \/ /\ conf[c] \in {Plain, proc[p].cache}
               /\ Written(p, c) = proc[p].cache
         /\ Agrees(proc[p].mem[c], Written(p, c), proc[p].cache)
<1> DEFINE o == proc[p]
<1>1. /\ o.for = "save" /\ o.pc \notin AtRest /\ o.text = conf /\ o.labels = label
      /\ KnowsAll(o, conf) /\ Traced(o, label) /\ Borne(o) /\ c \in Conn
  BY ProcTypes DEF KeepOK, Saves, Loading, Settled
<1>2. Agrees(o.mem[c], conf[c], o.cache)
  BY <1>1 DEF KnowsAll
<1>3. CASE o.mem[c] = "text"
  <2>1. o.cache \notin {None, Failed}
    BY <1>1, <1>3 DEF Wanted, HasKey
  <2>2. o.cache \in 1 .. keys
    BY <2>1, RecTypes DEF None, Failed
  <2>3. Written(p, c) = o.cache /\ o.cache \notin {Absent, Plain, Empty}
    BY <1>3, <2>2 DEF Written, Absent, Plain, Empty
  <2>4. conf[c] \in {Plain, o.cache}
    BY <1>2, <1>3 DEF Agrees
  <2>5. QED  BY <1>3, <2>3, <2>4 DEF Agrees
<1>4. CASE o.mem[c] = "failed"
  <2>1. conf[c] \notin {Absent, Empty, Plain}
    BY <1>2, <1>4 DEF Agrees
  <2>2. /\ o.names \in [Conn -> Seq(Name)] /\ o.labels \in Labels /\ o.labels[c] # NoName
        /\ o.names[c] # <<>>
    BY <1>1, <1>4, <2>1, RecTypes DEF Named, Borne
  <2>3. FindPrevious(p, c) = {c} /\ Min(FindPrevious(p, c)) = c
    BY <1>1, <2>2, FoundBefore
  <2>4. Written(p, c) = conf[c]
    BY <1>1, <1>4, <2>1, <2>3 DEF Written, Kept
  <2>5. QED  BY <1>2, <2>4
<1>5. CASE o.mem[c] \notin {"text", "failed"}
  BY <1>1, <1>2, <1>5 DEF Agrees, Written
<1>6. QED  BY <1>3, <1>4, <1>5

\* Whatever a save finds, it writes the secrets of a list.
LEMMA WrittenTyped ==
  ASSUME IInv, NEW p \in Proc, proc[p].for = "save", Wanted(p) => HasKey(p), NEW c \in Conn
  PROVE  /\ Written(p, c) \in Texts(keys)
         /\ Written(p, c) # Absent => c \in Listed(proc[p])
         /\ \/ Written(p, c) \in {Absent, Plain, Empty}
            \/ Written(p, c) = proc[p].cache /\ HasKey(p)
            \/ Written(p, c) \in Encrypted(proc[p].text)
<1> DEFINE o == proc[p]
<1>1. o.text \in Confs(keys) /\ o.mem \in [Conn -> Mems] /\ o.cache \in {Failed} \union 0 .. keys
      /\ Empty \in Texts(keys) /\ Absent \in Texts(keys)
  BY RecTypes DEF Texts
<1>2. Kept(p, c) = Empty \/ (Kept(p, c) # Absent /\ \E d \in Conn : Kept(p, c) = o.text[d])
  <2> DEFINE F == FindPrevious(p, c)
  <2>1. F \in SUBSET Nat /\ F \subseteq Conn
    BY SecretAssumption DEF FindPrevious, Called
  <2>2. F # {} => Min(F) \in Conn
    BY <2>1, LeastIndex
  <2>3. QED  BY <2>2 DEF Kept
<1>3. Kept(p, c) \in Texts(keys) /\ Kept(p, c) # Absent
  BY <1>1, <1>2 DEF Confs, Absent, Empty
<1>4. CASE o.mem[c] = "text"
  <2>1. o.cache \in 1 .. keys /\ HasKey(p)
    BY <1>1, <1>4 DEF Wanted, HasKey, None, Failed
  <2>2. Written(p, c) = o.cache
    BY <1>4 DEF Written
  <2>3. c \in Listed(o)
    BY <1>4 DEF Listed
  <2>4. QED  BY <2>1, <2>2, <2>3 DEF Texts
<1>5. CASE o.mem[c] = "failed"
  <2>1. Written(p, c) = Kept(p, c) /\ c \in Listed(o)
    BY <1>5 DEF Written, Listed
  <2>2. QED  BY <1>2, <1>3, <2>1 DEF Encrypted
<1>6. CASE o.mem[c] \in {"absent", "empty"}
  BY <1>1, <1>6 DEF Written, Listed
<1>7. QED  BY <1>1, <1>4, <1>5, <1>6 DEF Mems

SavedLabels(r) == [c \in Conn |-> IF c \in Listed(r) THEN Now(r, c) ELSE NoName]
Saved(p) == /\ conf' = [c \in Conn |-> Written(p, c)] /\ label' = SavedLabels(proc[p])
            /\ current' = current \intersect {p} /\ (Wanted(p) => HasKey(p))
LEMMA SaveEndIs ==
  ASSUME IInv, NEW p \in Proc, SaveEnd(p)
  PROVE  /\ Saved(p) \/ UNCHANGED file
         /\ \E r \in Recs(keys) :
              /\ Put(p, r) /\ r.pc = "idle" /\ r.has = proc[p].has /\ r.mem = proc[p].mem
              /\ r.names = proc[p].names /\ r.mine = proc[p].mine /\ r.cache = proc[p].cache
              /\ r.local = proc[p].local /\ r.text = [c \in Conn |-> Absent]
              /\ r.labels = [c \in Conn |-> NoName] /\ Named(r.text, r.labels)
         /\ proc[p].pc = "use" /\ proc[p].for = "save" /\ UNCHANGED <<material, lock>>
<1> DEFINE o == proc[p]
           t == [c \in Conn |-> Absent]
           l == [c \in Conn |-> NoName]
           r == [o EXCEPT !.pc = "idle", !.for = "none", !.text = t, !.labels = l]
<1>1. Idle.text = t /\ Idle.labels = l
  BY DEF Idle
<1>2. Put(p, r)
  BY <1>1 DEF SaveEnd
<1>3. Saved(p) \/ UNCHANGED file
  <2>1. PICK e \in {"ok", "err"} :
          LET saved == e = "ok" /\ (Wanted(p) => HasKey(p))
          IN IF saved THEN /\ conf' = [c \in Conn |-> Written(p, c)]
                           /\ label' = [c \in Conn |->
                                 IF c \in Listed(proc[p]) THEN Now(proc[p], c) ELSE NoName]
                           /\ current' = current \intersect {p}
                      ELSE UNCHANGED file
    BY DEF SaveEnd
  <2>2. QED  BY <2>1 DEF Saved, SavedLabels
<1>4. /\ o \in Recs(keys) /\ t \in Confs(keys) /\ l \in Labels /\ "idle" \in Pcs /\ Named(t, l)
  BY RecTypes DEF Confs, Texts, Labels, Pcs, AtRest, Named
<1>5. o.pc = "use" /\ o.for = "save" /\ UNCHANGED <<material, lock>>
  BY DEF SaveEnd, At
<1> HIDE DEF t, l, o
<1>6. /\ r \in Recs(keys) /\ r.pc = "idle" /\ r.has = o.has /\ r.mem = o.mem
      /\ r.names = o.names /\ r.mine = o.mine /\ r.cache = o.cache /\ r.local = o.local
      /\ r.text = t /\ r.labels = l
  BY <1>4 DEF Recs
<1>7. QED  BY <1>2, <1>3, <1>4, <1>5, <1>6 DEF o, t, l

LEMMA SaveEndStep ==
  ASSUME IInv, NEW p \in Proc, SaveEnd(p)
  PROVE  \E r : Becomes(p, r)
<1> DEFINE o == proc[p]
<1>1. PICK r \in Recs(keys) :
        /\ Put(p, r) /\ r.pc = "idle" /\ r.has = o.has /\ r.mem = o.mem
        /\ r.names = o.names /\ r.mine = o.mine /\ r.cache = o.cache
        /\ Named(r.text, r.labels)
  BY SaveEndIs
<1>2. /\ Saved(p) \/ UNCHANGED file
      /\ o.pc = "use" /\ o.for = "save" /\ UNCHANGED <<material, lock>>
  BY SaveEndIs
<1>3. /\ keys \in Nat /\ KeepOK(p, o, conf, label, current) /\ PlaceOK(p, o, lock) /\ ~o.has
      /\ o.names \in [Conn -> Seq(Name)] /\ o.mem \in [Conn -> Mems]
  BY <1>2, ProcTypes, RecTypes, NoLock DEF Computing, Writing
<1>4. PlaceOK(p, r, lock') /\ FileOK(r, kfile, side, replaced)
  BY <1>1, <1>2, <1>3 DEF PlaceOK, FileOK, Computing, Writing, HasKeyPcs
<1>5. /\ ~Loading(r) /\ ~Saves(r) /\ ~Loading(o) /\ Saves(o) /\ Borne(r)
      /\ \A t : KnowsAll(o, t) => KnowsAll(r, t)
      /\ \A l : Traced(o, l) => Traced(r, l)
  BY <1>1, <1>2, <1>3 DEF Loading, Saves, AtRest, Borne, KeepOK, KnowsAll, Traced,
                          Settled, Places
<1>6. CASE UNCHANGED file
  <2>1. Still /\ LocksOnly(p)
    BY <1>2, <1>6 DEF Still, LocksOnly
  <2>2. KeepOK(p, r, conf, label, current)
    BY <1>1, <1>3, <1>5 DEF KeepOK
  <2>3. Becomes(p, r)
    BY <1>1, <1>2, <1>4, <2>1, <2>2, StillBecomes
  <2>4. QED  BY <2>3
<1>7. CASE Saved(p)
  <2>1. /\ conf' = [c \in Conn |-> Written(p, c)] /\ label' = SavedLabels(o)
        /\ current' = current \intersect {p} /\ (Wanted(p) => HasKey(p))
    BY <1>7 DEF Saved
  <2>2. ASSUME NEW c \in Conn
        PROVE  /\ conf'[c] = Written(p, c) /\ conf'[c] \in Texts(keys)
               /\ label'[c] \in Name \union {NoName} /\ (conf'[c] # Absent => label'[c] # NoName)
               /\ label'[c] \in ToSet(o.names[c]) \union {NoName}
    <3>1. conf'[c] = Written(p, c) /\ label'[c] = IF c \in Listed(o) THEN Now(o, c) ELSE NoName
      BY <2>1 DEF SavedLabels
    <3>2. Written(p, c) \in Texts(keys) /\ (Written(p, c) # Absent => c \in Listed(o))
      BY <1>2, <2>1, WrittenTyped
    <3>3. c \in Listed(o) => Now(o, c) \in Name /\ Now(o, c) \in ToSet(o.names[c])
      <4>1. c \in Listed(o) => o.names[c] # <<>>
        BY <1>3 DEF Listed, KeepOK, Borne
      <4>2. QED  BY <1>3, <4>1, EndsOf DEF Now
    <3>4. QED  BY <3>1, <3>2, <3>3, SecretAssumption
  <2>3. conf' \in Confs(keys) /\ label' \in Labels /\ Named(conf', label')
    BY <2>1, <2>2 DEF Confs, Labels, Named, SavedLabels
  <2>4. Traced(r, label')
    BY <1>5, <2>2 DEF Traced
  <2>5. ASSUME p \in current PROVE KnowsAll(r, conf')
    <3>1. ASSUME NEW c \in Settled(o) \ o.mine
          PROVE  Agrees(o.mem[c], conf'[c], o.cache)
      <4>1. c \in Conn
        BY DEF Settled
      <4>2. QED  BY <1>5, <2>1, <2>2, <2>5, <4>1, WrittenKept
    <3>2. KnowsAll(o, conf')
      BY <3>1 DEF KnowsAll
    <3>3. QED  BY <1>5, <3>2
  <2>6. KeepOK(p, r, conf', label', current')
    BY <1>1, <1>5, <2>1, <2>4, <2>5 DEF KeepOK
  <2>7. Becomes(p, r)
    <3>1. /\ keys' = keys /\ keychain' = keychain /\ kfile' = kfile /\ side' = side
          /\ late' = late /\ replaced' = replaced /\ lock' = lock /\ keys <= keys
          /\ current' \subseteq {p}
      BY <1>2, <1>3, <2>1 DEF material
    <3>2. LocalKeys' = LocalKeys
      BY <3>1 DEF LocalKeys
    <3>3. QED  BY <1>1, <1>4, <2>3, <2>6, <3>1, <3>2
               DEF Becomes, LocksOnly, FilesMove, Put, IInv, Typed
  <2>8. QED  BY <2>7
<1>8. QED  BY <1>2, <1>6, <1>7

----------------------------------------------------------------------------
(* Computing the key *)

LEMMA LockStep ==
  ASSUME IInv, NEW p \in Proc, Lock(p)
  PROVE  \E r : Becomes(p, r)
<1> DEFINE o == proc[p]
<1>1. /\ o.pc = "lock" /\ Still
      /\ \E b \in BOOLEAN : /\ b => lock' = p
                            /\ ~b => lock' = lock
                            /\ b => lock = None
                            /\ Put(p, [o EXCEPT !.pc = "local", !.has = b])
  BY DEF Lock, Still, At
<1>2. PICK b \in BOOLEAN : /\ b => lock' = p
                           /\ ~b => lock' = lock
                           /\ b => lock = None
                           /\ Put(p, [o EXCEPT !.pc = "local", !.has = b])
  BY <1>1
<1> DEFINE r == [o EXCEPT !.pc = "local", !.has = b]
<1>3. /\ o \in Recs(keys) /\ conf \in Confs(keys) /\ keys \in Nat
      /\ KeepOK(p, o, conf, label, current) /\ PlaceOK(p, o, lock)
  BY ProcTypes, RecTypes
<1>4. Put(p, r) /\ LocksOnly(p) /\ "local" \in Pcs
  BY <1>2 DEF LocksOnly, Pcs, Computing
<1> HIDE DEF o
<1>5. /\ r \in Recs(keys) /\ r.pc = "local" /\ r.cache = o.cache /\ r.has = b
      /\ r.for = o.for /\ r.text = o.text /\ r.mem = o.mem
      /\ r.mine = o.mine /\ r.labels = o.labels /\ r.names = o.names
  BY <1>3, <1>4 DEF Recs
<1> HIDE DEF r
<1>6. KeepOK(p, r, conf, label, current)
  <2>1. o.pc \notin AtRest /\ r.pc \notin AtRest
    BY <1>1, <1>5 DEF AtRest
  <2>2. QED  BY <1>3, <1>5, <2>1, KeepMoved
<1>7. PlaceOK(p, r, lock') /\ FileOK(r, kfile, side, replaced)
  BY <1>1, <1>2, <1>3, <1>5 DEF PlaceOK, FileOK, Computing, Writing, HasKeyPcs
<1>8. Becomes(p, r)
  BY <1>1, <1>4, <1>5, <1>6, <1>7, StillBecomes
<1>9. QED  BY <1>8

\* A look at the local key loses none and keeps what the others rely on.
LEMMA LocalRead ==
  ASSUME IInv, ReadLocal
  PROVE  /\ LocalKey \in 0 .. keys
         /\ kfile' \in 0 .. keys /\ side' \in Seq(1 .. keys)
         /\ \/ kfile' = kfile /\ side' = side
            \/ kfile = None /\ side # <<>> /\ kfile' = Last(side) /\ side' = Front(side)
         /\ LocalKeys \subseteq LocalKeys'
         /\ LocalKey = None => kfile' = None /\ side' = <<>> /\ kfile = None /\ side = <<>>
         /\ LocalKey # None => LocalKey \in LocalKeys /\ LocalKey \in LocalKeys'
<1>1. /\ keys \in Nat /\ kfile \in 0 .. keys /\ side \in Seq(1 .. keys)
      /\ None \in 0 .. keys
  BY RecTypes DEF IInv, Typed, None
<1>2. side # <<>> => /\ Last(side) \in 1 .. keys /\ Front(side) \in Seq(1 .. keys)
                     /\ ToSet(side) = ToSet(Front(side)) \union {Last(side)}
  BY <1>1, LastFront
<1>3. ASSUME NEW x \in 1 .. keys PROVE x \in 0 .. keys /\ x # None
  BY <1>1, Nothing
<1>4. /\ LocalKey \in 0 .. keys
      /\ LocalKey = None => kfile = None /\ side = <<>>
      /\ LocalKey # None => LocalKey \in LocalKeys
  BY <1>1, <1>2, <1>3 DEF LocalKey, LocalKeys
<1>5. CASE Recovers /\ kfile' = Last(side) /\ side' = Front(side)
  <2>1. LocalKeys' = LocalKeys
    BY <1>2, <1>3, <1>5 DEF LocalKeys, Recovers
  <2>2. LocalKey # None
    BY <1>2, <1>3, <1>5 DEF LocalKey, Recovers
  <2>3. QED  BY <1>1, <1>2, <1>3, <1>4, <1>5, <2>1, <2>2 DEF Recovers
<1>6. CASE kfile' = kfile /\ side' = side
  <2>1. LocalKeys' = LocalKeys
    BY <1>6 DEF LocalKeys
  <2>2. QED  BY <1>1, <1>4, <1>6, <2>1
<1>7. QED  BY <1>5, <1>6 DEF ReadLocal

\* A step that looks at the local key.
LEMMA ReadBecomes ==
  ASSUME IInv, NEW p \in Proc, NEW r \in Recs(keys), ReadLocal, LocksOnly(p),
         UNCHANGED <<keychain, late, keys, slow, file>>, replaced \subseteq replaced',
         Put(p, r), PlaceOK(p, r, lock'), FileOK(r, kfile', side', replaced'),
         KeepOK(p, r, conf, label, current)
  PROVE  Becomes(p, r)
<1>1. /\ keys' = keys /\ keychain' = keychain /\ late' = late
      /\ conf' = conf /\ label' = label /\ current' = current
  BY DEF file
<1>2. keys <= keys
  BY DEF IInv, Typed
<1>3. /\ kfile' \in 0 .. keys /\ side' \in Seq(1 .. keys) /\ FilesMove(p)
      /\ LocalKeys \subseteq LocalKeys'
  BY LocalRead DEF FilesMove
<1>4. QED  BY <1>1, <1>2, <1>3 DEF Becomes, Put, IInv, Typed

LEMMA FinishRead ==
  ASSUME IInv, NEW p \in Proc, proc[p].pc \in Computing \union Writing,
         NEW k \in 0 .. keys, Finish(p, k), ReadLocal,
         UNCHANGED <<keychain, late, keys, replaced, slow, file>>
  PROVE  \E r : Becomes(p, r)
<1>1. PICK r \in Recs(keys) :
         /\ Put(p, r) /\ LocksOnly(p)
         /\ PlaceOK(p, r, lock') /\ KeepOK(p, r, conf, label, current)
         /\ \A a, b, c : FileOK(r, a, b, c)
  BY Finished
<1>2. Becomes(p, r)
  BY <1>1, ReadBecomes
<1>3. QED  BY <1>2

LEMMA LookStep ==
  ASSUME IInv, NEW p \in Proc, Look(p)
  PROVE  \E r : Becomes(p, r)
<1> DEFINE o == proc[p]
           r == [o EXCEPT !.pc = "inventory", !.local = LocalKey]
<1>1. /\ o.pc = "local" /\ ReadLocal /\ Put(p, r) /\ LocksOnly(p) /\ lock' = lock
      /\ UNCHANGED <<keychain, late, keys, replaced, slow, file>>
  BY DEF Look, At, LocksOnly
<1>2. o \in Recs(keys) /\ PlaceOK(p, o, lock) /\ LocalKey \in 0 .. keys
  BY <1>1, ProcTypes, LocalRead
<1>3. r \in Recs(keys) /\ r.pc = "inventory" /\ Goes(o, r)
  <2>1. "inventory" \in Pcs /\ "inventory" \notin AtRest /\ o.pc \notin AtRest
    BY <1>1 DEF Pcs, Computing, AtRest
  <2> HIDE DEF o
  <2>2. /\ r \in Recs(keys) /\ r.pc = "inventory" /\ r.cache = o.cache
        /\ r.has = o.has /\ r.for = o.for /\ r.text = o.text /\ r.mem = o.mem
        /\ r.mine = o.mine /\ r.labels = o.labels /\ r.names = o.names
    BY <1>2, <2>1 DEF Recs
  <2>3. QED  BY <2>1, <2>2 DEF Goes
<1> HIDE DEF r
<1>4. KeepOK(p, r, conf, label, current)
  BY <1>3, GoesKeep
<1>5. PlaceOK(p, r, lock') /\ FileOK(r, kfile', side', replaced)
  BY <1>1, <1>2, <1>3 DEF PlaceOK, FileOK, Goes, Computing, Writing, HasKeyPcs
<1>6. Becomes(p, r)
  BY <1>1, <1>3, <1>4, <1>5, ReadBecomes
<1>7. QED  BY <1>6

LEMMA InventoryStep ==
  ASSUME IInv, NEW p \in Proc, Inventory(p)
  PROVE  \E r : Becomes(p, r)
<1>1. PICK inv \in Inventories : Put(p, [proc[p] EXCEPT !.pc = "keychain", !.inv = inv])
  BY DEF Inventory
<1> DEFINE o == proc[p]
           r == [o EXCEPT !.pc = "keychain", !.inv = inv]
<1>2. o.pc = "inventory" /\ Still /\ LocksOnly(p) /\ lock' = lock /\ Put(p, r)
  BY <1>1 DEF Inventory, Still, At, LocksOnly
<1>3. o \in Recs(keys) /\ PlaceOK(p, o, lock)
  BY ProcTypes
<1>4. inv \in SUBSET Int
  <2>1. conf \in Confs(keys) /\ keys \in Nat
    BY RecTypes
  <2>2. \A c \in Conn : conf[c] \in Int
    BY <2>1 DEF Confs, Texts, Absent, Plain, Empty
  <2>3. Encrypted(conf) \subseteq Int /\ Unknown \subseteq Int
    BY <2>2 DEF Encrypted, Unknown
  <2>4. QED  BY <2>3 DEF Inventories
<1>5. r \in Recs(keys) /\ r.pc = "keychain" /\ Goes(o, r)
  <2>1. "keychain" \in Pcs /\ "keychain" \notin AtRest /\ o.pc \notin AtRest
    BY <1>2 DEF Pcs, Computing, AtRest
  <2> HIDE DEF o
  <2>2. /\ r \in Recs(keys) /\ r.pc = "keychain" /\ r.cache = o.cache
        /\ r.has = o.has /\ r.for = o.for /\ r.text = o.text /\ r.mem = o.mem
        /\ r.mine = o.mine /\ r.labels = o.labels /\ r.names = o.names
    BY <1>3, <1>4, <2>1 DEF Recs
  <2>3. QED  BY <2>1, <2>2 DEF Goes
<1> HIDE DEF r
<1>6. KeepOK(p, r, conf, label, current)
  BY <1>5, GoesKeep
<1>7. PlaceOK(p, r, lock') /\ FileOK(r, kfile, side, replaced)
  BY <1>2, <1>3, <1>5 DEF PlaceOK, FileOK, Goes, Computing, Writing, HasKeyPcs
<1>8. Becomes(p, r)
  BY <1>2, <1>5, <1>6, <1>7, StillBecomes
<1>9. QED  BY <1>8

\* Where a process that computes the key may go on to, not yet at a file.
NextOK(o, r) ==
    /\ o.pc \in Computing \union Writing
    /\ r.pc \in (Computing \union Writing) \ {"write", "rename", "writenew", "renamenew"}
    /\ r.pc \in Writing => o.has
    /\ r.pc \in HasKeyPcs => r.key # None
    /\ r.pc = "migrate" => r.local # None

WithKey(o, pc, k) == [o EXCEPT !.pc = pc, !.key = k]
LEMMA GoKey ==
  ASSUME IInv, NEW p \in Proc, proc[p].pc \in Computing \union Writing,
         NEW pc \in Computing \union Writing, NEW k \in 0 .. keys,
         NEW r, r = WithKey(proc[p], pc, k)
  PROVE  /\ r \in Recs(keys) /\ r.pc = pc /\ r.key = k
         /\ r.local = proc[p].local /\ Goes(proc[p], r)
<1>1. proc[p] \in Recs(keys) /\ pc \in Pcs
  BY ProcTypes DEF Pcs
<1>2. /\ r \in Recs(keys) /\ r.pc = pc /\ r.cache = proc[p].cache
      /\ r.has = proc[p].has /\ r.for = proc[p].for /\ r.text = proc[p].text
      /\ r.mem = proc[p].mem /\ r.mine = proc[p].mine /\ r.labels = proc[p].labels
      /\ r.names = proc[p].names /\ r.key = k /\ r.local = proc[p].local
  BY <1>1 DEF Recs, WithKey
<1>3. proc[p].pc \notin AtRest /\ pc \notin AtRest
  BY DEF Computing, Writing, AtRest
<1>4. QED  BY <1>2, <1>3 DEF Goes

LEMMA GoPc ==
  ASSUME IInv, NEW p \in Proc, proc[p].pc \in Computing \union Writing,
         NEW pc \in Computing \union Writing,
         NEW r, r = [proc[p] EXCEPT !.pc = pc]
  PROVE  /\ r \in Recs(keys) /\ r.pc = pc /\ r.key = proc[p].key
         /\ r.local = proc[p].local /\ Goes(proc[p], r)
<1>1. proc[p].pc \notin AtRest /\ pc \in Pcs \ AtRest
  BY DEF Computing, Writing, AtRest, Pcs
<1>2. QED  BY <1>1, GoTypes

LEMMA NextPlace ==
  ASSUME IInv, NEW p \in Proc, NEW r, Goes(proc[p], r), NextOK(proc[p], r), lock' = lock
  PROVE  /\ LocksOnly(p) /\ PlaceOK(p, r, lock') /\ KeepOK(p, r, conf, label, current)
         /\ \A a, b, c : FileOK(r, a, b, c)
<1>1. PlaceOK(p, proc[p], lock)
  BY ProcTypes
<1>2. PlaceOK(p, r, lock')
  BY <1>1 DEF PlaceOK, NextOK, Goes
<1>3. \A a, b, c : FileOK(r, a, b, c)
  BY DEF FileOK, NextOK
<1>4. QED  BY <1>2, <1>3, GoesKeep DEF LocksOnly

LEMMA NextStill ==
  ASSUME IInv, NEW p \in Proc, NEW r \in Recs(keys), Goes(proc[p], r),
         NextOK(proc[p], r), lock' = lock, Put(p, r), Still
  PROVE  \E s : Becomes(p, s)
<1>1. Becomes(p, r)
  BY NextPlace, StillBecomes
<1>2. QED  BY <1>1

LEMMA ReadKeychainStep ==
  ASSUME IInv, NEW p \in Proc, ReadKeychain(p)
  PROVE  \E r : Becomes(p, r)
<1> DEFINE o == proc[p]
<1>1. PICK e \in Reads(p) :
         CASE PlanFor(p, e) = "none" -> Finish(p, None)
           [] PlanFor(p, e) = "uselocal" -> Finish(p, o.local)
           [] PlanFor(p, e) = "keychain" ->
                /\ Put(p, [o EXCEPT !.pc = "verify", !.key = keychain])
                /\ UNCHANGED lock
           [] OTHER -> Go(p, PlanFor(p, e)) /\ UNCHANGED lock
  BY DEF ReadKeychain
<1>2. o.pc = "keychain" /\ Still
  BY DEF ReadKeychain, At, Still
<1>3. o.pc \in Computing \union Writing /\ None \in 0 .. keys /\ o.local \in 0 .. keys
      /\ keychain \in 0 .. keys
  BY <1>2, RecTypes DEF Computing
<1>4. CASE PlanFor(p, e) = "none"
  BY <1>1, <1>2, <1>3, <1>4, FinishStill
<1>5. CASE PlanFor(p, e) = "uselocal"
  <2>1. Finish(p, o.local)
    BY <1>1, <1>5
  <2>2. QED  BY <1>2, <1>3, <2>1, FinishStill
<1>6. CASE PlanFor(p, e) = "keychain"
  <2> DEFINE r == [o EXCEPT !.pc = "verify", !.key = keychain]
  <2>1. Put(p, r) /\ lock' = lock
    BY <1>1, <1>6
  <2>2. e = "found"
    BY <1>6 DEF PlanFor
  <2>3. keychain # None
    BY <2>2 DEF Reads, ChainRead
  <2>4. "verify" \in Computing \union Writing
    BY DEF Computing
  <2> HIDE DEF r
  <2>5. r \in Recs(keys) /\ r.pc = "verify" /\ r.key = keychain /\ Goes(o, r)
    <3>1. r = WithKey(proc[p], "verify", keychain)
      BY DEF r, WithKey
    <3>2. QED  BY <1>3, <2>4, <3>1, GoKey
  <2>6. NextOK(o, r)
    BY <1>3, <2>3, <2>4, <2>5 DEF NextOK, Writing
  <2>7. QED  BY <1>2, <2>1, <2>5, <2>6, NextStill
<1>7. CASE PlanFor(p, e) \in {"migrate", "mint"}
  <2> DEFINE pc == PlanFor(p, e)
             r == [o EXCEPT !.pc = pc]
  <2>1. Go(p, pc) /\ lock' = lock
    BY <1>1, <1>7
  <2>2. Put(p, r)
    BY <2>1, GoIsPut
  <2>3. o.has /\ (pc = "migrate" => o.local # None) /\ pc \in {"migrate", "mint"}
    BY <1>7 DEF PlanFor
  <2> HIDE DEF pc
  <2>4. pc \in Computing \union Writing
    BY <2>3 DEF Writing
  <2>5. r \in Recs(keys) /\ r.pc = pc /\ r.local = o.local /\ Goes(o, r)
    BY <1>3, <2>4, GoPc
  <2> HIDE DEF r
  <2>6. NextOK(o, r)
    BY <1>3, <2>3, <2>4, <2>5 DEF NextOK, HasKeyPcs
  <2>7. QED  BY <1>2, <2>1, <2>2, <2>5, <2>6, NextStill
<1>8. PlanFor(p, e) \in {"none", "uselocal", "keychain", "migrate", "mint"}
  BY DEF PlanFor
<1>9. QED  BY <1>4, <1>5, <1>6, <1>7, <1>8

LEMMA VerifyStep ==
  ASSUME IInv, NEW p \in Proc, Verify(p)
  PROVE  \E r : Becomes(p, r)
<1> DEFINE o == proc[p]
<1>1. /\ o.pc = "verify" /\ Still
      /\ \/ Finish(p, o.key)
         \/ Go(p, "verifylocal") /\ UNCHANGED lock
         \/ o.has /\ Go(p, "persist") /\ UNCHANGED lock
  BY DEF Verify, At, Still
<1>2. o.pc \in Computing \union Writing /\ o.key \in 0 .. keys /\ o.key # None
  BY <1>1, RecTypes, ProcTypes DEF Computing, PlaceOK, HasKeyPcs
<1>3. CASE Go(p, "verifylocal") /\ UNCHANGED lock
  <2> DEFINE r == [o EXCEPT !.pc = "verifylocal"]
  <2>1. Put(p, r) /\ "verifylocal" \in Computing \union Writing
    BY <1>3, GoIsPut DEF Computing
  <2>2. r \in Recs(keys) /\ r.pc = "verifylocal" /\ r.key = o.key /\ Goes(o, r)
    BY <1>2, <2>1, GoPc
  <2> HIDE DEF r
  <2>3. NextOK(o, r)
    BY <1>2, <2>1, <2>2 DEF NextOK, Writing
  <2>4. QED  BY <1>1, <1>3, <2>1, <2>2, <2>3, NextStill
<1>4. CASE Finish(p, o.key)
  BY <1>1, <1>2, <1>4, FinishStill
<1>5. CASE o.has /\ Go(p, "persist") /\ UNCHANGED lock
  <2> DEFINE r == [o EXCEPT !.pc = "persist"]
  <2>1. Put(p, r) /\ o.key # None
    BY <1>1, <1>5, GoIsPut, ProcTypes DEF PlaceOK, HasKeyPcs
  <2>2. "persist" \in Computing \union Writing
    BY DEF Writing
  <2>3. r \in Recs(keys) /\ r.pc = "persist" /\ r.key = o.key /\ Goes(o, r)
    BY <1>2, <2>2, GoPc
  <2> HIDE DEF r
  <2>4. NextOK(o, r)
    BY <1>2, <1>5, <2>1, <2>2, <2>3 DEF NextOK
  <2>5. QED  BY <1>1, <1>5, <2>1, <2>3, <2>4, NextStill
<1>6. QED  BY <1>1, <1>3, <1>4, <1>5

LEMMA VerifyLocalStep ==
  ASSUME IInv, NEW p \in Proc, VerifyLocal(p)
  PROVE  \E r : Becomes(p, r)
<1>1. PICK k \in {proc[p].local, proc[p].key} : Finish(p, k)
  BY DEF VerifyLocal
<1>2. proc[p].pc \in Computing \union Writing /\ k \in 0 .. keys /\ Still
  BY RecTypes DEF VerifyLocal, At, Computing, Still
<1>3. QED  BY <1>1, <1>2, FinishStill

LEMMA MintBackStep ==
  ASSUME IInv, NEW p \in Proc, MintBack(p)
  PROVE  \E r : Becomes(p, r)
<1> DEFINE o == proc[p]
<1>1. PICK e \in Reads(p) :
         IF e = "found" THEN Put(p, [o EXCEPT !.pc = "persist", !.key = keychain])
         ELSE Go(p, "install")
  BY DEF MintBack
<1>2. o.pc = "mintback" /\ Still /\ lock' = lock
  BY DEF MintBack, At, Still
<1>3. o.pc \in Computing \union Writing /\ keychain \in 0 .. keys /\ o.key # None /\ o.has
      /\ o.key \in 0 .. keys
  BY <1>2, RecTypes, ProcTypes DEF Writing, PlaceOK, HasKeyPcs
<1> DEFINE pc == IF e = "found" THEN "persist" ELSE "install"
           k == IF e = "found" THEN keychain ELSE o.key
           r == [o EXCEPT !.pc = pc, !.key = k]
<1>4. Put(p, r)
  <2>1. CASE e = "found"
    BY <1>1, <2>1
  <2>2. CASE e # "found"
    <3>1. Put(p, [o EXCEPT !.pc = "install"]) /\ o \in Recs(keys)
      BY <1>1, <2>2, GoIsPut, RecTypes
    <3>2. [o EXCEPT !.pc = "install"] = [o EXCEPT !.pc = "install", !.key = o.key]
      BY <3>1 DEF Recs
    <3>3. QED  BY <2>2, <3>1, <3>2
  <2>3. QED  BY <2>1, <2>2
<1>5. k \in 0 .. keys /\ k # None /\ pc \in {"persist", "install"}
  BY <1>3 DEF Reads, ChainRead
<1> HIDE DEF pc, k
<1>6. pc \in Computing \union Writing
  BY <1>5 DEF Writing
<1> HIDE DEF r
<1>7. r \in Recs(keys) /\ r.pc = pc /\ r.key = k /\ Goes(o, r)
  <2>1. r = WithKey(proc[p], pc, k)
    BY DEF r, WithKey
  <2>2. QED  BY <1>3, <1>5, <1>6, <2>1, GoKey
<1>8. NextOK(o, r)
  BY <1>3, <1>5, <1>6, <1>7 DEF NextOK
<1>9. QED  BY <1>2, <1>4, <1>7, <1>8, NextStill

LEMMA MintLookStep ==
  ASSUME IInv, NEW p \in Proc, MintLook(p)
  PROVE  \E r : Becomes(p, r)
<1> DEFINE o == proc[p]
           r == [o EXCEPT !.pc = "mintchain"]
<1>1. /\ o.pc = "mint" /\ ReadLocal /\ UNCHANGED <<keychain, late, keys, replaced, slow, file>>
      /\ Finish(p, LocalKey) \/ (Go(p, "mintchain") /\ UNCHANGED lock)
  BY DEF MintLook, At
<1>2. o.pc \in Computing \union Writing /\ LocalKey \in 0 .. keys /\ o.has
  BY <1>1, LocalRead, ProcTypes DEF Writing, PlaceOK
<1>3. CASE Finish(p, LocalKey)
  BY <1>1, <1>2, <1>3, FinishRead
<1>4. CASE Go(p, "mintchain") /\ UNCHANGED lock
  <2>1. Put(p, r) /\ "mintchain" \in Computing \union Writing
    BY <1>4, GoIsPut DEF Writing
  <2>2. r \in Recs(keys) /\ r.pc = "mintchain" /\ Goes(o, r)
    BY <1>2, <2>1, GoPc
  <2> HIDE DEF r
  <2>3. NextOK(o, r)
    BY <1>2, <2>1, <2>2 DEF NextOK, HasKeyPcs
  <2>4. Becomes(p, r)
    BY <1>1, <1>4, <2>1, <2>2, <2>3, NextPlace, ReadBecomes
  <2>5. QED  BY <2>4
<1>5. QED  BY <1>1, <1>3, <1>4

\* A new key is written to the file only where there is none.
LEMMA InstallStep ==
  ASSUME IInv, NEW p \in Proc, Install(p)
  PROVE  \E r : Becomes(p, r)
<1> DEFINE o == proc[p]
           r == [o EXCEPT !.pc = "writenew"]
<1>1. /\ o.pc = "install" /\ ReadLocal /\ UNCHANGED <<keychain, late, keys, replaced, slow, file>>
      /\ \/ Finish(p, LocalKey)
         \/ LocalKey = None /\ Go(p, "writenew") /\ UNCHANGED lock
  BY DEF Install, At
<1>2. /\ o.pc \in Computing \union Writing /\ LocalKey \in 0 .. keys
      /\ PlaceOK(p, o, lock) /\ o.has /\ o.key # None
  BY <1>1, LocalRead, ProcTypes DEF Writing, PlaceOK, HasKeyPcs
<1>3. CASE Finish(p, LocalKey)
  BY <1>1, <1>2, <1>3, FinishRead
<1>4. CASE LocalKey = None /\ Go(p, "writenew") /\ UNCHANGED lock
  <2>1. Put(p, r) /\ "writenew" \in Computing \union Writing
    BY <1>4, GoIsPut DEF Writing
  <2>2. r \in Recs(keys) /\ r.pc = "writenew" /\ r.key = o.key /\ Goes(o, r)
    BY <1>2, <2>1, GoPc
  <2> HIDE DEF r
  <2>3. PlaceOK(p, r, lock') /\ LocksOnly(p)
    BY <1>2, <1>4, <2>1, <2>2 DEF PlaceOK, Goes, LocksOnly
  <2>4. FileOK(r, kfile', side', replaced)
    BY <1>1, <1>4, <2>2, LocalRead DEF FileOK
  <2>5. Becomes(p, r)
    BY <1>1, <2>1, <2>2, <2>3, <2>4, GoesKeep, ReadBecomes
  <2>6. QED  BY <2>5
<1>5. QED  BY <1>1, <1>3, <1>4

\* A step that leaves the files alone.
LEMMA FilesStay ==
  ASSUME IInv, NEW p \in Proc, NEW r \in Recs(keys'), keys' \in Nat, keys <= keys',
         keychain' \in 0 .. keys', late' \subseteq [by : Proc, key : 1 .. keys'],
         UNCHANGED <<kfile, side, file>>, replaced \subseteq replaced', LocksOnly(p),
         Put(p, r), PlaceOK(p, r, lock'), FileOK(r, kfile, side, replaced'),
         KeepOK(p, r, conf, label, current)
  PROVE  Becomes(p, r)
<1>1. kfile' = kfile /\ side' = side /\ conf' = conf /\ label' = label /\ current' = current
  BY DEF file
<1>2. LocalKeys' = LocalKeys
  BY <1>1 DEF LocalKeys
<1>3. /\ 0 .. keys \subseteq 0 .. keys' /\ Seq(1 .. keys) \subseteq Seq(1 .. keys')
      /\ kfile \in 0 .. keys /\ side \in Seq(1 .. keys)
  BY MoreKeys, SeqMonotonic DEF IInv, Typed
<1>4. QED  BY <1>1, <1>2, <1>3 DEF Becomes, FilesMove, Put

\* The decision to write over the local key.
LEMMA PersistStep ==
  ASSUME IInv, NEW p \in Proc, Persist(p)
  PROVE  \E r : Becomes(p, r)
<1> DEFINE o == proc[p]
           r == [o EXCEPT !.pc = "write"]
<1>1. PICK inv \in Inventories :
         IF ~MayReplace(o.key, inv)
         THEN Finish(p, o.key) /\ UNCHANGED <<kfile, side, replaced>>
         ELSE /\ ReadLocal
              /\ IF LocalKey = o.key
                 THEN Finish(p, o.key) /\ UNCHANGED replaced
                 ELSE /\ Go(p, "write") /\ UNCHANGED lock
                      /\ replaced' = replaced \union Unused
  BY DEF Persist
<1>2. o.pc = "persist" /\ UNCHANGED <<keychain, late, keys, slow, file>>
  BY DEF Persist, At
<1>3. /\ o.pc \in Computing \union Writing /\ o.key \in 0 .. keys
      /\ PlaceOK(p, o, lock) /\ o.has /\ o.key # None
  BY <1>2, RecTypes, ProcTypes DEF Writing, PlaceOK, HasKeyPcs
<1>4. CASE MayReplace(o.key, inv) /\ LocalKey # o.key
  <2>1. /\ ReadLocal /\ Go(p, "write") /\ lock' = lock
        /\ replaced' = replaced \union Unused
    BY <1>1, <1>4
  <2>2. Put(p, r) /\ "write" \in Computing \union Writing
    BY <2>1, GoIsPut DEF Writing
  <2>3. r \in Recs(keys) /\ r.pc = "write" /\ r.key = o.key /\ Goes(o, r)
    BY <1>3, <2>2, GoPc
  <2> HIDE DEF r
  <2>4. PlaceOK(p, r, lock') /\ LocksOnly(p)
    BY <1>3, <2>1, <2>2, <2>3 DEF PlaceOK, Goes, LocksOnly
  <2>5. Encrypted(conf) \subseteq {o.key}
    <3>1. Opens(o.key, inv)
      BY <1>4 DEF MayReplace
    <3>2. o.key # -1
      BY <1>3, RecTypes
    <3>3. inv # Unknown
      BY <3>1, <3>2 DEF Opens, Unknown
    <3>4. inv = Encrypted(conf)
      BY <3>3 DEF Inventories
    <3>5. QED  BY <3>1, <3>4 DEF Opens
  <2>6. LocalKey # None => LocalKey \in replaced'
    BY <1>4, <2>1, <2>5 DEF Unused
  <2>7. side # <<>> => Last(side) = side[Len(side)] /\ Last(side) # None
    <3>1. ASSUME side # <<>> PROVE Last(side) \in 1 .. keys /\ Last(side) = side[Len(side)]
      BY <3>1, LastFront DEF IInv, Typed
    <3>2. QED  BY <3>1, RecTypes, Nothing
  <2>8. FileOK(r, kfile', side', replaced')
    <3>1. CASE Recovers /\ kfile' = Last(side)
      <4>1. LocalKey = Last(side) /\ kfile' = LocalKey /\ kfile' # None
        BY <2>7, <3>1 DEF LocalKey, Recovers
      <4>2. QED  BY <2>3, <2>6, <4>1 DEF FileOK
    <3>2. CASE kfile' = kfile /\ side' = side
      BY <2>3, <2>6, <2>7, <3>2 DEF FileOK, LocalKey
    <3>3. QED  BY <2>1, <3>1, <3>2 DEF ReadLocal
  <2>9. replaced \subseteq replaced'
    BY <2>1
  <2>10. Becomes(p, r)
    BY <1>2, <2>1, <2>2, <2>3, <2>4, <2>8, <2>9, GoesKeep, ReadBecomes
  <2>11. QED  BY <2>10
<1>5. CASE MayReplace(o.key, inv) /\ LocalKey = o.key
  <2>1. Finish(p, o.key) /\ ReadLocal /\ replaced' = replaced
    BY <1>1, <1>5
  <2>2. QED  BY <1>2, <1>3, <2>1, FinishRead
<1>6. CASE ~MayReplace(o.key, inv)
  <2>1. Finish(p, o.key) /\ Still
    BY <1>1, <1>2, <1>6 DEF Still, material
  <2>2. QED  BY <1>3, <2>1, FinishStill
<1>7. QED  BY <1>4, <1>5, <1>6

LEMMA WriteTmpStep ==
  ASSUME IInv, NEW p \in Proc, WriteTmp(p)
  PROVE  \E r : Becomes(p, r)
<1> DEFINE o == proc[p]
           pc == IF o.pc = "write" THEN "rename" ELSE "renamenew"
           k == IF o.pc = "write" THEN o.key ELSE None
           r == [o EXCEPT !.pc = pc]
<1>1. /\ o.pc \in {"write", "writenew"}
      /\ UNCHANGED <<keychain, late, kfile, keys, replaced, slow, file>>
      /\ \/ side' = Append(side, o.key) /\ Go(p, pc) /\ UNCHANGED lock
         \/ UNCHANGED side /\ Finish(p, k)
  BY DEF WriteTmp, At
<1>2. /\ o.pc \in Computing \union Writing /\ o.key \in 0 .. keys /\ k \in 0 .. keys
      /\ PlaceOK(p, o, lock) /\ o.has /\ o.key # None
      /\ FileOK(o, kfile, side, replaced)
  BY <1>1, RecTypes, ProcTypes DEF Writing, PlaceOK, HasKeyPcs
<1>3. CASE UNCHANGED side /\ Finish(p, k)
  <2>1. Still
    BY <1>1, <1>3 DEF Still, material
  <2>2. QED  BY <1>2, <1>3, <2>1, FinishStill
<1>4. CASE side' = Append(side, o.key) /\ Go(p, pc) /\ UNCHANGED lock
  <2>1. Put(p, r) /\ pc \in Computing \union Writing /\ pc \in {"rename", "renamenew"}
    BY <1>4, GoIsPut DEF Writing
  <2>2. (pc = "rename" => o.pc = "write") /\ (pc = "renamenew" => o.pc = "writenew")
    BY <1>1
  <2> HIDE DEF pc
  <2>3. r \in Recs(keys) /\ r.pc = pc /\ r.key = o.key /\ Goes(o, r)
    BY <1>2, <2>1, GoPc
  <2> HIDE DEF r
  <2>4. o.key \in 1 .. keys /\ side \in Seq(1 .. keys)
    BY <1>2, RecTypes, Nothing DEF IInv, Typed
  <2>5. /\ side' \in Seq(1 .. keys) /\ ToSet(side') = ToSet(side) \union {o.key}
        /\ side' # <<>> /\ side'[Len(side')] = o.key
    <3> HIDE DEF o
    <3>1. side' = Append(side, o.key)
      BY <1>4
    <3> DEFINE K == 1 .. keys
    <3>2. side \in Seq(K) /\ o.key \in K /\ Extends(side', side, o.key)
      BY <2>4, <3>1 DEF Extends
    <3> HIDE DEF K
    <3>3. /\ side' \in Seq(K) /\ ToSet(side') = ToSet(side) \union {o.key}
          /\ side' # <<>> /\ side'[Len(side')] = o.key
      BY <3>2, ToSetAppend
    <3>4. QED  BY <3>3 DEF K
  <2>6. LocalKeys \subseteq LocalKeys'
    <3>1. kfile' = kfile
      BY <1>1
    <3>2. QED  BY <3>1, <2>5 DEF LocalKeys
  <2>7. PlaceOK(p, r, lock') /\ LocksOnly(p) /\ FilesMove(p)
    BY <1>2, <1>4, <2>1, <2>3 DEF PlaceOK, Goes, LocksOnly, FilesMove
  <2>8. FileOK(r, kfile', side', replaced')
    BY <1>1, <1>2, <2>1, <2>2, <2>3, <2>5 DEF FileOK
  <2>9. KeepOK(p, r, conf, label, current)
    BY <2>3, GoesKeep
  <2>10. /\ keys' = keys /\ keychain' = keychain /\ late' = late /\ kfile' = kfile
         /\ conf' = conf /\ label' = label /\ current' = current /\ replaced' = replaced /\ keys <= keys
    BY <1>1, RecTypes DEF file
  <2>11. Becomes(p, r)
    BY <2>1, <2>3, <2>5, <2>6, <2>7, <2>8, <2>9, <2>10 DEF Becomes, Put, IInv, Typed
  <2>12. QED  BY <2>11
<1>5. QED  BY <1>1, <1>3, <1>4

\* The new file takes the place of a key that was given up, or of none.
LEMMA RenameStep ==
  ASSUME IInv, NEW p \in Proc, Rename(p)
  PROVE  \E r : Becomes(p, r)
<1> DEFINE o == proc[p]
           k == IF o.pc = "rename" THEN o.key ELSE None
<1>1. /\ o.pc \in {"rename", "renamenew"}
      /\ UNCHANGED <<keychain, late, keys, replaced, slow, file>>
      /\ \/ /\ Contains(side, o.key) /\ kfile' = o.key
            /\ side' = RemoveFirst(side, o.key)
            /\ Finish(p, o.key) \/ Finish(p, k)
         \/ UNCHANGED <<kfile, side>> /\ Finish(p, k)
  BY DEF Rename, At
<1>2. /\ o.pc \in Computing \union Writing /\ o.key \in 0 .. keys /\ k \in 0 .. keys
      /\ PlaceOK(p, o, lock) /\ o.has /\ o.key # None
      /\ FileOK(o, kfile, side, replaced)
  BY <1>1, RecTypes, ProcTypes DEF Writing, PlaceOK, HasKeyPcs
<1>3. CASE UNCHANGED <<kfile, side>> /\ Finish(p, k)
  <2>1. Still
    BY <1>1, <1>3 DEF Still, material
  <2>2. QED  BY <1>2, <1>3, <2>1, FinishStill
<1>4. CASE /\ Contains(side, o.key) /\ kfile' = o.key
           /\ side' = RemoveFirst(side, o.key)
           /\ Finish(p, o.key) \/ Finish(p, k)
  <2>1. side \in Seq(1 .. keys)
    BY DEF IInv, Typed
  <2>2. side' \in Seq(1 .. keys) /\ ToSet(side) \subseteq ToSet(side') \union {o.key}
    BY <1>4, <2>1, RemoveFirstFacts
  <2>3. kfile # None => kfile \in replaced \union {o.key}
    BY <1>1, <1>2 DEF FileOK
  <2>4. LocalKeys \subseteq LocalKeys' \union replaced
    <3>1. kfile' = o.key
      BY <1>4
    <3>2. QED  BY <2>2, <2>3, <3>1 DEF LocalKeys
  <2>5. PICK r \in Recs(keys) :
         /\ Put(p, r) /\ LocksOnly(p)
         /\ PlaceOK(p, r, lock') /\ KeepOK(p, r, conf, label, current)
         /\ \A a, b, c : FileOK(r, a, b, c)
    BY <1>2, <1>4, Finished
  <2>6. FilesMove(p)
    BY <1>2 DEF FilesMove
  <2>7. /\ keys' = keys /\ keychain' = keychain /\ late' = late
        /\ conf' = conf /\ label' = label /\ current' = current /\ replaced' = replaced /\ keys <= keys
    BY <1>1, RecTypes DEF file
  <2>8. Becomes(p, r)
    BY <1>2, <1>4, <2>2, <2>4, <2>5, <2>6, <2>7 DEF Becomes, Put, IInv, Typed
  <2>9. QED  BY <2>8
<1>5. QED  BY <1>1, <1>3, <1>4

\* The keychain is given a key, now or later.
LEMMA ChainSet ==
  ASSUME IInv, NEW p \in Proc, NEW k \in 0 .. keys, k # None,
         \E e \in SetResults(p) : SetChain(p, k, e)
  PROVE  keychain' \in 0 .. keys /\ late' \subseteq [by : Proc, key : 1 .. keys]
<1>1. k \in 1 .. keys /\ keychain \in 0 .. keys /\ late \subseteq [by : Proc, key : 1 .. keys]
  BY RecTypes, Nothing DEF IInv, Typed
<1>2. [by |-> p, key |-> k] \in [by : Proc, key : 1 .. keys]
  BY <1>1
<1>3. QED  BY <1>1, <1>2 DEF SetChain

LEMMA MigrateStep ==
  ASSUME IInv, NEW p \in Proc, Migrate(p)
  PROVE  \E r : Becomes(p, r)
<1> DEFINE o == proc[p]
<1>1. /\ o.pc = "migrate" /\ \E e \in SetResults(p) : SetChain(p, o.local, e)
      /\ Finish(p, o.local) /\ UNCHANGED <<kfile, side, keys, replaced, slow, file>>
  BY DEF Migrate, At
<1>2. o.pc \in Computing \union Writing /\ o.local \in 0 .. keys /\ o.local # None
  BY <1>1, RecTypes, ProcTypes DEF Writing, PlaceOK
<1>3. keychain' \in 0 .. keys /\ late' \subseteq [by : Proc, key : 1 .. keys]
  BY <1>1, <1>2, ChainSet
<1>4. PICK r \in Recs(keys) :
         /\ Put(p, r) /\ LocksOnly(p)
         /\ PlaceOK(p, r, lock') /\ KeepOK(p, r, conf, label, current)
         /\ \A a, b, c : FileOK(r, a, b, c)
  BY <1>1, <1>2, Finished
<1>5. keys' = keys /\ keys \in Nat /\ keys <= keys /\ replaced' = replaced
  BY <1>1, RecTypes
<1>6. Becomes(p, r)
  BY <1>1, <1>3, <1>4, <1>5, FilesStay
<1>7. QED  BY <1>6

LEMMA MintSetStep ==
  ASSUME IInv, NEW p \in Proc, MintSet(p)
  PROVE  \E r : Becomes(p, r)
<1> DEFINE o == proc[p]
<1>1. PICK pc \in {"mintback", "install"} : Go(p, pc)
  BY DEF MintSet
<1> DEFINE r == [o EXCEPT !.pc = pc]
<1>2. /\ o.pc = "mintset" /\ \E e \in SetResults(p) : SetChain(p, o.key, e)
      /\ lock' = lock /\ UNCHANGED <<kfile, side, keys, replaced, slow, file>>
  BY DEF MintSet, At
<1>3. /\ o.pc \in Computing \union Writing /\ o.key \in 0 .. keys /\ o.key # None /\ o.has
      /\ pc \in Computing \union Writing /\ Put(p, r)
  BY <1>1, <1>2, RecTypes, ProcTypes, GoIsPut DEF Writing, PlaceOK, HasKeyPcs
<1>4. keychain' \in 0 .. keys /\ late' \subseteq [by : Proc, key : 1 .. keys]
  BY <1>2, <1>3, ChainSet
<1>5. r \in Recs(keys) /\ r.pc = pc /\ r.key = o.key /\ Goes(o, r)
  BY <1>3, GoPc
<1> HIDE DEF r
<1>6. NextOK(o, r)
  BY <1>3, <1>5 DEF NextOK
<1>7. /\ LocksOnly(p) /\ PlaceOK(p, r, lock') /\ KeepOK(p, r, conf, label, current)
      /\ \A a, b, c : FileOK(r, a, b, c)
  BY <1>2, <1>5, <1>6, NextPlace
<1>8. keys' = keys /\ keys \in Nat /\ keys <= keys /\ replaced' = replaced
  BY <1>2, RecTypes
<1>9. Becomes(p, r)
  BY <1>2, <1>3, <1>4, <1>5, <1>7, <1>8, FilesStay
<1>10. QED  BY <1>9

LEMMA IdleOK ==
  ASSUME NEW k \in Nat
  PROVE  /\ Idle \in Recs(k) /\ Idle.pc = "idle"
         /\ \A p, l : PlaceOK(p, Idle, l)
         /\ \A a, b, c : FileOK(Idle, a, b, c)
         /\ \A q, t, l, C : q \notin C => KeepOK(q, Idle, t, l, C)
<1> DEFINE f == FALSE
           m == [c \in Conn |-> "absent"]
           t == [c \in Conn |-> Absent]
           l == [c \in Conn |-> NoName]
           n == [c \in Conn |-> <<>>]
           r == [pc |-> "idle", cache |-> None, has |-> f, local |-> None,
                 inv |-> {}, key |-> None, for |-> "none", text |-> t, labels |-> l,
                 mem |-> m, names |-> n, mine |-> {}]
<1>1. Idle = r
  BY DEF Idle
<1>2. /\ f \in BOOLEAN /\ ~f /\ m \in [Conn -> Mems] /\ l \in Labels
      /\ t \in Confs(k) /\ None \in 0 .. k /\ "idle" \in Pcs
      /\ {} \in SUBSET Int /\ {} \in SUBSET Conn
      /\ Named(t, l) /\ \A c \in Conn : m[c] = "absent"
  BY DEF Confs, Texts, None, Pcs, AtRest, Mems, Labels, Named
<1>3. n \in [Conn -> Seq(Name)]
  <2>1. <<>> \in Seq(Name)
    OBVIOUS
  <2>2. QED  BY <2>1
<1> HIDE DEF f, m, t, l, n
<1>4. r \in Recs(k)
  BY <1>2, <1>3, Zenon DEF Recs
<1>5. r.pc = "idle" /\ r.has = f /\ r.text = t /\ r.labels = l /\ r.mem = m
  OBVIOUS
<1> HIDE DEF r
<1>6. \A p, z : PlaceOK(p, r, z)
  BY <1>2, <1>5 DEF PlaceOK, Computing, Writing, HasKeyPcs
<1>7. \A a, b, c : FileOK(r, a, b, c)
  BY <1>5 DEF FileOK
<1>8. \A q, x, y, C : q \notin C => KeepOK(q, r, x, y, C)
  BY <1>2, <1>5 DEF KeepOK, Borne
<1>9. QED  BY <1>1, <1>4, <1>5, <1>6, <1>7, <1>8

LEMMA MintChainStep ==
  ASSUME IInv, NEW p \in Proc, MintChain(p)
  PROVE  \E r : Becomes(p, r)
<1> DEFINE o == proc[p]
<1>1. /\ o.pc = "mintchain" /\ lock' = lock
      /\ UNCHANGED <<keychain, late, kfile, side, replaced, slow, file>>
      /\ \/ keychain # None /\ keys' = keys
            /\ Put(p, [o EXCEPT !.pc = "persist", !.key = keychain])
         \/ keys' = keys + 1 /\ Put(p, [o EXCEPT !.pc = "mintset", !.key = keys + 1])
  BY DEF MintChain, At, Reads, ChainRead
<1>2. PICK k : \E pc \in {"persist", "mintset"} :
        /\ k # None /\ k \in 0 .. keys' /\ keys' \in Nat /\ keys <= keys'
        /\ Put(p, [o EXCEPT !.pc = pc, !.key = k])
  <2>1. keys \in Nat /\ keychain \in 0 .. keys /\ keys <= keys
    BY RecTypes
  <2>2. keys + 1 # None /\ keys + 1 \in 0 .. keys + 1 /\ keys + 1 \in Nat /\ keys <= keys + 1
    BY <2>1, Nothing
  <2>3. QED  BY <1>1, <2>1, <2>2
<1>3. PICK pc \in {"persist", "mintset"} :
        /\ k # None /\ k \in 0 .. keys' /\ keys' \in Nat /\ keys <= keys'
        /\ Put(p, [o EXCEPT !.pc = pc, !.key = k])
  BY <1>2
<1> DEFINE r == [o EXCEPT !.pc = pc, !.key = k]
<1>4. /\ o.pc \in Computing \union Writing /\ pc \in Computing \union Writing /\ o.has
      /\ PlaceOK(p, o, lock) /\ o \in Recs(keys) /\ keys \in Nat
  BY <1>1, RecTypes, ProcTypes DEF Writing, PlaceOK
<1>5. /\ 0 .. keys \subseteq 0 .. keys' /\ 1 .. keys \subseteq 1 .. keys'
      /\ o \in Recs(keys')
  BY <1>3, <1>4, MoreKeys
<1>6. o.pc \notin AtRest /\ pc \notin AtRest /\ pc \in Pcs
  BY <1>4 DEF AtRest, Pcs, Computing, Writing
<1>7. /\ r \in Recs(keys') /\ r.pc = pc /\ r.key = k /\ Goes(o, r)
  <2> HIDE DEF o
  <2>1. /\ r \in Recs(keys') /\ r.pc = pc /\ r.cache = o.cache
        /\ r.has = o.has /\ r.for = o.for /\ r.text = o.text /\ r.mem = o.mem
        /\ r.mine = o.mine /\ r.labels = o.labels /\ r.names = o.names /\ r.key = k
    BY <1>3, <1>5, <1>6 DEF Recs
  <2>2. QED  BY <1>6, <2>1 DEF Goes
<1> HIDE DEF r
<1>8. NextOK(o, r)
  BY <1>3, <1>4, <1>7 DEF NextOK
<1>9. /\ LocksOnly(p) /\ PlaceOK(p, r, lock') /\ KeepOK(p, r, conf, label, current)
      /\ \A a, b, c : FileOK(r, a, b, c)
  BY <1>1, <1>7, <1>8, NextPlace
<1>10. /\ keychain' = keychain /\ late' = late /\ replaced' = replaced /\ keychain \in 0 .. keys
       /\ late \subseteq [by : Proc, key : 1 .. keys]
  BY <1>1, RecTypes DEF IInv, Typed
<1>11. [by : Proc, key : 1 .. keys] \subseteq [by : Proc, key : 1 .. keys']
  BY <1>5
<1>12. keychain' \in 0 .. keys' /\ late' \subseteq [by : Proc, key : 1 .. keys']
  BY <1>5, <1>10, <1>11
<1>13. Put(p, r) /\ UNCHANGED <<kfile, side, file>>
  BY <1>1, <1>3 DEF r
<1>14. Becomes(p, r)
  BY <1>3, <1>7, <1>9, <1>10, <1>12, <1>13, FilesStay
<1>15. QED  BY <1>14

LEMMA CrashStep ==
  ASSUME IInv, NEW p \in Proc, Crash(p)
  PROVE  \E r : Becomes(p, r)
<1>1. /\ Put(p, Idle) /\ lock' = (IF lock = p THEN None ELSE lock) /\ late' \subseteq late
      /\ UNCHANGED <<keychain, kfile, side, keys, replaced, slow, conf, label>>
      /\ current' = current \ {p}
  BY DEF Crash
<1>2. LocksOnly(p) /\ FilesMove(p) /\ LocalKeys' = LocalKeys
  BY <1>1 DEF LocksOnly, FilesMove, LocalKeys
<1>3. keys \in Nat /\ keys <= keys
  BY RecTypes
<1>4. /\ Idle \in Recs(keys) /\ PlaceOK(p, Idle, lock')
      /\ KeepOK(p, Idle, conf, label, current') /\ FileOK(Idle, kfile, side, replaced)
  BY <1>1, <1>3, IdleOK
<1>5. late' \subseteq [by : Proc, key : 1 .. keys]
  BY <1>1 DEF IInv, Typed
<1>6. Becomes(p, Idle)
  BY <1>1, <1>2, <1>3, <1>4, <1>5 DEF Becomes, Put, IInv, Typed
<1>7. QED  BY <1>6

LEMMA LateWriteStep ==
  ASSUME IInv, LateWrite
  PROVE  IInv' /\ LocalKeys \subseteq LocalKeys' \union replaced
<1>1. PICK w \in late : keychain' = w.key /\ late' = late \ {w}
  BY DEF LateWrite
<1>2. UNCHANGED <<kfile, side, keys, replaced, conf, label, current, lock, proc>>
  BY DEF LateWrite, file
<1>3. w.key \in 1 .. keys /\ keys \in Nat /\ late \subseteq [by : Proc, key : 1 .. keys]
  BY <1>1 DEF IInv, Typed
<1>4. keychain' \in 0 .. keys' /\ late' \subseteq [by : Proc, key : 1 .. keys']
  BY <1>1, <1>2, <1>3
<1>5. Typed'
  BY <1>2, <1>4 DEF IInv, Typed
<1>6. ASSUME NEW q \in Proc PROVE ProcOK(q)'
  BY <1>2 DEF IInv, ProcOK
<1>7. QED  BY <1>2, <1>5, <1>6 DEF IInv, LocalKeys

----------------------------------------------------------------------------
(* The specification *)

LEMMA InitIInv ==
  ASSUME Init PROVE IInv
<1>1. /\ keys = OldKey /\ OldKey \in Nat /\ keychain \in {None, OldKey} /\ late = {}
      /\ kfile = None /\ side = <<>> /\ label \in Labels
      /\ conf = [c \in Conn |-> IF label[c] = NoName THEN Absent ELSE Plain]
      /\ current = {} /\ lock = None /\ proc = [p \in Proc |-> Idle]
  BY SecretAssumption DEF Init, Labels
<1>2. None \in 0 .. keys /\ keychain \in 0 .. keys
  BY <1>1 DEF None
<1>3. conf \in Confs(keys) /\ Named(conf, label)
  BY <1>1 DEF Confs, Texts, Named
<1>4. ASSUME NEW p \in Proc
      PROVE  /\ Idle \in Recs(keys) /\ PlaceOK(p, Idle, lock)
             /\ KeepOK(p, Idle, conf, label, current) /\ FileOK(Idle, kfile, side, replaced)
  BY <1>1, IdleOK
<1>5. Typed
  BY <1>1, <1>2, <1>3, <1>4 DEF Typed
<1>6. QED  BY <1>1, <1>4, <1>5 DEF IInv, ProcOK

LEMMA NextKeeps ==
  ASSUME IInv, [Next]_vars
  PROVE  IInv' /\ LocalKeys \subseteq LocalKeys' \union replaced
<1>1. ASSUME NEW p \in Proc, \E r : Becomes(p, r)
      PROVE  IInv' /\ LocalKeys \subseteq LocalKeys' \union replaced
  BY <1>1, BecomesInv
<1>2. ASSUME NEW p \in Proc, Load(p) \/ ReadPrevious(p) \/ WantKey(p) \/ LoadEnd(p) \/ SaveEnd(p)
      PROVE  \E r : Becomes(p, r)
  BY <1>2, LoadStep, ReadPreviousStep, WantKeyStep, LoadEndStep, SaveEndStep
<1>3. ASSUME NEW p \in Proc, Edits(p)
      PROVE  \E r : Becomes(p, r)
  BY <1>3, EditsStep
<1>4. ASSUME NEW p \in Proc,
             \/ Lock(p) \/ Look(p) \/ Inventory(p) \/ ReadKeychain(p) \/ Verify(p)
             \/ VerifyLocal(p)
      PROVE  \E r : Becomes(p, r)
  BY <1>4, LockStep, LookStep, InventoryStep, ReadKeychainStep, VerifyStep, VerifyLocalStep
<1>5. ASSUME NEW p \in Proc, Persist(p) \/ WriteTmp(p) \/ Rename(p)
      PROVE  \E r : Becomes(p, r)
  BY <1>5, PersistStep, WriteTmpStep, RenameStep
<1>6. ASSUME NEW p \in Proc,
             \/ Migrate(p) \/ MintLook(p) \/ MintChain(p) \/ MintSet(p) \/ MintBack(p)
             \/ Install(p) \/ Crash(p)
      PROVE  \E r : Becomes(p, r)
  BY <1>6, MigrateStep, MintLookStep, MintChainStep, MintSetStep, MintBackStep,
     InstallStep, CrashStep
<1>7. CASE LateWrite
  BY <1>7, LateWriteStep
<1>8. CASE UNCHANGED vars
  BY <1>8 DEF vars, material, file, IInv, Typed, ProcOK, LocalKeys
<1>9. CASE Next
  BY <1>1, <1>2, <1>3, <1>4, <1>5, <1>6, <1>7, <1>9, Zenon DEF Next, Edits
<1>10. QED  BY <1>8, <1>9

\* The invariant of every reachable state.
THEOREM Invariance == Spec => []IInv
<1>1. Init => IInv
  BY InitIInv
<1>2. IInv /\ [Next]_vars => IInv'
  BY NextKeeps
<1>3. QED  BY <1>1, <1>2, PTL DEF Spec

\* The keychain, the files, the lock and the records of the processes are well
\* typed, and only the process that holds key.lock believes that it does.
THEOREM TypeCorrect == Spec => []TypeOK
<1>1. IInv => TypeOK
  <2> SUFFICES ASSUME IInv PROVE TypeOK
    OBVIOUS
  <2>1. ToSet(side) \subseteq 0 .. keys
    <3>1. side \in Seq(1 .. keys) /\ keys \in Nat
      BY DEF IInv, Typed
    <3>2. \A i \in DOMAIN side : side[i] \in 0 .. keys
      BY <3>1
    <3>3. QED  BY <3>2 DEF ToSet
  <2>2. ASSUME NEW p \in Proc
        PROVE  (proc[p].has => lock = p) /\ proc[p].key \in 0 .. keys
    BY ProcTypes, RecTypes DEF PlaceOK
  <2>3. conf \in [Conn -> {Absent, Plain, Empty} \union 1 .. keys]
    BY DEF IInv, Typed, Confs, Texts
  <2>4. QED  BY <2>1, <2>2, <2>3 DEF TypeOK, IInv, Typed
<1>2. QED  BY <1>1, Invariance, PTL

\* A key of the local file or of a temporary file leaves them only after a
\* process decided to replace it while no saved secret needed it: whatever the
\* other processes, crashes and faults do between the decision and the rename.
THEOREM LocalKeysAreKept == Spec => LocalKeysKept
<1>1. IInv /\ [Next]_vars => LocalKeys \subseteq LocalKeys' \union replaced
  BY NextKeeps
<1>2. QED  BY <1>1, Invariance, PTL DEF Spec, LocalKeysKept

\* The file is written by the end of a save and by nothing else.
LEMMA OnlySaves ==
  ASSUME [Next]_vars, conf' # conf
  PROVE  \E p \in Proc : SaveEnd(p)
<1>1. ASSUME NEW p \in Proc,
             \/ Load(p) \/ ReadPrevious(p) \/ WantKey(p) \/ LoadEnd(p) \/ Edits(p)
             \/ Lock(p) \/ Look(p) \/ Inventory(p) \/ ReadKeychain(p) \/ Verify(p)
             \/ VerifyLocal(p)
      PROVE  conf' = conf
  BY <1>1 DEF Load, ReadPrevious, WantKey, LoadEnd, Edits, Edit, New, Delete, Changes, Lock,
              Look, Inventory, ReadKeychain, Verify, VerifyLocal, file
<1>2. ASSUME NEW p \in Proc,
             \/ Persist(p) \/ WriteTmp(p) \/ Rename(p)
             \/ Migrate(p) \/ MintLook(p) \/ MintChain(p) \/ MintSet(p) \/ MintBack(p)
             \/ Install(p) \/ Crash(p)
      PROVE  conf' = conf
  BY <1>2 DEF Persist, WriteTmp, Rename, Migrate, MintLook, MintChain, MintSet, MintBack,
              Install, Crash, file
<1>3. LateWrite => conf' = conf
  BY DEF LateWrite, file
<1>4. (UNCHANGED vars) => conf' = conf
  BY DEF vars
<1>5. Next
  BY <1>4
<1>6. QED  BY <1>1, <1>2, <1>3, <1>5, Zenon DEF Next, Edits

\* A save of a list read from this very file finds what the file holds of every
\* connection that was renamed at most once and whose places are its own, and
\* leaves its secret as it was, or encrypts it under the key it was read with,
\* where the user did not touch it: for all lists, names and numbers of changes.
THEOREM SavesKeep == Spec => SaveKeeps
<1> DEFINE Kept1(p) ==
             (At(p, "use") /\ proc[p].for = "save" /\ p \in current /\ proc'[p] # proc[p])
             => \A c \in Settled(proc[p]) \ proc[p].mine :
                  conf'[c] = conf[c] \/ (conf[c] \in {Plain, proc[p].cache}
                                           /\ conf'[c] = proc[p].cache)
<1>1. IInv /\ [Next]_vars => \A p \in Proc : Kept1(p)
  <2> SUFFICES ASSUME IInv, [Next]_vars, NEW p \in Proc,
                      At(p, "use"), proc[p].for = "save", p \in current,
                      proc'[p] # proc[p], conf' # conf,
                      NEW c \in Settled(proc[p]) \ proc[p].mine
               PROVE  conf'[c] = conf[c] \/ (conf[c] \in {Plain, proc[p].cache}
                                               /\ conf'[c] = proc[p].cache)
    OBVIOUS
  <2>1. PICK q \in Proc : SaveEnd(q)
    BY OnlySaves
  <2>2. q = p
    <3>1. \E r : proc' = [proc EXCEPT ![q] = r]
      BY <2>1, SaveEndIs DEF Put
    <3>2. proc \in [Proc -> Recs(keys)]
      BY DEF IInv, Typed
    <3>3. QED  BY <3>1, <3>2
  <2>3. Saved(p)
    BY <2>1, <2>2, SaveEndIs DEF file
  <2>4. Saves(proc[p])
    BY DEF Saves, At, AtRest
  <2>5. \/ Written(p, c) = conf[c]
        \/ /\ conf[c] \in {Plain, proc[p].cache}
           /\ Written(p, c) = proc[p].cache
    BY <2>3, <2>4, WrittenKept DEF Saved
  <2>6. conf'[c] = Written(p, c)
    BY <2>3 DEF Saved, Settled
  <2>7. QED  BY <2>5, <2>6
<1>2. QED  BY <1>1, Invariance, PTL DEF Spec, SaveKeeps

----------------------------------------------------------------------------
(* No key is lost but by a late write of the keychain *)

Grows == LocalKeys \subseteq LocalKeys' \union replaced
Remembers(p, r) ==
    /\ proc' = [proc EXCEPT ![p] = r]
    /\ Known \subseteq Known'
    /\ slow \subseteq slow'
    /\ keychain' = keychain \/ (keychain \in {None} \union slow /\ proc[p].has)
    /\ HoldsKnown(p, r, keychain', Known', slow')
    /\ Encrypted(conf') \subseteq Known'

LEMMA KnownIs ==
  /\ Known = ({keychain} \union LocalKeys \union replaced \union slow) \ {None}
  /\ Known' = ({keychain'} \union LocalKeys' \union replaced' \union slow') \ {None}
BY DEF Known, Stored, LocalKeys

LEMMA KnownGrows ==
  ASSUME Grows, replaced \subseteq replaced', slow \subseteq slow',
         keychain' = keychain \/ keychain \in {None} \union slow'
  PROVE  Known \subseteq Known' /\ LocalKeys \subseteq Known'
         /\ (keychain' # None => keychain' \in Known')
BY KnownIs DEF Grows, LocalKeys

LEMMA RemembersKeeps ==
  ASSUME IInv, KInv, NEW p \in Proc, NEW r, Remembers(p, r)
  PROVE  KInv'
<1>1. proc \in [Proc -> Recs(keys)] /\ proc' = [proc EXCEPT ![p] = r]
  BY DEF IInv, Typed, Remembers
<1>2. ASSUME NEW q \in Proc, q # p PROVE HoldsKnown(q, proc'[q], keychain', Known', slow')
  <2> DEFINE o == proc[q]
  <2>1. /\ proc'[q] = o /\ HoldsKnown(q, o, keychain, Known, slow)
        /\ Known \subseteq Known' /\ slow \subseteq slow'
    BY <1>1, <1>2 DEF KInv, Remembers
  <2>2. PlaceOK(q, o, lock) /\ PlaceOK(p, proc[p], lock)
    BY ProcTypes
  <2> HIDE DEF o
  <2>3. CASE keychain' = keychain
    BY <2>1, <2>3 DEF HoldsKnown
  <2>4. CASE proc[p].has
    <3>1. lock = p
      BY <2>2, <2>4 DEF PlaceOK
    <3>2. o.pc \notin {"migrate", "mint", "mintchain", "mintset"}
      BY <1>2, <2>2, <3>1 DEF PlaceOK, Writing
    <3>3. QED  BY <2>1, <3>2 DEF HoldsKnown
  <2>5. QED  BY <2>1, <2>3, <2>4 DEF Remembers
<1>3. HoldsKnown(p, proc'[p], keychain', Known', slow')
  BY <1>1 DEF Remembers
<1>4. \A q \in Proc : HoldsKnown(q, proc'[q], keychain', Known', slow')
  BY <1>2, <1>3
<1>5. QED  BY <1>4 DEF KInv, Remembers

LEMMA FinishRemembers ==
  ASSUME IInv, KInv, NEW p \in Proc, proc[p].pc \in Computing \union Writing,
         NEW k \in 0 .. keys, Finish(p, k), k # None => k \in Known',
         Grows, replaced \subseteq replaced', UNCHANGED <<conf, slow>>,
         keychain' = keychain \/ (keychain \in {None} \union slow /\ proc[p].has)
  PROVE  KInv'
<1>1. PICK r \in Recs(keys) :
         /\ Put(p, r) /\ r.pc = "use" /\ r.cache = (IF k = None THEN Failed ELSE k)
         /\ r.text = proc[p].text /\ r.local = None
  BY Finished
<1>2. Known \subseteq Known'
  BY KnownGrows
<1>3. Encrypted(proc[p].text) \subseteq Known /\ Encrypted(conf) \subseteq Known
  BY DEF KInv, HoldsKnown
<1>4. HoldsKnown(p, r, keychain', Known', slow')
  BY <1>1, <1>2, <1>3 DEF HoldsKnown, Taken
<1>5. Encrypted(conf') \subseteq Known'
  BY <1>2, <1>3
<1>6. Remembers(p, r)
  BY <1>1, <1>2, <1>4, <1>5 DEF Remembers, Put
<1>7. QED  BY <1>6, RemembersKeeps

\* A step that goes on with the computation, the list as it was.
LEMMA GoesRemembers ==
  ASSUME IInv, KInv, NEW p \in Proc, NEW r, Goes(proc[p], r), Put(p, r),
         r.local # None => r.local \in Known',
         Grows, replaced \subseteq replaced', UNCHANGED <<conf, slow>>,
         keychain' = keychain \/ (keychain \in {None} \union slow /\ proc[p].has),
         r.pc \in Taken => r.key \in Known',
         r.pc \in {"migrate", "mint", "mintchain", "mintset"} /\ p \notin NoBus
           => keychain' \in {None} \union slow
  PROVE  KInv'
<1>1. Known \subseteq Known'
  BY KnownGrows
<1>2. /\ HoldsKnown(p, proc[p], keychain, Known, slow) /\ Encrypted(conf) \subseteq Known
  BY DEF KInv
<1>3. r.cache = proc[p].cache /\ r.text = proc[p].text
  BY DEF Goes
<1>4. HoldsKnown(p, r, keychain', Known', slow')
  BY <1>1, <1>2, <1>3 DEF HoldsKnown
<1>5. Remembers(p, r)
  BY <1>1, <1>2, <1>4 DEF Remembers, Put
<1>6. QED  BY <1>5, RemembersKeeps

\* A step that neither computes the key nor touches what is shared but the list.
LEMMA QuietRemembers ==
  ASSUME IInv, KInv, NEW p \in Proc, NEW r, Put(p, r),
         UNCHANGED <<keychain, kfile, side, replaced, slow>>,
         r.local \in {None, proc[p].local}, r.cache \in {None, proc[p].cache},
         Encrypted(r.text) \subseteq Known, Encrypted(conf') \subseteq Known,
         r.pc \notin Writing, r.pc \notin {"verify", "verifylocal"}
  PROVE  KInv'
<1>1. keychain' = keychain /\ slow' = slow /\ Known' = Known
  BY DEF Known, Stored
<1>2. HoldsKnown(p, proc[p], keychain, Known, slow)
  BY DEF KInv
<1>3. HoldsKnown(p, r, keychain', Known', slow')
  BY <1>1, <1>2 DEF HoldsKnown, Writing, Taken
<1>4. Remembers(p, r)
  BY <1>1, <1>3 DEF Remembers, Put
<1>5. QED  BY <1>4, RemembersKeeps

LEMMA QuietSteps ==
  ASSUME IInv, KInv, NEW p \in Proc,
         \/ Load(p) \/ ReadPrevious(p) \/ WantKey(p) \/ LoadEnd(p) \/ Edits(p)
         \/ Lock(p) \/ Inventory(p) \/ Crash(p)
  PROVE  KInv'
<1> DEFINE o == proc[p]
           t == [c \in Conn |-> Absent]
<1>1. /\ UNCHANGED <<keychain, kfile, side, replaced, slow, conf>>
      /\ \E r : /\ Put(p, r) /\ r.local \in {None, o.local} /\ r.cache \in {None, o.cache}
                /\ r.text \in {o.text, conf, t} /\ r.pc \notin Writing
                /\ r.pc \notin {"verify", "verifylocal"}
  <2>0. o \in Recs(keys) /\ Idle.text = t
    BY ProcTypes DEF Idle
  <2>1. CASE Load(p)
    <3>1. PICK r : /\ Put(p, r)
                   /\ \/ r = [o EXCEPT !.pc = "key", !.for = "load", !.text = conf,
                                       !.labels = label]
                      \/ r = [o EXCEPT !.mem = Idle.mem, !.names = Idle.names, !.mine = {}]
      BY <2>1 DEF Load
    <3>2. o.pc = "idle" /\ UNCHANGED <<keychain, kfile, side, replaced, slow, conf>>
      BY <2>1 DEF Load, At, material, file
    <3>3. r.local = o.local /\ r.cache = o.cache /\ r.text \in {o.text, conf}
          /\ r.pc \in {"key", "idle"}
      BY <2>0, <3>1, <3>2 DEF Recs
    <3>4. QED  BY <3>1, <3>2, <3>3 DEF Writing
  <2>2. CASE ReadPrevious(p)
    <3>1. PICK r : /\ Put(p, r)
                   /\ \/ r = [o EXCEPT !.pc = "key", !.for = "save", !.text = conf,
                                       !.labels = label]
                      \/ r = [o EXCEPT !.pc = "key", !.for = "save"]
      BY <2>2 DEF ReadPrevious
    <3>2. r.local = o.local /\ r.cache = o.cache /\ r.text \in {o.text, conf} /\ r.pc = "key"
      BY <2>0, <3>1 DEF Recs
    <3>3. UNCHANGED <<keychain, kfile, side, replaced, slow, conf>> /\ Put(p, r)
      BY <2>2, <3>1 DEF ReadPrevious, material, file
    <3>4. QED  BY <2>0, <3>2, <3>3 DEF Writing
  <2>3. CASE WantKey(p)
    <3>1. PICK pc \in {"use", "lock"} : Put(p, [o EXCEPT !.pc = pc])
      BY <2>3 DEF WantKey, Go, Put
    <3> DEFINE r == [o EXCEPT !.pc = pc]
    <3>2. r.local = o.local /\ r.cache = o.cache /\ r.text = o.text /\ r.pc = pc
      BY <2>0 DEF Recs
    <3>3. UNCHANGED <<keychain, kfile, side, replaced, slow, conf>> /\ Put(p, r)
      BY <2>3, <3>1 DEF WantKey, material, file
    <3> HIDE DEF r
    <3>4. QED  BY <3>2, <3>3 DEF Writing
  <2>4. CASE LoadEnd(p)
    <3>0. PICK pc \in AtRest : \E m, n, l : Put(p, Loaded(p, pc, m, n, t, l))
      BY <2>4, LoadEndIs
    <3>1. PICK m, n, l : Put(p, Loaded(p, pc, m, n, t, l))
      BY <3>0
    <3> DEFINE r == Loaded(p, pc, m, n, t, l)
    <3>2. r.local = o.local /\ r.cache = o.cache /\ r.text = t /\ r.pc = pc
      BY <2>0 DEF Recs, Loaded
    <3>3. UNCHANGED <<keychain, kfile, side, replaced, slow, conf>> /\ Put(p, r)
      BY <2>4, <3>1 DEF LoadEnd, material, file
    <3> HIDE DEF r
    <3>4. QED  BY <3>2, <3>3 DEF Writing, AtRest
  <2>5. CASE Edits(p)
    <3>1. PICK r \in Recs(keys) : Put(p, r) /\ Altered(o, r)
      BY <2>5, EditsAlter
    <3>2. UNCHANGED <<keychain, kfile, side, replaced, slow, conf>>
      BY <2>5, EditsAlter DEF Still, material, file
    <3>3. QED  BY <3>1, <3>2 DEF Altered, Writing
  <2>6. CASE Lock(p)
    <3>1. PICK b \in BOOLEAN : Put(p, [o EXCEPT !.pc = "local", !.has = b])
      BY <2>6 DEF Lock
    <3> DEFINE r == [o EXCEPT !.pc = "local", !.has = b]
    <3>2. r.local = o.local /\ r.cache = o.cache /\ r.text = o.text /\ r.pc = "local"
      BY <2>0 DEF Recs
    <3>3. UNCHANGED <<keychain, kfile, side, replaced, slow, conf>> /\ Put(p, r)
      BY <2>6, <3>1 DEF Lock, material, file
    <3> HIDE DEF r
    <3>4. QED  BY <3>2, <3>3 DEF Writing
  <2>7. CASE Inventory(p)
    <3>1. PICK inv \in Inventories : Put(p, [o EXCEPT !.pc = "keychain", !.inv = inv])
      BY <2>7 DEF Inventory
    <3> DEFINE r == [o EXCEPT !.pc = "keychain", !.inv = inv]
    <3>2. r.local = o.local /\ r.cache = o.cache /\ r.text = o.text /\ r.pc = "keychain"
      BY <2>0 DEF Recs
    <3>3. UNCHANGED <<keychain, kfile, side, replaced, slow, conf>> /\ Put(p, r)
      BY <2>7, <3>1 DEF Inventory, material, file
    <3> HIDE DEF r
    <3>4. QED  BY <3>2, <3>3 DEF Writing
  <2>8. CASE Crash(p)
    <3>1. UNCHANGED <<keychain, kfile, side, replaced, slow, conf>> /\ Put(p, Idle)
      BY <2>8 DEF Crash, file
    <3>2. Idle.local = None /\ Idle.cache = None /\ Idle.text = t /\ Idle.pc = "idle"
      BY DEF Idle
    <3>3. QED  BY <3>1, <3>2 DEF Writing
  <2>9. QED  BY <2>1, <2>2, <2>3, <2>4, <2>5, <2>6, <2>7, <2>8
<1>2. PICK r : /\ Put(p, r) /\ r.local \in {None, o.local} /\ r.cache \in {None, o.cache}
               /\ r.text \in {o.text, conf, t} /\ r.pc \notin Writing
                /\ r.pc \notin {"verify", "verifylocal"}
  BY <1>1
<1>3. Encrypted(o.text) \subseteq Known /\ Encrypted(conf) \subseteq Known
  BY DEF KInv, HoldsKnown
<1>4. Encrypted(t) = {}
  BY DEF Encrypted
<1>5. Encrypted(r.text) \subseteq Known /\ Encrypted(conf') \subseteq Known
  BY <1>1, <1>2, <1>3, <1>4
<1>6. QED  BY <1>1, <1>2, <1>5, QuietRemembers

LEMMA SaveEndK ==
  ASSUME IInv, KInv, NEW p \in Proc, SaveEnd(p)
  PROVE  KInv'
<1> DEFINE o == proc[p]
           t == [c \in Conn |-> Absent]
<1>1. PICK r \in Recs(keys) :
        /\ Put(p, r) /\ r.pc = "idle" /\ r.cache = o.cache /\ r.local = o.local /\ r.text = t
  BY SaveEndIs
<1>2. /\ Saved(p) \/ UNCHANGED file
      /\ o.for = "save" /\ UNCHANGED <<keychain, kfile, side, replaced, slow>>
  BY SaveEndIs DEF material
<1>3. /\ Encrypted(o.text) \subseteq Known /\ Encrypted(conf) \subseteq Known
      /\ o.cache \notin {None, Failed} => o.cache \in Known
  BY DEF KInv, HoldsKnown
<1>4. Encrypted(conf') \subseteq Known
  <2>1. CASE Saved(p)
    <3>1. ASSUME NEW c \in Conn, Written(p, c) \notin {Absent, Plain, Empty}
          PROVE  Written(p, c) \in Known
      <4>1. \/ Written(p, c) = o.cache /\ HasKey(p)
            \/ Written(p, c) \in Encrypted(o.text)
        BY <1>2, <2>1, <3>1, WrittenTyped DEF Saved
      <4>2. QED  BY <1>3, <4>1 DEF HasKey
    <3>2. conf' = [c \in Conn |-> Written(p, c)]
      BY <2>1 DEF Saved
    <3>3. QED  BY <3>1, <3>2 DEF Encrypted
  <2>2. CASE UNCHANGED file
    <3>1. conf' = conf
      BY <2>2 DEF file
    <3>2. QED  BY <1>3, <3>1
  <2>3. QED  BY <1>2, <2>1, <2>2
<1>5. Encrypted(r.text) \subseteq Known
  <2>1. Encrypted(t) = {}
    BY DEF Encrypted
  <2>2. QED  BY <1>1, <2>1
<1>6. QED  BY <1>1, <1>2, <1>4, <1>5, QuietRemembers DEF Writing

LEMMA LookK ==
  ASSUME IInv, KInv, Grows, NEW p \in Proc, Look(p)
  PROVE  KInv'
<1> DEFINE o == proc[p]
           r == [o EXCEPT !.pc = "inventory", !.local = LocalKey]
<1>1. /\ o.pc = "local" /\ ReadLocal /\ Put(p, r)
      /\ UNCHANGED <<keychain, replaced, slow, conf>>
  BY DEF Look, At, file
<1>2. o \in Recs(keys) /\ (LocalKey # None => LocalKey \in Known')
  BY <1>1, ProcTypes, LocalRead, KnownIs
<1>3. r.pc = "inventory" /\ r.local = LocalKey /\ Goes(o, r)
  <2>1. "inventory" \notin AtRest /\ o.pc \notin AtRest
    BY <1>1 DEF AtRest
  <2> HIDE DEF o
  <2>2. /\ r.pc = "inventory" /\ r.cache = o.cache /\ r.local = LocalKey
        /\ r.has = o.has /\ r.for = o.for /\ r.text = o.text /\ r.mem = o.mem
        /\ r.mine = o.mine /\ r.labels = o.labels /\ r.names = o.names
    BY <1>2, <2>1 DEF Recs
  <2>3. QED  BY <2>1, <2>2 DEF Goes
<1> HIDE DEF r
<1>4. QED  BY <1>1, <1>2, <1>3, GoesRemembers DEF Taken

LEMMA ReadKeychainK ==
  ASSUME IInv, KInv, Grows, NEW p \in Proc, ReadKeychain(p)
  PROVE  KInv'
<1> DEFINE o == proc[p]
<1>1. PICK e \in Reads(p) :
         CASE PlanFor(p, e) = "none" -> Finish(p, None)
           [] PlanFor(p, e) = "uselocal" -> Finish(p, o.local)
           [] PlanFor(p, e) = "keychain" ->
                /\ Put(p, [o EXCEPT !.pc = "verify", !.key = keychain])
                /\ UNCHANGED lock
           [] OTHER -> Go(p, PlanFor(p, e)) /\ UNCHANGED lock
  BY DEF ReadKeychain
<1>2. o.pc = "keychain" /\ keychain' = keychain /\ replaced' = replaced /\ slow' = slow /\ conf' = conf
      /\ Known' = Known
  BY DEF ReadKeychain, At, material, file, Known, Stored
<1>3. o.pc \in Computing \union Writing /\ None \in 0 .. keys /\ o.local \in 0 .. keys
      /\ keychain \in 0 .. keys /\ (o.local # None => o.local \in Known)
  BY <1>2, RecTypes DEF Computing, KInv, HoldsKnown
<1>4. CASE PlanFor(p, e) = "none"
  BY <1>1, <1>2, <1>3, <1>4, FinishRemembers
<1>5. CASE PlanFor(p, e) = "uselocal"
  <2>1. Finish(p, o.local)
    BY <1>1, <1>5
  <2>2. QED  BY <1>2, <1>3, <2>1, FinishRemembers
<1>6. CASE PlanFor(p, e) = "keychain"
  <2> DEFINE r == [o EXCEPT !.pc = "verify", !.key = keychain]
  <2>1. Put(p, r) /\ keychain \in Known
    <3>1. keychain # None
      BY <1>6 DEF PlanFor, Reads, ChainRead
    <3>2. QED  BY <1>1, <1>6, <3>1, KnownIs
  <2>2. "verify" \in Computing \union Writing
    BY DEF Computing
  <2> HIDE DEF r
  <2>3. r.pc = "verify" /\ r.key = keychain /\ r.local = o.local /\ Goes(o, r)
    <3>1. r = WithKey(proc[p], "verify", keychain)
      BY DEF r, WithKey
    <3>2. QED  BY <1>3, <2>2, <3>1, GoKey
  <2>4. QED  BY <1>2, <1>3, <2>1, <2>3, GoesRemembers
<1>7. CASE PlanFor(p, e) \in {"migrate", "mint"}
  <2> DEFINE pc == PlanFor(p, e)
             r == [o EXCEPT !.pc = pc]
  <2>1. Go(p, pc)
    BY <1>1, <1>7
  <2>2. Put(p, r)
    BY <2>1, GoIsPut
  <2>3. pc \in {"migrate", "mint"} /\ (p \notin NoBus => keychain \in {None} \union slow)
    BY <1>7 DEF PlanFor, Reads, ChainRead
  <2> HIDE DEF pc
  <2>4. pc \in Computing \union Writing
    BY <2>3 DEF Writing
  <2>5. r.pc = pc /\ r.local = o.local /\ Goes(o, r)
    BY <1>3, <2>4, GoPc
  <2> HIDE DEF r
  <2>6. QED  BY <1>2, <1>3, <2>2, <2>3, <2>5, GoesRemembers DEF Taken
<1>8. PlanFor(p, e) \in {"none", "uselocal", "keychain", "migrate", "mint"}
  BY DEF PlanFor
<1>9. QED  BY <1>4, <1>5, <1>6, <1>7, <1>8

LEMMA VerifyK ==
  ASSUME IInv, KInv, Grows, NEW p \in Proc, Verify(p)
  PROVE  KInv'
<1> DEFINE o == proc[p]
<1>1. /\ o.pc = "verify"
      /\ Finish(p, o.key) \/ \E pc \in {"verifylocal", "persist"} : Go(p, pc)
  BY DEF Verify, At
<1>2. /\ keychain' = keychain /\ replaced' = replaced /\ slow' = slow /\ conf' = conf
      /\ Known' = Known
  BY DEF Verify, material, file, Known, Stored
<1>3. /\ o.pc \in Computing \union Writing /\ o.key \in 0 .. keys
      /\ o.key \in Known /\ (o.local # None => o.local \in Known)
  BY <1>1, RecTypes DEF Computing, KInv, HoldsKnown, Taken
<1>4. CASE Finish(p, o.key)
  BY <1>2, <1>3, <1>4, FinishRemembers
<1>5. ASSUME NEW pc \in {"verifylocal", "persist"}, Go(p, pc) PROVE KInv'
  <2> DEFINE r == [o EXCEPT !.pc = pc]
  <2>1. Put(p, r) /\ pc \in Computing \union Writing
    BY <1>5, GoIsPut DEF Computing, Writing
  <2>2. r.pc = pc /\ r.key = o.key /\ r.local = o.local /\ Goes(o, r)
    BY <1>3, <2>1, GoPc
  <2> HIDE DEF r
  <2>3. QED  BY <1>2, <1>3, <2>1, <2>2, GoesRemembers
<1>6. QED  BY <1>1, <1>4, <1>5

LEMMA VerifyLocalK ==
  ASSUME IInv, KInv, Grows, NEW p \in Proc, VerifyLocal(p)
  PROVE  KInv'
<1>1. PICK k \in {proc[p].local, proc[p].key} : Finish(p, k)
  BY DEF VerifyLocal
<1>2. /\ keychain' = keychain /\ replaced' = replaced /\ slow' = slow /\ conf' = conf
      /\ Known' = Known
  BY DEF VerifyLocal, material, file, Known, Stored
<1>3. /\ proc[p].pc \in Computing \union Writing /\ k \in 0 .. keys
      /\ k # None => k \in Known
  BY RecTypes DEF VerifyLocal, At, Computing, KInv, HoldsKnown, Taken
<1>4. QED  BY <1>1, <1>2, <1>3, FinishRemembers

LEMMA PersistK ==
  ASSUME IInv, KInv, Grows, NEW p \in Proc, Persist(p)
  PROVE  KInv'
<1> DEFINE o == proc[p]
<1>1. /\ o.pc = "persist" /\ (Go(p, "write") \/ Finish(p, o.key))
      /\ keychain' = keychain /\ replaced \subseteq replaced' /\ slow' = slow /\ conf' = conf
  BY DEF Persist, At, file
<1>2. /\ o.pc \in Computing \union Writing /\ o.key \in 0 .. keys
      /\ o.key \in Known /\ (o.local # None => o.local \in Known)
  BY <1>1, RecTypes DEF Writing, KInv, HoldsKnown, Taken
<1>3. o.key \in Known' /\ Known \subseteq Known'
  BY <1>1, <1>2, KnownGrows
<1>4. CASE Finish(p, o.key)
  BY <1>1, <1>2, <1>3, <1>4, FinishRemembers
<1>5. CASE Go(p, "write")
  <2> DEFINE r == [o EXCEPT !.pc = "write"]
  <2>1. Put(p, r)
    BY <1>5, GoIsPut
  <2>2. "write" \in Computing \union Writing
    BY DEF Writing
  <2>3. r.pc = "write" /\ r.key = o.key /\ r.local = o.local /\ Goes(o, r)
    BY <1>2, <2>2, GoPc
  <2> HIDE DEF r
  <2>4. QED  BY <1>1, <1>2, <1>3, <2>1, <2>3, GoesRemembers
<1>6. QED  BY <1>1, <1>4, <1>5

LEMMA WriteTmpK ==
  ASSUME IInv, KInv, Grows, NEW p \in Proc, WriteTmp(p)
  PROVE  KInv'
<1> DEFINE o == proc[p]
           pc == IF o.pc = "write" THEN "rename" ELSE "renamenew"
           k == IF o.pc = "write" THEN o.key ELSE None
           r == [o EXCEPT !.pc = pc]
<1>1. /\ o.pc \in {"write", "writenew"} /\ (Go(p, pc) \/ Finish(p, k))
      /\ keychain' = keychain /\ replaced' = replaced /\ slow' = slow /\ conf' = conf
  BY DEF WriteTmp, At, file
<1>2. /\ o.pc \in Computing \union Writing /\ o.key \in 0 .. keys /\ k \in 0 .. keys
      /\ (o.pc = "write" => o.key \in Known)
      /\ (o.local # None => o.local \in Known)
  BY <1>1, RecTypes DEF Writing, KInv, HoldsKnown, Taken, None
<1>3. Known \subseteq Known' /\ (k # None => k \in Known')
  BY <1>1, <1>2, KnownGrows
<1>4. CASE Finish(p, k)
  BY <1>1, <1>2, <1>3, <1>4, FinishRemembers
<1>5. CASE Go(p, pc)
  <2>1. Put(p, r)
    BY <1>5, GoIsPut
  <2>2. /\ pc \in Computing \union Writing /\ pc \in {"rename", "renamenew"}
        /\ pc = "rename" => o.pc = "write"
    BY <1>1 DEF Writing
  <2> HIDE DEF pc
  <2>3. r.pc = pc /\ r.key = o.key /\ r.local = o.local /\ Goes(o, r)
    BY <1>2, <2>2, GoPc
  <2> HIDE DEF r
  <2>4. QED  BY <1>1, <1>2, <1>3, <2>1, <2>2, <2>3, GoesRemembers DEF Taken
<1>6. QED  BY <1>1, <1>4, <1>5

LEMMA RenameK ==
  ASSUME IInv, KInv, Grows, NEW p \in Proc, Rename(p)
  PROVE  KInv'
<1> DEFINE o == proc[p]
           k == IF o.pc = "rename" THEN o.key ELSE None
<1>1. /\ o.pc \in {"rename", "renamenew"}
      /\ keychain' = keychain /\ replaced' = replaced /\ slow' = slow /\ conf' = conf
      /\ \/ kfile' = o.key /\ Finish(p, o.key)
         \/ Finish(p, k)
  BY DEF Rename, At, file
<1>2. /\ o.pc \in Computing \union Writing /\ o.key \in 0 .. keys /\ k \in 0 .. keys
      /\ o.key # None /\ (o.pc = "rename" => o.key \in Known)
  BY <1>1, RecTypes, ProcTypes DEF Writing, HasKeyPcs, PlaceOK, KInv, HoldsKnown, Taken
<1>3. (k # None => k \in Known') /\ (kfile' = o.key => o.key \in Known')
  BY <1>1, <1>2, KnownGrows, KnownIs DEF LocalKeys
<1>4. CASE kfile' = o.key /\ Finish(p, o.key)
  BY <1>1, <1>2, <1>3, <1>4, FinishRemembers
<1>5. CASE Finish(p, k)
  BY <1>1, <1>2, <1>3, <1>5, FinishRemembers
<1>6. QED  BY <1>1, <1>4, <1>5

LEMMA ReadFinishK ==
  ASSUME IInv, KInv, Grows, NEW p \in Proc, MintLook(p) \/ Install(p)
  PROVE  KInv'
<1> DEFINE o == proc[p]
<1>1. /\ ReadLocal /\ keychain' = keychain /\ replaced' = replaced /\ slow' = slow /\ conf' = conf
      /\ \/ Finish(p, LocalKey)
         \/ o.pc = "mint" /\ Go(p, "mintchain")
         \/ o.pc = "install" /\ Go(p, "writenew")
      /\ o.pc \in {"mint", "install"}
  BY DEF MintLook, Install, At, file
<1>2. /\ o.pc \in Computing \union Writing /\ LocalKey \in 0 .. keys
      /\ (LocalKey # None => LocalKey \in Known') /\ Known \subseteq Known'
      /\ (o.local # None => o.local \in Known)
      /\ (o.pc = "mint" /\ p \notin NoBus => keychain \in {None} \union slow)
  BY <1>1, LocalRead, KnownIs, KnownGrows DEF Writing, KInv, HoldsKnown
<1>3. CASE Finish(p, LocalKey)
  BY <1>1, <1>2, <1>3, FinishRemembers
<1>4. ASSUME NEW pc \in {"mintchain", "writenew"}, Go(p, pc), pc = "mintchain" => o.pc = "mint"
      PROVE  KInv'
  <2> DEFINE r == [o EXCEPT !.pc = pc]
  <2>1. Put(p, r) /\ pc \in Computing \union Writing
    BY <1>4, GoIsPut DEF Writing
  <2>2. r.pc = pc /\ r.local = o.local /\ Goes(o, r)
    BY <1>2, <2>1, GoPc
  <2> HIDE DEF r
  <2>3. QED  BY <1>1, <1>2, <1>4, <2>1, <2>2, GoesRemembers DEF Taken
<1>5. QED  BY <1>1, <1>3, <1>4

\* What is put into the keychain is put where none was, or one that came late.
LEMMA ChainSetK ==
  ASSUME NEW p \in Proc, NEW k, proc[p].has, p \notin NoBus => keychain \in {None} \union slow,
         NEW e \in SetResults(p), SetChain(p, k, e)
  PROVE  keychain' = keychain \/ (keychain \in {None} \union slow /\ proc[p].has)
BY DEF SetChain, SetResults

LEMMA MigrateK ==
  ASSUME IInv, KInv, Grows, NEW p \in Proc, Migrate(p)
  PROVE  KInv'
<1> DEFINE o == proc[p]
<1>1. PICK e \in SetResults(p) : SetChain(p, o.local, e)
  BY DEF Migrate
<1>2. o.pc = "migrate" /\ Finish(p, o.local) /\ replaced' = replaced /\ slow' = slow /\ conf' = conf
  BY DEF Migrate, At, file
<1>3. /\ o.pc \in Computing \union Writing /\ o.local \in 0 .. keys /\ o.has
      /\ (o.local # None => o.local \in Known) /\ (p \notin NoBus => keychain \in {None} \union slow)
  BY <1>2, RecTypes, ProcTypes DEF Writing, PlaceOK, KInv, HoldsKnown
<1>4. keychain' = keychain \/ (keychain \in {None} \union slow /\ o.has)
  BY <1>1, <1>3, ChainSetK
<1>5. Known \subseteq Known'
  BY <1>2, <1>4, KnownGrows
<1>6. QED  BY <1>2, <1>3, <1>4, <1>5, FinishRemembers

LEMMA MintChainK ==
  ASSUME IInv, KInv, Grows, NEW p \in Proc, MintChain(p)
  PROVE  KInv'
<1> DEFINE o == proc[p]
<1>1. /\ o.pc = "mintchain" /\ keychain' = keychain /\ replaced' = replaced /\ slow' = slow /\ conf' = conf
      /\ \/ keychain # None /\ Put(p, [o EXCEPT !.pc = "persist", !.key = keychain])
         \/ Put(p, [o EXCEPT !.pc = "mintset", !.key = keys + 1])
  BY DEF MintChain, At, file, Reads, ChainRead
<1>2. PICK k : \E pc \in {"persist", "mintset"} :
        (pc = "persist" => k = keychain /\ k # None) /\ Put(p, [o EXCEPT !.pc = pc, !.key = k])
  BY <1>1
<1>3. PICK pc \in {"persist", "mintset"} :
        (pc = "persist" => k = keychain /\ k # None) /\ Put(p, [o EXCEPT !.pc = pc, !.key = k])
  BY <1>2
<1> DEFINE r == [o EXCEPT !.pc = pc, !.key = k]
<1>4. /\ o \in Recs(keys) /\ (o.local # None => o.local \in Known)
      /\ (p \notin NoBus => keychain \in {None} \union slow) /\ Known \subseteq Known'
  BY <1>1, ProcTypes, KnownGrows DEF KInv, HoldsKnown
<1>5. /\ r.pc = pc /\ r.key = k /\ r.local = o.local /\ Goes(o, r)
  <2>1. o.pc \notin AtRest /\ pc \notin AtRest
    BY <1>1 DEF AtRest
  <2> HIDE DEF o
  <2>2. /\ r.pc = pc /\ r.cache = o.cache /\ r.key = k /\ r.local = o.local
        /\ r.has = o.has /\ r.for = o.for /\ r.text = o.text /\ r.mem = o.mem
        /\ r.mine = o.mine /\ r.labels = o.labels /\ r.names = o.names
    BY <1>4 DEF Recs
  <2>3. QED  BY <2>1, <2>2 DEF Goes
<1> HIDE DEF r
<1>6. Put(p, r)
  BY <1>3 DEF r
<1>7. r.pc \in Taken => r.key \in Known'
  BY <1>3, <1>4, <1>5, KnownIs DEF Taken
<1>8. QED  BY <1>1, <1>3, <1>4, <1>5, <1>6, <1>7, GoesRemembers

LEMMA MintSetK ==
  ASSUME IInv, KInv, Grows, NEW p \in Proc, MintSet(p)
  PROVE  KInv'
<1> DEFINE o == proc[p]
<1>1. PICK e \in SetResults(p) : SetChain(p, o.key, e)
                                 /\ Go(p, IF e = "ok" THEN "mintback" ELSE "install")
  BY DEF MintSet
<1> DEFINE pc == IF e = "ok" THEN "mintback" ELSE "install"
           r == [o EXCEPT !.pc = pc]
<1>2. o.pc = "mintset" /\ replaced' = replaced /\ slow' = slow /\ conf' = conf
  BY DEF MintSet, At, file
<1>3. /\ o.pc \in Computing \union Writing /\ o.has
      /\ (o.local # None => o.local \in Known) /\ (p \notin NoBus => keychain \in {None} \union slow)
  BY <1>2, RecTypes, ProcTypes DEF Writing, PlaceOK, KInv, HoldsKnown
<1>4. keychain' = keychain \/ (keychain \in {None} \union slow /\ o.has)
  BY <1>1, <1>3, ChainSetK
<1>5. Known \subseteq Known'
  BY <1>2, <1>4, KnownGrows
<1>6. pc \in Computing \union Writing /\ pc \in {"mintback", "install"} /\ Put(p, r)
  BY <1>1, GoIsPut DEF Writing
<1> HIDE DEF pc
<1>7. r.pc = pc /\ r.local = o.local /\ Goes(o, r)
  BY <1>3, <1>6, GoPc
<1> HIDE DEF r
<1>8. QED  BY <1>2, <1>3, <1>4, <1>5, <1>6, <1>7, GoesRemembers DEF Taken

LEMMA MintBackK ==
  ASSUME IInv, KInv, Grows, NEW p \in Proc, MintBack(p)
  PROVE  KInv'
<1> DEFINE o == proc[p]
<1>1. /\ o.pc = "mintback" /\ keychain' = keychain /\ replaced' = replaced /\ slow' = slow /\ conf' = conf
      /\ \/ keychain # None /\ Put(p, [o EXCEPT !.pc = "persist", !.key = keychain])
         \/ Put(p, [o EXCEPT !.pc = "install"])
  BY DEF MintBack, At, material, file, Go, Put, Reads, ChainRead
<1>2. /\ o.pc \in Computing \union Writing /\ o.key \in 0 .. keys /\ keychain \in 0 .. keys
      /\ "persist" \in Computing \union Writing /\ "install" \in Computing \union Writing
      /\ (o.local # None => o.local \in Known) /\ Known \subseteq Known'
  BY <1>1, RecTypes, KnownGrows DEF Writing, KInv, HoldsKnown
<1>3. CASE keychain # None /\ Put(p, [o EXCEPT !.pc = "persist", !.key = keychain])
  <2> DEFINE r == [o EXCEPT !.pc = "persist", !.key = keychain]
  <2> HIDE DEF r
  <2>1. r.pc = "persist" /\ r.key = keychain /\ r.local = o.local /\ Goes(o, r)
    <3>1. r = WithKey(proc[p], "persist", keychain)
      BY DEF r, WithKey
    <3>2. QED  BY <1>2, <3>1, GoKey
  <2>2. Put(p, r) /\ keychain \in Known'
    BY <1>2, <1>3, KnownIs DEF r
  <2>3. QED  BY <1>1, <1>2, <2>1, <2>2, GoesRemembers
<1>4. CASE Put(p, [o EXCEPT !.pc = "install"])
  <2> DEFINE r == [o EXCEPT !.pc = "install"]
  <2>1. r.pc = "install" /\ r.local = o.local /\ Goes(o, r)
    BY <1>2, GoPc
  <2> HIDE DEF r
  <2>2. Put(p, r)
    BY <1>4 DEF r
  <2>3. QED  BY <1>1, <1>2, <2>1, <2>2, GoesRemembers DEF Taken
<1>5. QED  BY <1>1, <1>3, <1>4

\* A late write puts its key where it knows of it.
LEMMA LateWriteK ==
  ASSUME IInv, KInv, LateWrite
  PROVE  KInv'
<1>1. PICK w \in late : keychain' = w.key /\ slow' = slow \union ({keychain, w.key} \ {None})
  BY DEF LateWrite
<1>2. UNCHANGED <<kfile, side, replaced, conf, proc>>
  BY DEF LateWrite, file
<1>3. Known \subseteq Known' /\ keychain' \in {None} \union slow'
  BY <1>1, <1>2 DEF Known, Stored
<1>4. ASSUME NEW q \in Proc PROVE HoldsKnown(q, proc[q], keychain', Known', slow')
  <2>1. HoldsKnown(q, proc[q], keychain, Known, slow)
    BY DEF KInv
  <2>2. QED  BY <1>3, <2>1 DEF HoldsKnown
<1>5. QED  BY <1>2, <1>3, <1>4 DEF KInv

LEMMA InitK ==
  ASSUME Init PROVE KInv
<1>1. /\ \A c \in Conn : conf[c] \in {Absent, Plain}
      /\ proc = [p \in Proc |-> Idle]
  BY DEF Init
<1>2. Encrypted(conf) = {}
  BY <1>1 DEF Encrypted
<1>3. ASSUME NEW p \in Proc PROVE HoldsKnown(p, proc[p], keychain, Known, slow)
  <2>1. /\ Idle.local = None /\ Idle.cache = None /\ Idle.text = [c \in Conn |-> Absent]
        /\ Idle.pc = "idle" /\ "idle" \notin Taken
    BY DEF Idle, Taken
  <2>2. Encrypted(Idle.text) = {}
    BY <2>1 DEF Encrypted
  <2>3. proc[p] = Idle
    BY <1>1
  <2>4. QED  BY <2>1, <2>2, <2>3 DEF HoldsKnown
<1>4. QED  BY <1>2, <1>3 DEF KInv

LEMMA NextK ==
  ASSUME IInv, KInv, [Next]_vars
  PROVE  KInv'
<1>0. Grows
  BY NextKeeps DEF Grows
<1>1. ASSUME NEW p \in Proc,
             \/ Load(p) \/ ReadPrevious(p) \/ WantKey(p) \/ LoadEnd(p) \/ Edits(p)
             \/ Lock(p) \/ Inventory(p) \/ Crash(p)
      PROVE  KInv'
  BY <1>1, QuietSteps
<1>2. ASSUME NEW p \in Proc,
             \/ SaveEnd(p) \/ Look(p) \/ ReadKeychain(p) \/ Verify(p) \/ VerifyLocal(p)
             \/ Persist(p) \/ WriteTmp(p) \/ Rename(p)
      PROVE  KInv'
  BY <1>0, <1>2, SaveEndK, LookK, ReadKeychainK, VerifyK, VerifyLocalK, PersistK, WriteTmpK,
     RenameK
<1>3. ASSUME NEW p \in Proc,
             \/ Migrate(p) \/ MintLook(p) \/ MintChain(p) \/ MintSet(p) \/ MintBack(p)
             \/ Install(p)
      PROVE  KInv'
  BY <1>0, <1>3, MigrateK, ReadFinishK, MintChainK, MintSetK, MintBackK
<1>4. CASE LateWrite
  BY <1>4, LateWriteK
<1>5. CASE UNCHANGED vars
  BY <1>5 DEF vars, KInv, Known, Stored
<1>6. CASE Next
  BY <1>1, <1>2, <1>3, <1>4, <1>6, Zenon DEF Next, Edits
<1>7. QED  BY <1>5, <1>6

\* The key of every saved secret is in the keychain or beside it in a local file,
\* unless it was replaced there when no secret was saved with it, or a write of
\* the keychain that was given up came late and put it there or replaced it:
\* whatever stops, fails or cannot be read, for every number of processes.
THEOREM KeysAreKept == Spec => []LostOnlyUnsaved
<1>1. Init => KInv
  BY InitK
<1>2. IInv /\ KInv /\ [Next]_vars => KInv'
  BY NextK
<1>3. KInv => LostOnlyUnsaved
  BY DEF KInv, Known, LostOnlyUnsaved
<1>4. QED  BY <1>1, <1>2, <1>3, Invariance, PTL DEF Spec

----------------------------------------------------------------------------
(* Where no process has a way to the keychain *)

Headless == late = {} /\ replaced = {} /\ slow = {} /\ \A p \in Proc : proc[p].pc \notin Taken

LEMMA HeadlessStep ==
  ASSUME NoBus = Proc, IInv, Headless, NEW p \in Proc,
         \/ Load(p) \/ ReadPrevious(p) \/ WantKey(p) \/ LoadEnd(p) \/ SaveEnd(p)
         \/ Edits(p)
         \/ Lock(p) \/ Look(p) \/ Inventory(p) \/ ReadKeychain(p) \/ Verify(p)
         \/ VerifyLocal(p) \/ Persist(p) \/ WriteTmp(p) \/ Rename(p)
         \/ Migrate(p) \/ MintLook(p) \/ MintChain(p) \/ MintSet(p) \/ MintBack(p)
         \/ Install(p) \/ Crash(p)
  PROVE  Headless'
<1> DEFINE o == proc[p]
<1>1. o \in Recs(keys) /\ o.pc \notin Taken /\ late = {} /\ replaced = {} /\ slow = {} /\ p \in NoBus
  BY ProcTypes DEF Headless
<1>2. ASSUME NEW r, Put(p, r), r.pc \notin Taken, late' = {}, replaced' = {}, slow' = {}
      PROVE  Headless'
  <2>1. \A q \in Proc : proc'[q] = IF q = p THEN r ELSE proc[q]
    BY <1>2 DEF Put, IInv, Typed
  <2>2. QED  BY <1>2, <2>1 DEF Headless
<1>3. ASSUME NEW k, Finish(p, k), late' = {}, replaced' = {}, slow' = {}
      PROVE  Headless'
  <2> DEFINE r == [o EXCEPT !.pc = "use", !.cache = IF k = None THEN Failed ELSE k,
                            !.has = FALSE, !.local = None, !.inv = {}, !.key = None]
  <2>1. Put(p, r)
    BY <1>3 DEF Finish
  <2>2. r.pc = "use"
    BY <1>1 DEF Recs
  <2> HIDE DEF r
  <2>3. QED  BY <1>2, <1>3, <2>1, <2>2 DEF Taken
<1>4. ASSUME NEW pc, Go(p, pc), pc \notin Taken, late' = {}, replaced' = {}, slow' = {}
      PROVE  Headless'
  <2> DEFINE r == [o EXCEPT !.pc = pc]
  <2>1. Put(p, r)
    BY <1>4, GoIsPut
  <2>2. r.pc = pc
    BY <1>1 DEF Recs
  <2> HIDE DEF r
  <2>3. QED  BY <1>2, <1>4, <2>1, <2>2
<1>5. ASSUME NEW k, NEW e \in SetResults(p), SetChain(p, k, e)
      PROVE  late' = {} /\ e = "refused"
  BY <1>1, <1>5 DEF SetResults, SetChain
<1>6. \A e \in Reads(p) : e = "unavailable"
  BY <1>1 DEF Reads, ChainRead
<1>7. ASSUME \/ Load(p) \/ ReadPrevious(p) \/ WantKey(p) \/ LoadEnd(p) \/ SaveEnd(p)
             \/ Edits(p) \/ Lock(p) \/ Look(p) \/ Inventory(p) \/ Crash(p)
      PROVE  Headless'
  <2>1. /\ \E r : Put(p, r) /\ r.pc \notin Taken
        /\ late' \subseteq late /\ replaced' = replaced /\ slow' = slow
    <3>1. CASE Load(p)
      <4>1. PICK r : /\ Put(p, r)
                     /\ \/ r = [o EXCEPT !.pc = "key", !.for = "load", !.text = conf,
                                         !.labels = label]
                        \/ r = [o EXCEPT !.mem = Idle.mem, !.names = Idle.names, !.mine = {}]
        BY <3>1 DEF Load
      <4>2. r.pc \in {"key", o.pc}
        BY <1>1, <4>1 DEF Recs
      <4>3. QED  BY <1>1, <3>1, <4>1, <4>2 DEF Load, material, Taken
    <3>2. CASE ReadPrevious(p)
      <4>1. PICK r : /\ Put(p, r)
                     /\ \/ r = [o EXCEPT !.pc = "key", !.for = "save", !.text = conf,
                                         !.labels = label]
                        \/ r = [o EXCEPT !.pc = "key", !.for = "save"]
        BY <3>2 DEF ReadPrevious
      <4>2. r.pc = "key"
        BY <1>1, <4>1 DEF Recs
      <4>3. QED  BY <3>2, <4>1, <4>2 DEF ReadPrevious, material, Taken
    <3>3. CASE WantKey(p)
      <4>1. PICK pc \in {"use", "lock"} : Put(p, [o EXCEPT !.pc = pc])
        BY <3>3 DEF WantKey, Go, Put
      <4> DEFINE r == [o EXCEPT !.pc = pc]
      <4>2. r.pc = pc
        BY <1>1 DEF Recs
      <4> HIDE DEF r
      <4>3. Put(p, r) /\ r.pc \notin Taken
        BY <4>1, <4>2 DEF r, Taken
      <4>4. QED  BY <3>3, <4>3 DEF WantKey, material
    <3>4. CASE LoadEnd(p)
      <4>0. PICK pc \in AtRest : \E m, n, t, l : Put(p, Loaded(p, pc, m, n, t, l))
        BY <3>4, LoadEndIs
      <4>1. PICK m, n, t, l : Put(p, Loaded(p, pc, m, n, t, l))
        BY <4>0
      <4> DEFINE r == Loaded(p, pc, m, n, t, l)
      <4>2. r.pc = pc
        BY <1>1 DEF Recs, Loaded
      <4> HIDE DEF r
      <4>3. Put(p, r) /\ r.pc \notin Taken
        BY <4>1, <4>2 DEF r, AtRest, Taken
      <4>4. QED  BY <3>4, <4>3 DEF LoadEnd, material
    <3>5. CASE SaveEnd(p)
      <4>1. PICK r \in Recs(keys) : Put(p, r) /\ r.pc = "idle"
        BY <3>5, SaveEndIs
      <4>2. UNCHANGED material
        BY <3>5, SaveEndIs
      <4>3. QED  BY <4>1, <4>2 DEF material, Taken
    <3>6. CASE Edits(p)
      <4>1. PICK r \in Recs(keys) : Put(p, r) /\ Altered(o, r)
        BY <3>6, EditsAlter
      <4>2. UNCHANGED material
        BY <3>6, EditsAlter DEF Still
      <4>3. QED  BY <4>1, <4>2 DEF material, Taken, Altered
    <3>7. CASE Lock(p)
      <4>1. PICK r, b : Put(p, r) /\ r = [o EXCEPT !.pc = "local", !.has = b]
        BY <3>7 DEF Lock
      <4>2. r.pc = "local"
        BY <1>1, <4>1 DEF Recs
      <4>3. QED  BY <3>7, <4>1, <4>2 DEF Lock, material, Taken
    <3>8. CASE Look(p)
      <4>1. PICK r, k : Put(p, r) /\ r = [o EXCEPT !.pc = "inventory", !.local = k]
        BY <3>8 DEF Look
      <4>2. r.pc = "inventory"
        BY <1>1, <4>1 DEF Recs
      <4>3. QED  BY <3>8, <4>1, <4>2 DEF Look, Taken
    <3>9. CASE Inventory(p)
      <4>1. PICK r, k : Put(p, r) /\ r = [o EXCEPT !.pc = "keychain", !.inv = k]
        BY <3>9 DEF Inventory
      <4>2. r.pc = "keychain"
        BY <1>1, <4>1 DEF Recs
      <4>3. QED  BY <3>9, <4>1, <4>2 DEF Inventory, material, Taken
    <3>10. CASE Crash(p)
      <4>1. Put(p, Idle) /\ Idle.pc = "idle"
        BY <3>10 DEF Crash, Idle
      <4>2. QED  BY <3>10, <4>1 DEF Crash, Taken
    <3>11. QED  BY <1>7, <3>1, <3>2, <3>3, <3>4, <3>5, <3>6, <3>7, <3>8, <3>9, <3>10
  <2>2. QED  BY <1>1, <1>2, <2>1
<1>8. CASE ReadKeychain(p)
  <2>1. PICK e \in Reads(p) :
         CASE PlanFor(p, e) = "none" -> Finish(p, None)
           [] PlanFor(p, e) = "uselocal" -> Finish(p, o.local)
           [] PlanFor(p, e) = "keychain" ->
                /\ Put(p, [o EXCEPT !.pc = "verify", !.key = keychain])
                /\ UNCHANGED lock
           [] OTHER -> Go(p, PlanFor(p, e)) /\ UNCHANGED lock
    BY <1>8 DEF ReadKeychain
  <2>2. PlanFor(p, e) \in {"none", "uselocal", "mint"}
    BY <1>6 DEF PlanFor
  <2>3. Finish(p, None) \/ Finish(p, o.local) \/ Go(p, "mint")
    BY <2>1, <2>2
  <2>4. late' = {} /\ replaced' = {} /\ slow' = {}
    BY <1>1, <1>8 DEF ReadKeychain, material
  <2>5. QED  BY <1>3, <1>4, <2>3, <2>4 DEF Taken
<1>9. ~Verify(p) /\ ~VerifyLocal(p) /\ ~Persist(p)
  BY <1>1 DEF Verify, VerifyLocal, Persist, At, Taken
<1>10. ASSUME WriteTmp(p) \/ Rename(p) \/ MintLook(p) \/ Install(p)
       PROVE  Headless'
  <2>1. o.pc # "write" /\ o.pc # "rename"
    BY <1>1 DEF Taken
  <2>2. /\ late' = {} /\ replaced' = {} /\ slow' = {}
        /\ \/ \E k : Finish(p, k)
           \/ Go(p, "renamenew") \/ Go(p, "mintchain") \/ Go(p, "writenew")
    BY <1>1, <1>10, <2>1 DEF WriteTmp, Rename, MintLook, Install, At
  <2>3. QED  BY <1>3, <1>4, <2>2 DEF Taken
<1>11. ASSUME Migrate(p) \/ MintSet(p) PROVE Headless'
  <2>1. replaced' = {} /\ slow' = {} /\ late' = {}
    BY <1>1, <1>5, <1>11 DEF Migrate, MintSet
  <2>2. Finish(p, o.local) \/ Go(p, "install")
    BY <1>5, <1>11 DEF Migrate, MintSet
  <2>3. QED  BY <1>3, <1>4, <2>1, <2>2 DEF Taken
<1>12. CASE MintBack(p)
  <2>1. Go(p, "install") /\ late' = {} /\ replaced' = {} /\ slow' = {}
    BY <1>1, <1>6, <1>12 DEF MintBack, material
  <2>2. QED  BY <1>4, <2>1 DEF Taken
<1>13. CASE MintChain(p)
  <2>1. PICK r, k : Put(p, r) /\ r = [o EXCEPT !.pc = "mintset", !.key = k]
    BY <1>6, <1>13 DEF MintChain
  <2>2. r.pc = "mintset"
    BY <1>1, <2>1 DEF Recs
  <2>3. late' = {} /\ replaced' = {} /\ slow' = {}
    BY <1>1, <1>13 DEF MintChain
  <2>4. QED  BY <1>2, <2>1, <2>2, <2>3 DEF Taken
<1>14. QED  BY <1>7, <1>8, <1>9, <1>10, <1>11, <1>12, <1>13

\* Where no process has a way to the keychain (a server without a session bus),
\* nothing is lost at all: the key of every saved secret is in the local file
\* or in a temporary file that the next process takes up, whatever stops or
\* fails, and however many processes make the first key at once.
THEOREM HeadlessNeverLoses ==
  ASSUME NoBus = Proc
  PROVE  Spec => []SecretsOpen
<1>1. Init => Headless
  <2> SUFFICES ASSUME Init PROVE Headless
    OBVIOUS
  <2>1. Idle.pc = "idle" /\ \A p \in Proc : proc[p] = Idle
    BY DEF Init, Idle
  <2>2. QED  BY <2>1 DEF Init, Headless, Taken
<1>2. IInv /\ Headless /\ [Next]_vars => Headless'
  <2> SUFFICES ASSUME IInv, Headless, [Next]_vars PROVE Headless'
    OBVIOUS
  <2>1. ~LateWrite
    BY DEF LateWrite, Headless
  <2>2. CASE UNCHANGED vars
    BY <2>2 DEF vars, Headless
  <2>3. CASE Next
    BY <2>1, <2>3, HeadlessStep, Zenon DEF Next, Edits
  <2>4. QED  BY <2>2, <2>3
<1>3. Headless /\ LostOnlyUnsaved => SecretsOpen
  BY DEF Headless, LostOnlyUnsaved, SecretsOpen
<1>4. QED  BY <1>1, <1>2, <1>3, Invariance, KeysAreKept, PTL DEF Spec
=============================================================================
