---------------------------- MODULE UploadProofs ----------------------------
(***************************************************************************)
(* Proofs about Upload, for every number of uploads, names, retries and     *)
(* every kind of server.                                                    *)
(***************************************************************************)
EXTENDS Upload, TLAPS

USE UploadAssumption

-----------------------------------------------------------------------------
(* Type correctness *)

UpOK == /\ up \in [Uploaders -> Upload]
        /\ \A u \in Uploaders : /\ up[u].handle \in Inodes \cup {0}
                                /\ up[u].bak \in Inodes \cup {0}

DirOK == /\ data \in Seq(Seq(Block))
         /\ file \in [Names -> Inodes \cup {0}]
         /\ part \in [Names -> Inodes \cup {0}]
         /\ baks \in [Names -> SUBSET Inodes]
         /\ cur \in [Names -> Inodes \cup {0}]

EnvOK == ver \in [Uploaders -> Versions] /\ server \in Servers

LEMMA TypeParts == TypeOK <=> UpOK /\ DirOK /\ EnvOK
  BY DEF TypeOK, UpOK, DirOK, EnvOK

LEMMA VersionOne == 1 \in Versions /\ 1 \in Names
  BY DEF Versions, Names

LEMMA IdleType == Idle \in Upload
  BY VersionOne DEF Idle, Upload, Pc

\* What a step does to one upload, and what that must satisfy.
LEMMA UpStep ==
  ASSUME UpOK, NEW u \in Uploaders, NEW r \in Upload,
         Inodes \subseteq Inodes',
         r.handle \in Inodes' \cup {0}, r.bak \in Inodes' \cup {0},
         up' = [up EXCEPT ![u] = r]
  PROVE  UpOK'
<1>1. up' \in [Uploaders -> Upload]
  BY DEF UpOK
<1>2. \A w \in Uploaders : up'[w] = IF w = u THEN r ELSE up[w]
  BY DEF UpOK
<1> QED BY <1>1, <1>2 DEF UpOK

LEMMA InodeNat ==
  ASSUME DirOK
  PROVE  \A i \in Inodes : i \in Nat /\ i # 0
<1>1. Len(data) \in Nat /\ Inodes = 1..Len(data)
  BY DEF DirOK, Inodes
<1> QED BY <1>1

\* New contents keep the inodes, or add one.
LEMMA DataKept ==
  ASSUME DirOK, NEW i \in Inodes, NEW c \in Seq(Block),
         data' = [data EXCEPT ![i] = c]
  PROVE  data' \in Seq(Seq(Block)) /\ Inodes' = Inodes
  BY DEF DirOK, Inodes

LEMMA DataAdded ==
  ASSUME DirOK, data' = Append(data, <<>>)
  PROVE  /\ data' \in Seq(Seq(Block))
         /\ Inodes' = Inodes \cup {Len(data) + 1}
         /\ Len(data) + 1 \notin Inodes
         /\ Len(data) + 1 # 0
<1>1. data \in Seq(Seq(Block)) /\ <<>> \in Seq(Block)
  BY DEF DirOK
<1>2. data' \in Seq(Seq(Block)) /\ Len(data') = Len(data) + 1 /\ Len(data) \in Nat
  BY <1>1
<1>3. Inodes = 1..Len(data) /\ Inodes' = 1..Len(data')
  BY <1>1, <1>2 DEF Inodes
<1> QED BY <1>2, <1>3

LEMMA PutType ==
  ASSUME NEW c \in Seq(Block), NEW k \in Nat \ {0}, NEW b \in Block
  PROVE  Put(c, k, b) \in Seq(Block)
<1>1. Hole \in Block
  BY DEF Hole, Block
<1>2. \A i \in 1..Len(c) : c[i] \in Block
  OBVIOUS
<1> DEFINE m == IF k > Len(c) THEN k ELSE Len(c)
<1>3. m \in Nat
  OBVIOUS
<1>4. \A i \in 1..m : (IF i = k THEN b ELSE IF i <= Len(c) THEN c[i] ELSE Hole) \in Block
  BY <1>1, <1>2
<1>5. Put(c, k, b) = [i \in 1..m |->
         IF i = k THEN b ELSE IF i <= Len(c) THEN c[i] ELSE Hole]
  BY DEF Put
<1> HIDE DEF m
<1>6. Put(c, k, b) \in [1..m -> Block]
  BY <1>4, <1>5
<1> QED BY <1>3, <1>6

LEMMA GoType ==
  ASSUME UpOK, NEW u \in Uploaders, NEW pc \in Pc, Go(u, pc),
         Inodes \subseteq Inodes'
  PROVE  UpOK'
<1> DEFINE r == [up[u] EXCEPT !.pc = pc]
<1>0. up[u] \in Upload
  BY DEF UpOK
<1>1. r \in Upload /\ r.handle = up[u].handle /\ r.bak = up[u].bak
  BY <1>0 DEF Upload
<1>2. up' = [up EXCEPT ![u] = r]
  BY DEF Go
<1> HIDE DEF r
<1> QED BY <1>1, <1>2, UpStep DEF UpOK

LEMMA EndType ==
  ASSUME UpOK, NEW u \in Uploaders, NEW pc \in Pc, End(u, pc),
         Inodes \subseteq Inodes'
  PROVE  UpOK'
<1> DEFINE r == [Idle EXCEPT !.pc = pc, !.name = up[u].name, !.runs = up[u].runs]
<1>1. r \in Upload /\ r.handle = 0 /\ r.bak = 0
  BY IdleType DEF UpOK, Upload, Idle
<1>2. up' = [up EXCEPT ![u] = r]
  BY DEF End
<1> HIDE DEF r
<1> QED BY <1>1, <1>2, UpStep

LEMMA FailType ==
  ASSUME UpOK, NEW u \in Uploaders, Fail(u), Inodes \subseteq Inodes'
  PROVE  UpOK'
<1> DEFINE r == [up[u] EXCEPT !.pc = IF GiveUp(u) THEN "giveup" ELSE "start",
                              !.attempt = IF GiveUp(u) THEN @ ELSE @ + 1]
<1>1. up[u] \in Upload
  BY DEF UpOK
<1>2. ~GiveUp(u) => up[u].attempt + 1 \in 0..Retries
  <2>1. up[u].attempt \in 0..Retries
    BY <1>1 DEF Upload
  <2>2. ~GiveUp(u) => ~(up[u].attempt >= Retries)
    BY DEF GiveUp
  <2> QED BY <2>1, <2>2
<1>3. r \in Upload /\ r.handle = up[u].handle /\ r.bak = up[u].bak
  <2>1. CASE GiveUp(u)
    <3>1. r = [up[u] EXCEPT !.pc = "giveup", !.attempt = up[u].attempt]
      BY <2>1
    <3> HIDE DEF r
    <3> QED BY <1>1, <3>1 DEF Upload, Pc
  <2>2. CASE ~GiveUp(u)
    <3>1. r = [up[u] EXCEPT !.pc = "start", !.attempt = up[u].attempt + 1]
      BY <2>2
    <3> HIDE DEF r
    <3> QED BY <1>1, <1>2, <2>2, <3>1 DEF Upload, Pc
  <2> QED BY <2>1, <2>2
<1>4. up' = [up EXCEPT ![u] = r]
  BY DEF Fail
<1> HIDE DEF r
<1> QED BY <1>3, <1>4, UpStep DEF UpOK

LEMMA TypeInit == Init => TypeOK
<1> SUFFICES ASSUME Init PROVE TypeOK
  OBVIOUS
<1>1. Hole \in Block
  BY DEF Hole, Block
<1>2. <<Hole>> \in Seq(Block)
  BY <1>1
<1>3. data \in Seq(Seq(Block)) /\ Len(data) = 1
  BY <1>2 DEF Init
<1>4. Inodes = {1}
  BY <1>3 DEF Inodes
<1>5. up \in [Uploaders -> Upload]
  BY IdleType DEF Init
<1>6. \A u \in Uploaders : up[u].handle = 0 /\ up[u].bak = 0
  BY DEF Init, Idle
<1>7. ver \in [Uploaders -> Versions]
  BY VersionOne DEF Init
<1>8. /\ file \in [Names -> Inodes \cup {0}]
      /\ part \in [Names -> Inodes \cup {0}]
      /\ baks \in [Names -> SUBSET Inodes]
      /\ cur \in [Names -> Inodes \cup {0}]
  BY <1>4 DEF Init
<1> QED BY <1>3, <1>5, <1>6, <1>7, <1>8 DEF TypeOK, Init

\* The directory when only some of its parts change and inodes do not.
LEMMA SameInodes ==
  ASSUME DirOK, UNCHANGED data
  PROVE  Inodes' = Inodes /\ data' \in Seq(Seq(Block))
  BY DEF DirOK, Inodes

LEMMA RenameType ==
  ASSUME DirOK, UNCHANGED <<data, part>>, NEW n \in Names,
         NEW i \in Inodes \cup {0}, NEW s \in SUBSET Inodes,
         file' = [file EXCEPT ![n] = i] \/ UNCHANGED file,
         baks' = [baks EXCEPT ![n] = s] \/ UNCHANGED baks,
         cur'  = [cur EXCEPT ![n] = i] \/ UNCHANGED cur
  PROVE  DirOK' /\ Inodes' = Inodes
<1>1. Inodes' = Inodes /\ data' \in Seq(Seq(Block))
  BY SameInodes
<1>2. /\ file' \in [Names -> Inodes \cup {0}]
      /\ part' \in [Names -> Inodes \cup {0}]
      /\ baks' \in [Names -> SUBSET Inodes]
      /\ cur' \in [Names -> Inodes \cup {0}]
  BY DEF DirOK
<1> QED BY <1>1, <1>2 DEF DirOK

LEMMA OpenPartType ==
  ASSUME UpOK, DirOK, NEW u \in Uploaders, OpenPart(u), UNCHANGED <<file, baks, cur>>
  PROVE  /\ DirOK' /\ Inodes \subseteq Inodes'
         /\ part'[up[u].name] \in Inodes'
<1>1. up[u].name \in Names
  BY DEF UpOK, Upload
<1>2. CASE part[up[u].name] = 0
  <2>1. data' = Append(data, <<>>) /\ part' = [part EXCEPT ![up[u].name] = Len(data) + 1]
    BY <1>2 DEF OpenPart
  <2>2. /\ data' \in Seq(Seq(Block))
        /\ Inodes' = Inodes \cup {Len(data) + 1}
    BY <2>1, DataAdded
  <2>3. /\ part' \in [Names -> Inodes' \cup {0}]
        /\ part'[up[u].name] = Len(data) + 1
    BY <2>1, <2>2, <1>1 DEF DirOK
  <2>4. /\ file' \in [Names -> Inodes' \cup {0}]
        /\ baks' \in [Names -> SUBSET Inodes']
        /\ cur' \in [Names -> Inodes' \cup {0}]
    BY <2>2 DEF DirOK
  <2> QED BY <2>2, <2>3, <2>4 DEF DirOK
<1>3. CASE part[up[u].name] # 0
  <2>1. part' = part
    BY <1>3 DEF OpenPart
  <2>2. part[up[u].name] \in Inodes
    BY <1>1, <1>3 DEF DirOK
  <2>3. <<>> \in Seq(Block)
    OBVIOUS
  <2>4. data' \in Seq(Seq(Block)) /\ Inodes' = Inodes
    <3>1. CASE data' = data
      BY <3>1, SameInodes
    <3>2. CASE data' = [data EXCEPT ![part[up[u].name]] = <<>>]
      BY <3>2, <2>2, <2>3, DataKept
    <3> QED BY <1>3, <3>1, <3>2 DEF OpenPart
  <2> QED BY <2>1, <2>2, <2>4 DEF DirOK
<1> QED BY <1>2, <1>3

LEMMA DirUnchanged ==
  ASSUME DirOK, UNCHANGED Dir
  PROVE  DirOK' /\ Inodes' = Inodes
  BY DEF DirOK, Dir, Inodes

\* Writing one block, or keeping a prefix, keeps the inodes.
LEMMA WriteAtType ==
  ASSUME UpOK, DirOK, EnvOK, NEW u \in Uploaders, up[u].handle \in Inodes,
         WriteAt(u)
  PROVE  data' \in Seq(Seq(Block)) /\ Inodes' = Inodes
<1> DEFINE i == up[u].handle
           b == [src |-> u, ver |-> ver[u]]
<1>1. data[i] \in Seq(Block)
  BY DEF DirOK, Inodes
<1>2. up[u].pos + 1 \in Nat \ {0}
  BY DEF UpOK, Upload
<1>3. b \in Block
  BY DEF Block, EnvOK
<1>4. Put(data[i], up[u].pos + 1, b) \in Seq(Block)
  BY <1>1, <1>2, <1>3, PutType
<1>5. data' = [data EXCEPT ![i] = Put(data[i], up[u].pos + 1, b)]
  BY DEF WriteAt
<1> QED BY <1>4, <1>5, DataKept

\* An upload that writes has an open part.
HandleOK == \A u \in Uploaders : up[u].pc = "write" => up[u].handle \in Inodes

LEMMA StepType ==
  ASSUME TypeOK, HandleOK, NEW u \in Uploaders,
         Begin(u) \/ Cancel(u) \/ Drop(u) \/ Edit(u) \/ Work(u)
  PROVE  TypeOK'
<1> USE DEF TypeOK
<1>0. UpOK /\ DirOK /\ EnvOK /\ up[u] \in Upload
  BY TypeParts DEF UpOK
<1>a. ASSUME DirOK', UpOK', EnvOK' PROVE TypeOK'
  BY <1>a DEF DirOK, UpOK, EnvOK
<1>b. ASSUME UNCHANGED Env PROVE EnvOK'
  BY <1>b, <1>0 DEF EnvOK, Env
<1>c. {"idle", "probe", "start", "open", "write", "verify", "backup", "swap",
       "restore", "clean", "giveup", "done", "skipped", "failed", "dropped"} = Pc
  BY DEF Pc
<1>d. Inodes \subseteq Inodes
  OBVIOUS
<1>1. CASE Begin(u)
  <2>1. UNCHANGED Env /\ UNCHANGED Dir
    BY <1>1 DEF Begin
  <2>2. PICK pol \in {"overwrite", "skip", "rename"} :
          up' = [up EXCEPT ![u] = [Idle EXCEPT !.pc = "probe", !.pol = pol,
                                               !.runs = up[u].runs + 1]]
    BY <1>1 DEF Begin
  <2> DEFINE r == [Idle EXCEPT !.pc = "probe", !.pol = pol, !.runs = up[u].runs + 1]
  <2>3. up[u].runs + 1 \in 0..MaxRuns
    BY <1>0, <1>1 DEF Begin, Upload
  <2>4. r \in Upload /\ r.handle = 0 /\ r.bak = 0
    BY <2>3, IdleType, <1>c DEF Upload, Idle
  <2>5. up' = [up EXCEPT ![u] = r]
    BY <2>2
  <2> HIDE DEF r
  <2>6. DirOK' /\ Inodes' = Inodes
    BY <2>1, <1>0, DirUnchanged
  <2>7. UpOK'
    BY <1>0, <2>4, <2>5, <2>6, UpStep
  <2> QED BY <2>1, <2>6, <2>7, <1>a, <1>b
<1>2. CASE Cancel(u)
  <2> DEFINE r == [up[u] EXCEPT !.cancel = TRUE]
  <2>1. /\ UNCHANGED Env /\ UNCHANGED Dir
        /\ up' = [up EXCEPT ![u] = r]
    BY <1>2 DEF Cancel
  <2>2. r \in Upload /\ r.handle = up[u].handle /\ r.bak = up[u].bak
    BY <1>0 DEF Upload
  <2> HIDE DEF r
  <2>3. DirOK' /\ Inodes' = Inodes
    BY <2>1, <1>0, DirUnchanged
  <2>4. UpOK'
    BY <1>0, <2>1, <2>2, <2>3, UpStep DEF UpOK
  <2> QED BY <2>1, <2>3, <2>4, <1>a, <1>b
<1>3. CASE Drop(u)
  <2>1. UNCHANGED Env /\ UNCHANGED Dir /\ End(u, "dropped")
    BY <1>3 DEF Drop
  <2>2. DirOK' /\ Inodes' = Inodes
    BY <2>1, <1>0, DirUnchanged
  <2>3. UpOK'
    BY <1>0, <1>c, <2>1, <2>2, EndType
  <2> QED BY <2>1, <2>2, <2>3, <1>a, <1>b
<1>4. CASE Edit(u)
  <2> DEFINE r == [up[u] EXCEPT !.torn = @ \/ up[u].pc \in {"open", "write"}]
  <2>1. /\ UNCHANGED Dir
        /\ up' = [up EXCEPT ![u] = r]
    BY <1>4 DEF Edit
  <2>2. r \in Upload /\ r.handle = up[u].handle /\ r.bak = up[u].bak
    BY <1>0 DEF Upload
  <2> HIDE DEF r
  <2>3. DirOK' /\ Inodes' = Inodes
    BY <2>1, <1>0, DirUnchanged
  <2>4. UpOK'
    BY <1>0, <2>1, <2>2, <2>3, UpStep DEF UpOK
  <2>5. EnvOK'
    BY <1>4, <1>0 DEF Edit, EnvOK
  <2> QED BY <2>5, <2>3, <2>4, <1>a
<1>5. CASE Probe(u)
  <2>1. UNCHANGED Env /\ UNCHANGED Dir
    BY <1>5 DEF Probe
  <2>2. DirOK' /\ Inodes' = Inodes
    BY <2>1, <1>0, DirUnchanged
  <2>3. UpOK'
    <3>1. CASE End(u, "skipped") \/ End(u, "failed")
      BY <3>1, <1>0, <1>c, <2>2, EndType
    <3>2. ASSUME NEW n \in Names,
                 up' = [up EXCEPT ![u].pc = "start", ![u].name = n, ![u].pin = ver[u]]
          PROVE  UpOK'
      <4> DEFINE r == [up[u] EXCEPT !.pc = "start", !.name = n, !.pin = ver[u]]
      <4>1. r \in Upload /\ r.handle = up[u].handle /\ r.bak = up[u].bak
        BY <1>0, <1>c DEF Upload, EnvOK
      <4>2. up' = [up EXCEPT ![u] = r]
        BY <3>2
      <4> HIDE DEF r
      <4> QED BY <1>0, <4>1, <4>2, <2>2, UpStep DEF UpOK
    <3> QED BY <1>5, <3>1, <3>2 DEF Probe
  <2> QED BY <2>1, <2>2, <2>3, <1>a, <1>b
<1>6. CASE Start(u)
  <2>1. UNCHANGED Env /\ UNCHANGED Dir
    BY <1>6 DEF Start
  <2>2. DirOK' /\ Inodes' = Inodes
    BY <2>1, <1>0, DirUnchanged
  <2>3. PartSize(u) \in Nat
    BY <1>0 DEF PartSize, DirOK, Inodes, Upload
  <2>4. PICK start \in Nat :
          up' = [up EXCEPT ![u].pc = "open", ![u].pos = start, ![u].bak = 0,
                           ![u].torn = FALSE, ![u].checked = FALSE]
    BY <1>6, <2>3 DEF Start
  <2> DEFINE r == [up[u] EXCEPT !.pc = "open", !.pos = start, !.bak = 0,
                                !.torn = FALSE, !.checked = FALSE]
  <2>5. r \in Upload /\ r.handle = up[u].handle /\ r.bak = 0
    BY <1>0, <1>c DEF Upload
  <2>6. up' = [up EXCEPT ![u] = r]
    BY <2>4
  <2> HIDE DEF r
  <2>7. UpOK'
    BY <1>0, <2>2, <2>5, <2>6, UpStep DEF UpOK
  <2> QED BY <2>1, <2>2, <2>7, <1>a, <1>b
<1>7. CASE Open(u)
  <2>1. UNCHANGED Env /\ UNCHANGED <<file, baks, cur>>
    BY <1>7 DEF Open
  <2>2. ASSUME UNCHANGED <<data, part>> PROVE DirOK' /\ Inodes' = Inodes
    BY <2>1, <2>2, <1>0, DirUnchanged DEF Dir
  <2>3. ASSUME OpenPart(u)
        PROVE  DirOK' /\ Inodes \subseteq Inodes' /\ part'[up[u].name] \in Inodes'
    BY <2>1, <2>3, <1>0, OpenPartType
  <2>4. CASE Fail(u)
    <3>1. DirOK' /\ Inodes \subseteq Inodes'
      BY <1>7, <2>2, <2>3 DEF Open
    <3> QED BY <3>1, <2>4, <1>0, FailType, <2>1, <1>a, <1>b
  <2>5. CASE OpenPart(u) /\ ~Fail(u)
    <3> DEFINE r == [up[u] EXCEPT !.pc = "write", !.own = @ \/ up[u].pos = 0,
                                  !.handle = part'[up[u].name]]
    <3>1. up' = [up EXCEPT ![u] = r]
      BY <1>7, <2>5 DEF Open
    <3>2. part'[up[u].name] \in Nat
      BY <2>3, <2>5 DEF Inodes, DirOK
    <3>3. r \in Upload /\ r.handle = part'[up[u].name] /\ r.bak = up[u].bak
      BY <1>0, <1>c, <3>2 DEF Upload
    <3> HIDE DEF r
    <3>4. UpOK'
      BY <1>0, <2>3, <2>5, <3>1, <3>3, UpStep DEF UpOK
    <3> QED BY <3>4, <2>3, <2>5, <2>1, <1>a, <1>b
  <2> QED BY <1>7, <2>4, <2>5 DEF Open
<1>8. CASE Write(u)
  <2>1. UNCHANGED Env /\ UNCHANGED <<file, part, baks, cur>> /\ up[u].handle \in Inodes
    BY <1>8 DEF Write, At, HandleOK
  <2>2. data' \in Seq(Seq(Block)) /\ Inodes' = Inodes
    <3>1. CASE WriteAt(u)
      BY <3>1, <2>1, <1>0, WriteAtType
    <3>2. CASE UNCHANGED data
      BY <3>2, <1>0, SameInodes
    <3> QED BY <3>1, <3>2, <1>8 DEF Write
  <2>3. DirOK'
    BY <2>1, <2>2, <1>0 DEF DirOK
  <2>4. UpOK'
    <3>1. CASE Fail(u)
      BY <3>1, <2>2, <1>0, FailType
    <3>2. CASE up' = [up EXCEPT ![u].pos = @ + 1]
      <4> DEFINE r == [up[u] EXCEPT !.pos = @ + 1]
      <4>0. up[u].pos + 1 \in Nat
        BY <1>0 DEF Upload
      <4>1. r \in Upload /\ r.handle = up[u].handle /\ r.bak = up[u].bak
        BY <1>0, <4>0 DEF Upload
      <4>2. up' = [up EXCEPT ![u] = r]
        BY <3>2
      <4> HIDE DEF r
      <4> QED BY <1>0, <4>1, <4>2, <2>2, UpStep DEF UpOK
    <3> QED BY <1>8, <3>1, <3>2 DEF Write
  <2> QED BY <2>1, <2>3, <2>4, <1>a, <1>b
<1>9. CASE Close(u)
  <2>1. UNCHANGED Env /\ UNCHANGED <<file, part, baks, cur>> /\ up[u].handle \in Inodes
    BY <1>9 DEF Close, At, HandleOK
  <2>2. data' \in Seq(Seq(Block)) /\ Inodes' = Inodes
    <3>1. ASSUME NEW k \in 0..Len(data[up[u].handle]),
                 data' = [data EXCEPT ![up[u].handle] = SubSeq(@, 1, k)]
          PROVE  data' \in Seq(Seq(Block)) /\ Inodes' = Inodes
      <4>1. data[up[u].handle] \in Seq(Block)
        BY <2>1, <1>0 DEF DirOK, Inodes
      <4>2. SubSeq(data[up[u].handle], 1, k) \in Seq(Block)
        BY <4>1
      <4> QED BY <3>1, <4>2, <2>1, <1>0, DataKept
    <3>2. CASE UNCHANGED data
      BY <3>2, <1>0, SameInodes
    <3> QED BY <3>1, <3>2, <1>9 DEF Close
  <2>3. DirOK'
    BY <2>1, <2>2, <1>0 DEF DirOK
  <2>4. UpOK'
    BY <1>9, <2>2, <1>0, <1>c, FailType, GoType DEF Close
  <2> QED BY <2>1, <2>3, <2>4, <1>a, <1>b
<1>10. CASE Verify(u)
  <2>1. UNCHANGED Env /\ UNCHANGED Dir
    BY <1>10 DEF Verify
  <2>2. DirOK' /\ Inodes' = Inodes
    BY <2>1, <1>0, DirUnchanged
  <2>3. UpOK'
    <3>1. CASE Fail(u) \/ Go(u, "backup")
      BY <3>1, <2>2, <1>0, <1>c, FailType, GoType
    <3>2. CASE up' = [up EXCEPT ![u].pc = "backup", ![u].checked = TRUE]
      <4> DEFINE r == [up[u] EXCEPT !.pc = "backup", !.checked = TRUE]
      <4>1. r \in Upload /\ r.handle = up[u].handle /\ r.bak = up[u].bak
        BY <1>0, <1>c DEF Upload
      <4>2. up' = [up EXCEPT ![u] = r]
        BY <3>2
      <4> HIDE DEF r
      <4> QED BY <1>0, <4>1, <4>2, <2>2, UpStep DEF UpOK
    <3> QED BY <1>10, <3>1, <3>2 DEF Verify
  <2> QED BY <2>1, <2>2, <2>3, <1>a, <1>b
<1>11. CASE Backup(u)
  <2> DEFINE n == up[u].name
  <2>1. UNCHANGED Env /\ UNCHANGED <<data, part, cur>> /\ n \in Names
    BY <1>11, <1>0 DEF Backup, Upload
  <2>2. DirOK' /\ Inodes' = Inodes /\ (MoveAway(n) => file[n] \in Inodes)
    <3>1. CASE MoveAway(n)
      <4>1. file[n] \in Inodes /\ baks[n] \cup {file[n]} \in SUBSET Inodes
        BY <3>1, <2>1, <1>0 DEF MoveAway, DirOK
      <4> QED BY <3>1, <4>1, <2>1, <1>0, RenameType DEF MoveAway
    <3>2. CASE UNCHANGED <<file, baks>> /\ ~MoveAway(n)
      BY <3>2, <2>1, <1>0, DirUnchanged DEF Dir
    <3> QED BY <1>11, <3>1, <3>2 DEF Backup
  <2>3. UpOK'
    <3>1. CASE Fail(u) \/ Go(u, "swap")
      BY <3>1, <2>2, <1>0, <1>c, FailType, GoType
    <3>2. CASE MoveAway(n) /\ up' = [up EXCEPT ![u].pc = "swap", ![u].bak = file[n]]
      <4> DEFINE r == [up[u] EXCEPT !.pc = "swap", !.bak = file[n]]
      <4>1. file[n] \in Nat
        BY <3>2, <2>2, <1>0, InodeNat
      <4>2. r \in Upload /\ r.handle = up[u].handle /\ r.bak = file[n]
        BY <1>0, <1>c, <4>1 DEF Upload
      <4>3. up' = [up EXCEPT ![u] = r]
        BY <3>2
      <4> HIDE DEF r
      <4> QED BY <1>0, <3>2, <4>2, <4>3, <2>2, UpStep DEF UpOK
    <3> QED BY <1>11, <3>1, <3>2 DEF Backup
  <2> QED BY <2>1, <2>2, <2>3, <1>a, <1>b
<1>12. CASE Swap(u)
  <2> DEFINE n == up[u].name
  <2>1. UNCHANGED Env /\ UNCHANGED <<data, baks>> /\ n \in Names
    BY <1>12, <1>0 DEF Swap, Upload
  <2>2. DirOK' /\ Inodes' = Inodes
    <3>1. CASE MoveIn(n)
      BY <3>1, <2>1, <1>0, SameInodes DEF MoveIn, DirOK
    <3>2. CASE UNCHANGED <<file, part, cur>>
      BY <3>2, <2>1, <1>0, DirUnchanged DEF Dir
    <3> QED BY <1>12, <3>1, <3>2 DEF Swap
  <2>3. UpOK'
    BY <1>12, <2>2, <1>0, <1>c, GoType DEF Swap
  <2> QED BY <2>1, <2>2, <2>3, <1>a, <1>b
<1>13. CASE Restore(u)
  <2> DEFINE n == up[u].name
  <2>1. UNCHANGED Env /\ UNCHANGED <<data, part>> /\ n \in Names /\ Fail(u)
    BY <1>13, <1>0 DEF Restore, Upload
  <2>2. up[u].bak \in Inodes \cup {0} /\ baks[n] \ {up[u].bak} \in SUBSET Inodes
    BY <2>1, <1>0 DEF UpOK, DirOK
  <2>3. DirOK' /\ Inodes' = Inodes
    <3>1. CASE UNCHANGED <<file, baks, cur>>
      BY <3>1, <2>1, <1>0, DirUnchanged DEF Dir
    <3>2. CASE /\ file' = [file EXCEPT ![n] = up[u].bak]
               /\ baks' = [baks EXCEPT ![n] = @ \ {up[u].bak}]
               /\ cur' = [cur EXCEPT ![n] = up[u].bak]
      BY <3>2, <2>1, <2>2, <1>0, RenameType
    <3> QED BY <1>13, <3>1, <3>2 DEF Restore
  <2>4. UpOK'
    BY <2>1, <2>3, <1>0, FailType
  <2> QED BY <2>1, <2>3, <2>4, <1>a, <1>b
<1>14. CASE Clean(u)
  <2> DEFINE n == up[u].name
  <2>1. /\ UNCHANGED Env /\ UNCHANGED <<data, file, part, cur>>
        /\ n \in Names /\ Go(u, "done")
    BY <1>14, <1>0 DEF Clean, Upload
  <2>2. baks[n] \ {up[u].bak} \in SUBSET Inodes
    BY <2>1, <1>0 DEF DirOK
  <2>3. DirOK' /\ Inodes' = Inodes
    <3>1. /\ baks' \in [Names -> SUBSET Inodes]
      BY <1>14, <2>1, <2>2, <1>0 DEF Clean, DirOK
    <3> QED BY <3>1, <2>1, <1>0, SameInodes DEF DirOK
  <2>4. UpOK'
    BY <2>1, <2>3, <1>0, <1>c, GoType
  <2> QED BY <2>1, <2>3, <2>4, <1>a, <1>b
<1>15. CASE Abandon(u)
  <2> DEFINE n == up[u].name
  <2>1. /\ UNCHANGED Env /\ UNCHANGED <<data, file, baks, cur>>
        /\ n \in Names /\ End(u, "failed")
    BY <1>15, <1>0 DEF Abandon, Upload
  <2>2. DirOK' /\ Inodes' = Inodes
    <3>1. part' \in [Names -> Inodes \cup {0}]
      BY <1>15, <2>1, <1>0 DEF Abandon, DirOK
    <3> QED BY <3>1, <2>1, <1>0, SameInodes DEF DirOK
  <2>3. UpOK'
    BY <2>1, <2>2, <1>0, <1>c, EndType
  <2> QED BY <2>1, <2>2, <2>3, <1>a, <1>b
<1> QED BY <1>1, <1>2, <1>3, <1>4, <1>5, <1>6, <1>7, <1>8, <1>9, <1>10,
           <1>11, <1>12, <1>13, <1>14, <1>15 DEF Work

-----------------------------------------------------------------------------
(* NothingLost.  It is not inductive by itself: deleting a backup is safe    *)
(* because the backup an upload holds is not what is installed, and that is  *)
(* so because no inode is in two places of the directory and no two uploads  *)
(* hold the same backup.                                                     *)

\* Until the backup of this attempt, bak is 0.
NoBakYet == \A u \in Uploaders :
              up[u].pc \in {"open", "write", "verify", "backup"} => up[u].bak = 0

\* No inode is in two places of the directory.
Apart ==
    /\ \A m, n \in Names : file[m] # 0 =>
         /\ file[m] # part[n] /\ file[m] \notin baks[n]
         /\ m # n => file[m] # file[n]
    /\ \A m, n \in Names : part[m] # 0 =>
         /\ part[m] \notin baks[n]
         /\ m # n => part[m] # part[n]
    /\ \A m, n \in Names : m # n => baks[m] \cap baks[n] = {}

Holding(u) == up[u].pc \in {"swap", "restore", "clean"} /\ up[u].bak # 0

\* The backup an upload holds is there, is its own, and once the part has been
\* moved in is not what is installed.
Held ==
    /\ \A u \in Uploaders : Holding(u) => up[u].bak \in baks[up[u].name]
    /\ \A u, w \in Uploaders : u # w /\ Holding(u) /\ Holding(w) => up[u].bak # up[w].bak
    /\ \A u \in Uploaders : Holding(u) /\ up[u].pc = "clean" => cur[up[u].name] # up[u].bak

IInv == TypeOK /\ HandleOK /\ NoBakYet /\ Apart /\ Held /\ NothingLost

LEMMA InvInit == Init => IInv
<1> SUFFICES ASSUME Init PROVE IInv
  OBVIOUS
<1>1. TypeOK
  BY TypeInit
<1>2. \A u \in Uploaders : up[u].pc = "idle"
  BY DEF Init, Idle
<1>3. HandleOK /\ NoBakYet /\ Held
  BY <1>2 DEF HandleOK, NoBakYet, Held, Holding
<1>4. /\ \A n \in Names : part[n] = 0 /\ baks[n] = {} /\ cur[n] = file[n]
      /\ \A m, n \in Names : file[m] # 0 /\ m # n => file[n] = 0
  BY DEF Init
<1>5. Apart
  BY <1>4 DEF Apart
<1>6. NothingLost
  BY <1>4 DEF NothingLost
<1> QED BY <1>1, <1>3, <1>5, <1>6 DEF IInv

\* A step of u that neither gives it a backup nor moves its part in.
Quiet(u) ==
    /\ \A w \in Uploaders : w # u => up'[w] = up[w]
    /\ up'[u].pc = "write" => up'[u].handle \in Inodes'
    /\ up'[u].pc \in {"open", "write", "verify", "backup"} => up'[u].bak = 0
    /\ Holding(u)' => /\ Holding(u)
                      /\ up'[u].bak = up[u].bak /\ up'[u].name = up[u].name
                      /\ up'[u].pc = "clean" => up[u].pc = "clean"

LEMMA QuietUps ==
  ASSUME TypeOK, HandleOK, NoBakYet, Held, NEW u \in Uploaders, Quiet(u),
         Inodes \subseteq Inodes', UNCHANGED cur,
         \A n \in Names : baks[n] \subseteq baks'[n]
  PROVE  HandleOK' /\ NoBakYet' /\ Held'
<1>1. HandleOK'
  BY DEF HandleOK, Quiet
<1>2. NoBakYet'
  BY DEF NoBakYet, Quiet
<1>3. \A w \in Uploaders : Holding(w)' =>
        /\ Holding(w)
        /\ up'[w].bak = up[w].bak /\ up'[w].name = up[w].name
        /\ up'[w].pc = "clean" => up[w].pc = "clean"
  BY DEF Quiet, Holding
<1>4. \A w \in Uploaders : up[w].name \in Names
  BY DEF TypeOK, Upload
<1>5. Held'
  <2>1. \A w \in Uploaders : Holding(w)' => up'[w].bak \in baks'[up'[w].name]
    BY <1>3, <1>4 DEF Held
  <2>2. \A v, w \in Uploaders :
          v # w /\ Holding(v)' /\ Holding(w)' => up'[v].bak # up'[w].bak
    BY <1>3 DEF Held
  <2>3. \A w \in Uploaders :
          Holding(w)' /\ up'[w].pc = "clean" => cur'[up'[w].name] # up'[w].bak
    BY <1>3 DEF Held
  <2> QED BY <2>1, <2>2, <2>3 DEF Held
<1> QED BY <1>1, <1>2, <1>5

LEMMA QuietFail ==
  ASSUME TypeOK, NEW u \in Uploaders, Fail(u)
  PROVE  Quiet(u) /\ ~Holding(u)'
<1>1. up'[u].pc \in {"giveup", "start"} /\ \A w \in Uploaders : w # u => up'[w] = up[w]
  BY DEF Fail, TypeOK, Upload
<1> QED BY <1>1 DEF Quiet, Holding

LEMMA QuietEnd ==
  ASSUME TypeOK, NEW u \in Uploaders, NEW pc \in {"skipped", "failed", "dropped"}, End(u, pc)
  PROVE  Quiet(u) /\ ~Holding(u)'
<1>1. up'[u].pc = pc /\ \A w \in Uploaders : w # u => up'[w] = up[w]
  BY DEF End, TypeOK, Upload, Idle
<1> QED BY <1>1 DEF Quiet, Holding

LEMMA GoEffect ==
  ASSUME TypeOK, NEW u \in Uploaders, NEW pc, Go(u, pc)
  PROVE  /\ up'[u].pc = pc /\ up'[u].bak = up[u].bak /\ up'[u].name = up[u].name
         /\ \A w \in Uploaders : w # u => up'[w] = up[w]
  BY DEF Go, TypeOK, Upload

\* Steps that leave the directory alone.
LEMMA QuietSteps ==
  ASSUME TypeOK, HandleOK, NoBakYet, NEW u \in Uploaders, Inodes' = Inodes,
         Begin(u) \/ Cancel(u) \/ Drop(u) \/ Edit(u) \/ Probe(u) \/ Start(u) \/ Verify(u)
  PROVE  Quiet(u)
<1>0. up[u] \in Upload /\ up \in [Uploaders -> Upload]
  BY DEF TypeOK
<1>1. CASE Begin(u)
  <2>1. up'[u].pc = "probe" /\ \A w \in Uploaders : w # u => up'[w] = up[w]
    BY <1>1, <1>0 DEF Begin, Idle
  <2> QED BY <2>1 DEF Quiet, Holding
<1>2. CASE Cancel(u)
  <2>1. /\ up'[u].pc = up[u].pc /\ up'[u].bak = up[u].bak /\ up'[u].name = up[u].name
        /\ up'[u].handle = up[u].handle
        /\ \A w \in Uploaders : w # u => up'[w] = up[w]
    BY <1>2, <1>0 DEF Cancel, Upload
  <2> QED BY <2>1 DEF Quiet, Holding, HandleOK, NoBakYet
<1>3. CASE Drop(u)
  BY <1>3, QuietEnd DEF Drop
<1>4. CASE Edit(u)
  <2>1. /\ up'[u].pc = up[u].pc /\ up'[u].bak = up[u].bak /\ up'[u].name = up[u].name
        /\ up'[u].handle = up[u].handle
        /\ \A w \in Uploaders : w # u => up'[w] = up[w]
    BY <1>4, <1>0 DEF Edit, Upload
  <2> QED BY <2>1 DEF Quiet, Holding, HandleOK, NoBakYet
<1>5. CASE Probe(u)
  <2>1. CASE End(u, "skipped") \/ End(u, "failed")
    BY <2>1, QuietEnd
  <2>2. ASSUME NEW n \in Names,
               up' = [up EXCEPT ![u].pc = "start", ![u].name = n, ![u].pin = ver[u]]
        PROVE  Quiet(u)
    <3>1. up'[u].pc = "start" /\ \A w \in Uploaders : w # u => up'[w] = up[w]
      BY <2>2, <1>0 DEF Upload
    <3> QED BY <3>1 DEF Quiet, Holding
  <2> QED BY <1>5, <2>1, <2>2 DEF Probe
<1>6. CASE Start(u)
  <2>1. PICK start : up' = [up EXCEPT ![u].pc = "open", ![u].pos = start, ![u].bak = 0,
                                      ![u].torn = FALSE, ![u].checked = FALSE]
    BY <1>6 DEF Start
  <2>2. /\ up'[u].pc = "open" /\ up'[u].bak = 0
        /\ \A w \in Uploaders : w # u => up'[w] = up[w]
    BY <2>1, <1>0 DEF Upload
  <2> QED BY <2>2 DEF Quiet, Holding
<1>7. CASE Verify(u)
  <2>1. CASE Fail(u)
    BY <2>1, QuietFail
  <2>2. CASE Go(u, "backup")
    <3>1. up[u].bak = 0
      BY <1>7 DEF Verify, At, NoBakYet
    <3> QED BY <2>2, <3>1, GoEffect DEF Quiet, Holding
  <2>3. CASE up' = [up EXCEPT ![u].pc = "backup", ![u].checked = TRUE]
    <3>1. up[u].bak = 0
      BY <1>7 DEF Verify, At, NoBakYet
    <3>2. /\ up'[u].pc = "backup" /\ up'[u].bak = up[u].bak
          /\ \A w \in Uploaders : w # u => up'[w] = up[w]
      BY <2>3, <1>0 DEF Upload
    <3> QED BY <3>1, <3>2 DEF Quiet, Holding
  <2> QED BY <1>7, <2>1, <2>2, <2>3 DEF Verify
<1> QED BY <1>1, <1>2, <1>3, <1>4, <1>5, <1>6, <1>7

\* Writing and closing change contents only.
LEMMA QuietWrites ==
  ASSUME TypeOK, HandleOK, NoBakYet, NEW u \in Uploaders, Inodes' = Inodes,
         Write(u) \/ Close(u)
  PROVE  Quiet(u)
<1>1. up[u] \in Upload /\ up \in [Uploaders -> Upload]
  BY DEF TypeOK
<1>2. up[u].pc = "write" /\ up[u].bak = 0 /\ up[u].handle \in Inodes
  BY DEF Write, Close, At, HandleOK, NoBakYet
<1>3. CASE Fail(u)
  BY <1>3, QuietFail
<1>4. CASE Go(u, "verify")
  BY <1>2, <1>4, GoEffect DEF Quiet, Holding
<1>5. CASE up' = [up EXCEPT ![u].pos = @ + 1]
  <2>1. /\ up'[u].pc = "write" /\ up'[u].bak = 0 /\ up'[u].handle = up[u].handle
        /\ \A w \in Uploaders : w # u => up'[w] = up[w]
    BY <1>1, <1>2, <1>5 DEF Upload
  <2> QED BY <1>2, <2>1 DEF Quiet, Holding
<1> QED BY <1>3, <1>4, <1>5 DEF Write, Close

\* Opening the part truncates it or creates a new inode.
LEMMA OpenInv ==
  ASSUME IInv, NEW u \in Uploaders, Open(u)
  PROVE  HandleOK' /\ NoBakYet' /\ Apart' /\ Held' /\ NothingLost'
<1>0. UpOK /\ DirOK /\ TypeOK /\ HandleOK /\ NoBakYet /\ Apart /\ Held /\ NothingLost
  BY TypeParts DEF IInv
<1>1. UNCHANGED <<file, baks, cur>> /\ up[u].pc = "open" /\ up[u].bak = 0
  BY <1>0 DEF Open, At, NoBakYet
<1>2. up[u] \in Upload /\ up \in [Uploaders -> Upload] /\ up[u].name \in Names
  BY <1>0 DEF UpOK, Upload
<1>3. ASSUME OpenPart(u)
      PROVE  Inodes \subseteq Inodes' /\ part'[up[u].name] \in Inodes'
  BY <1>0, <1>1, <1>3, OpenPartType
<1>4. ASSUME UNCHANGED <<data, part>> PROVE Inodes' = Inodes
  BY <1>4, <1>0, SameInodes
<1>5. Inodes \subseteq Inodes'
  BY <1>3, <1>4 DEF Open
<1>6. Quiet(u)
  <2>1. CASE Fail(u)
    BY <2>1, <1>0, QuietFail
  <2>2. CASE /\ OpenPart(u)
             /\ up' = [up EXCEPT ![u].pc = "write", ![u].own = @ \/ up[u].pos = 0,
                                 ![u].handle = part'[up[u].name]]
    <3>1. /\ up'[u].pc = "write" /\ up'[u].bak = 0
          /\ up'[u].handle = part'[up[u].name]
          /\ \A w \in Uploaders : w # u => up'[w] = up[w]
      BY <1>1, <1>2, <2>2 DEF Upload
    <3> QED BY <1>3, <2>2, <3>1 DEF Quiet, Holding
  <2> QED BY <2>1, <2>2 DEF Open
<1>7. HandleOK' /\ NoBakYet' /\ Held'
  BY <1>0, <1>1, <1>5, <1>6, QuietUps
<1>8. \/ part' = part
      \/ \E i : i \notin Inodes /\ i # 0 /\ part' = [part EXCEPT ![up[u].name] = i]
  <2>1. CASE part[up[u].name] = 0 /\ OpenPart(u)
    <3>1. data' = Append(data, <<>>) /\ part' = [part EXCEPT ![up[u].name] = Len(data) + 1]
      BY <2>1 DEF OpenPart
    <3> QED BY <3>1, <1>0, DataAdded
  <2> QED BY <2>1 DEF Open, OpenPart
<1>9. Apart'
  <2>1. CASE part' = part
    BY <2>1, <1>0, <1>1 DEF Apart
  <2>2. ASSUME NEW i, i \notin Inodes, i # 0, part' = [part EXCEPT ![up[u].name] = i]
        PROVE  Apart'
    <3>1. \A n \in Names :
            /\ file[n] # i /\ part[n] # i /\ i \notin baks[n]
            /\ part'[n] = IF n = up[u].name THEN i ELSE part[n]
      BY <1>0, <1>2, <2>2 DEF DirOK
    <3> QED BY <3>1, <1>0, <1>1 DEF Apart
  <2> QED BY <1>8, <2>1, <2>2
<1>10. NothingLost'
  BY <1>0, <1>1 DEF NothingLost
<1> QED BY <1>7, <1>9, <1>10

\* Moving the target to a backup.
LEMMA BackupInv ==
  ASSUME IInv, NEW u \in Uploaders, Backup(u)
  PROVE  HandleOK' /\ NoBakYet' /\ Apart' /\ Held' /\ NothingLost'
<1> DEFINE n == up[u].name
<1>0. UpOK /\ DirOK /\ TypeOK /\ HandleOK /\ NoBakYet /\ Apart /\ Held /\ NothingLost
  BY TypeParts DEF IInv
<1>1. UNCHANGED <<data, part, cur>> /\ up[u].pc = "backup" /\ up[u].bak = 0
  BY <1>0 DEF Backup, At, NoBakYet
<1>2. up[u] \in Upload /\ up \in [Uploaders -> Upload] /\ n \in Names
  BY <1>0 DEF UpOK, Upload
<1>3. Inodes' = Inodes
  BY <1>0, <1>1, SameInodes
<1>4. CASE UNCHANGED <<file, baks>>
  <2>1. Quiet(u)
    <3>1. CASE Fail(u)
      BY <3>1, <1>0, QuietFail
    <3>2. CASE Go(u, "swap")
      BY <3>2, <1>0, <1>1, GoEffect DEF Quiet, Holding
    <3>3. ~MoveAway(n)
      BY <1>0, <1>2, <1>4 DEF MoveAway, DirOK
    <3> QED BY <3>1, <3>2, <3>3 DEF Backup
  <2>2. HandleOK' /\ NoBakYet' /\ Held'
    BY <1>0, <1>1, <1>3, <1>4, <2>1, QuietUps
  <2>3. Apart' /\ NothingLost'
    BY <1>0, <1>1, <1>4 DEF Apart, NothingLost
  <2> QED BY <2>2, <2>3
<1>5. CASE MoveAway(n)
  <2> DEFINE i == file[n]
  <2>1. /\ i # 0
        /\ \A m \in Names : file'[m] = IF m = n THEN 0 ELSE file[m]
        /\ \A m \in Names : baks'[m] = IF m = n THEN baks[m] \cup {i} ELSE baks[m]
    BY <1>0, <1>2, <1>5 DEF MoveAway, DirOK
  <2>2. \A m \in Names :
          /\ part[m] # i /\ i \notin baks[m]
          /\ m # n => file[m] # i
    BY <1>0, <1>2, <2>1 DEF Apart
  <2> HIDE DEF i
  <2>3. Apart'
    <3>1. \A m, k \in Names : file'[m] # 0 =>
            /\ file'[m] # part'[k] /\ file'[m] \notin baks'[k]
            /\ m # k => file'[m] # file'[k]
      <4> SUFFICES ASSUME NEW m \in Names, NEW k \in Names, file'[m] # 0
                   PROVE  /\ file'[m] # part'[k] /\ file'[m] \notin baks'[k]
                          /\ m # k => file'[m] # file'[k]
        OBVIOUS
      <4>1. m # n /\ file'[m] = file[m] /\ file[m] # i
        BY <2>1, <2>2
      <4>2. /\ file[m] # part[k] /\ file[m] \notin baks[k]
            /\ m # k => file[m] # file[k]
        BY <1>0, <4>1 DEF Apart
      <4> QED BY <1>1, <2>1, <4>1, <4>2
    <3>2. \A m, k \in Names : part'[m] # 0 =>
            /\ part'[m] \notin baks'[k]
            /\ m # k => part'[m] # part'[k]
      <4> SUFFICES ASSUME NEW m \in Names, NEW k \in Names, part'[m] # 0
                   PROVE  /\ part'[m] \notin baks'[k]
                          /\ m # k => part'[m] # part'[k]
        OBVIOUS
      <4>0. part' = part /\ part[m] # 0
        BY <1>1
      <4>1. part[m] \notin baks[k] /\ (m # k => part[m] # part[k])
        BY <1>0, <4>0 DEF Apart
      <4>2. part[m] # i
        BY <2>2
      <4>3. part[m] \notin baks'[k]
        BY <2>1, <4>1, <4>2
      <4> QED BY <4>0, <4>1, <4>3
    <3>3. \A m, k \in Names : m # k => baks'[m] \cap baks'[k] = {}
      <4> SUFFICES ASSUME NEW m \in Names, NEW k \in Names, m # k
                   PROVE  baks'[m] \cap baks'[k] = {}
        OBVIOUS
      <4>1. baks[m] \cap baks[k] = {}
        BY <1>0 DEF Apart
      <4>2. i \notin baks[m] /\ i \notin baks[k]
        BY <2>2
      <4>3. \A x \in baks'[m] : x \in baks[m] \/ (m = n /\ x = i)
        BY <2>1
      <4>4. \A x \in baks'[k] : x \in baks[k] \/ (k = n /\ x = i)
        BY <2>1
      <4> QED BY <4>1, <4>2, <4>3, <4>4
    <3> QED BY <3>1, <3>2, <3>3 DEF Apart
  <2>4. NothingLost'
    <3>1. \A m \in Names : cur'[m] # 0 => file[m] = cur'[m] \/ cur'[m] \in baks[m]
      BY <1>0, <1>1 DEF NothingLost
    <3>2. i = file[n]
      BY DEF i
    <3>3. ASSUME NEW m \in Names, cur'[m] # 0
          PROVE  file'[m] = cur'[m] \/ cur'[m] \in baks'[m]
      BY <2>1, <3>1, <3>2, <3>3
    <3> QED BY <3>3 DEF NothingLost
  <2>5. CASE Quiet(u)
    <3>1. \A m \in Names : baks[m] \subseteq baks'[m]
      BY <2>1
    <3>2. HandleOK' /\ NoBakYet' /\ Held'
      BY <1>0, <1>1, <1>3, <2>5, <3>1, QuietUps
    <3> QED BY <2>3, <2>4, <3>2
  <2>6. CASE up' = [up EXCEPT ![u].pc = "swap", ![u].bak = i]
    <3>1. /\ up'[u].pc = "swap" /\ up'[u].bak = i /\ up'[u].name = n
          /\ \A w \in Uploaders : w # u => up'[w] = up[w]
      BY <1>2, <2>6 DEF Upload
    <3>2. HandleOK' /\ NoBakYet'
      BY <1>0, <1>3, <3>1 DEF HandleOK, NoBakYet
    <3>3. \A w \in Uploaders : up[w].name \in Names
      BY <1>0 DEF UpOK, Upload
    <3>4. \A w \in Uploaders : w # u /\ Holding(w)' => Holding(w)
      BY <3>1 DEF Holding
    <3>5. \A w \in Uploaders : Holding(w) => up[w].bak # i
      BY <1>0, <2>2, <3>3 DEF Held
    <3>6. \A w \in Uploaders : Holding(w)' => up'[w].bak \in baks'[up'[w].name]
      <4>1. up'[u].bak \in baks'[up'[u].name]
        BY <1>2, <2>1, <3>1
      <4>2. \A m \in Names : baks[m] \subseteq baks'[m]
        BY <2>1
      <4>3. ASSUME NEW w \in Uploaders, w # u, Holding(w)'
            PROVE  up'[w].bak \in baks'[up'[w].name]
        <5>1. up[w].bak \in baks[up[w].name]
          BY <1>0, <3>4, <4>3 DEF Held
        <5> QED BY <3>1, <3>3, <4>2, <4>3, <5>1
      <4> QED BY <4>1, <4>3
    <3>7. \A v, w \in Uploaders :
            v # w /\ Holding(v)' /\ Holding(w)' => up'[v].bak # up'[w].bak
      BY <1>0, <3>1, <3>4, <3>5 DEF Held
    <3>8. \A w \in Uploaders :
            Holding(w)' /\ up'[w].pc = "clean" => cur'[up'[w].name] # up'[w].bak
      BY <1>0, <1>1, <3>1, <3>4 DEF Held
    <3>9. Held'
      BY <3>6, <3>7, <3>8 DEF Held
    <3> QED BY <2>3, <2>4, <3>2, <3>9
  <2>7. i = file[n]
    BY DEF i
  <2> QED BY <1>0, <1>5, <2>1, <2>5, <2>6, <2>7, QuietFail DEF Backup
<1> QED BY <1>4, <1>5 DEF Backup

\* Moving the part in, or not.
LEMMA SwapInv ==
  ASSUME IInv, NEW u \in Uploaders, Swap(u)
  PROVE  HandleOK' /\ NoBakYet' /\ Apart' /\ Held' /\ NothingLost'
<1> DEFINE n == up[u].name
<1>0. UpOK /\ DirOK /\ TypeOK /\ HandleOK /\ NoBakYet /\ Apart /\ Held /\ NothingLost
  BY TypeParts DEF IInv
<1>1. UNCHANGED <<data, baks>> /\ up[u].pc = "swap"
  BY DEF Swap, At
<1>2. n \in Names /\ \A w \in Uploaders : up[w].name \in Names
  BY <1>0 DEF UpOK, Upload
<1>3. Inodes' = Inodes
  BY <1>0, <1>1, SameInodes
<1>4. /\ up'[u].pc \in {"clean", "restore"} /\ up'[u].bak = up[u].bak /\ up'[u].name = n
      /\ \A w \in Uploaders : w # u => up'[w] = up[w]
  BY <1>0, GoEffect DEF Swap
<1>5. HandleOK' /\ NoBakYet'
  BY <1>0, <1>3, <1>4 DEF HandleOK, NoBakYet
<1>6. \A w \in Uploaders :
        Holding(w)' => Holding(w) /\ up'[w].bak = up[w].bak /\ up'[w].name = up[w].name
  BY <1>1, <1>4 DEF Holding
<1>7. \A w \in Uploaders : Holding(w)' => up'[w].bak \in baks'[up'[w].name]
  BY <1>0, <1>1, <1>6 DEF Held
<1>8. \A v, w \in Uploaders :
        v # w /\ Holding(v)' /\ Holding(w)' => up'[v].bak # up'[w].bak
  BY <1>0, <1>6 DEF Held
<1>9. CASE UNCHANGED <<file, part, cur>> /\ Go(u, "restore")
  <2>1. up'[u].pc = "restore"
    BY <1>0, <1>9, GoEffect
  <2>2. \A w \in Uploaders :
          Holding(w)' /\ up'[w].pc = "clean" => cur'[up'[w].name] # up'[w].bak
    BY <1>0, <1>4, <1>6, <1>9, <2>1 DEF Held
  <2>3. Apart' /\ NothingLost'
    BY <1>0, <1>1, <1>9 DEF Apart, NothingLost
  <2> QED BY <1>5, <1>7, <1>8, <2>2, <2>3 DEF Held
<1>10. CASE MoveIn(n)
  <2> DEFINE i == part[n]
  <2>1. /\ i # 0
        /\ \A m \in Names : file'[m] = IF m = n THEN i ELSE file[m]
        /\ \A m \in Names : part'[m] = IF m = n THEN 0 ELSE part[m]
        /\ \A m \in Names : cur'[m] = IF m = n THEN i ELSE cur[m]
    BY <1>0, <1>2, <1>10 DEF MoveIn, DirOK
  <2>2. \A m \in Names :
          /\ i \notin baks[m] /\ (file[m] # 0 => file[m] # i)
          /\ m # n => part[m] # i
    BY <1>0, <1>2, <2>1 DEF Apart
  <2> HIDE DEF i
  <2>3. Apart'
    <3>1. \A m, k \in Names : file'[m] # 0 =>
            /\ file'[m] # part'[k] /\ file'[m] \notin baks'[k]
            /\ m # k => file'[m] # file'[k]
      <4> SUFFICES ASSUME NEW m \in Names, NEW k \in Names, file'[m] # 0
                   PROVE  /\ file'[m] # part'[k] /\ file'[m] \notin baks'[k]
                          /\ m # k => file'[m] # file'[k]
        OBVIOUS
      <4>1. CASE m = n
        BY <1>1, <2>1, <2>2, <4>1
      <4>2. CASE m # n
        <5>1. file'[m] = file[m] /\ file[m] # i
          BY <2>1, <2>2, <4>2
        <5>2. /\ file[m] # part[k] /\ file[m] \notin baks[k]
              /\ m # k => file[m] # file[k]
          BY <1>0, <5>1 DEF Apart
        <5> QED BY <1>1, <2>1, <5>1, <5>2
      <4> QED BY <4>1, <4>2
    <3>2. \A m, k \in Names : part'[m] # 0 =>
            /\ part'[m] \notin baks'[k]
            /\ m # k => part'[m] # part'[k]
      <4> SUFFICES ASSUME NEW m \in Names, NEW k \in Names, part'[m] # 0
                   PROVE  /\ part'[m] \notin baks'[k]
                          /\ m # k => part'[m] # part'[k]
        OBVIOUS
      <4>1. m # n /\ part'[m] = part[m]
        BY <2>1
      <4>2. part[m] \notin baks[k] /\ (m # k => part[m] # part[k])
        BY <1>0, <4>1 DEF Apart
      <4> QED BY <1>1, <2>1, <4>1, <4>2
    <3>3. \A m, k \in Names : m # k => baks'[m] \cap baks'[k] = {}
      BY <1>0, <1>1 DEF Apart
    <3> QED BY <3>1, <3>2, <3>3 DEF Apart
  <2>4. NothingLost'
    <3> SUFFICES ASSUME NEW m \in Names, cur'[m] # 0
                 PROVE  file'[m] = cur'[m] \/ cur'[m] \in baks'[m]
      BY DEF NothingLost
    <3> QED BY <1>0, <1>1, <2>1 DEF NothingLost
  <2>5. \A w \in Uploaders :
          Holding(w)' /\ up'[w].pc = "clean" => cur'[up'[w].name] # up'[w].bak
    <3> SUFFICES ASSUME NEW w \in Uploaders, Holding(w)', up'[w].pc = "clean"
                 PROVE  cur'[up'[w].name] # up'[w].bak
      OBVIOUS
    <3>1. up[w].bak \in baks[up[w].name] /\ up[w].bak # i
      BY <1>0, <1>2, <1>6, <2>2 DEF Held
    <3>2. CASE up[w].name = n
      BY <1>2, <1>6, <2>1, <3>1, <3>2
    <3>3. CASE up[w].name # n
      <4>1. w # u /\ up[w].pc = "clean"
        BY <1>4, <3>3
      <4> QED BY <1>0, <1>2, <1>6, <2>1, <3>3, <4>1 DEF Held
    <3> QED BY <3>2, <3>3
  <2> QED BY <1>5, <1>7, <1>8, <2>3, <2>4, <2>5 DEF Held
<1> QED BY <1>9, <1>10 DEF Swap

\* Putting the backup back, or not.
LEMMA RestoreInv ==
  ASSUME IInv, NEW u \in Uploaders, Restore(u)
  PROVE  HandleOK' /\ NoBakYet' /\ Apart' /\ Held' /\ NothingLost'
<1> DEFINE n == up[u].name
<1>0. UpOK /\ DirOK /\ TypeOK /\ HandleOK /\ NoBakYet /\ Apart /\ Held /\ NothingLost
  BY TypeParts DEF IInv
<1>1. UNCHANGED <<data, part>> /\ up[u].pc = "restore" /\ Fail(u)
  BY DEF Restore, At
<1>2. n \in Names /\ \A w \in Uploaders : up[w].name \in Names
  BY <1>0 DEF UpOK, Upload
<1>3. Inodes' = Inodes
  BY <1>0, <1>1, SameInodes
<1>4. Quiet(u) /\ ~Holding(u)'
  BY <1>0, <1>1, QuietFail
<1>5. CASE UNCHANGED <<file, baks, cur>>
  <2>1. HandleOK' /\ NoBakYet' /\ Held'
    BY <1>0, <1>3, <1>4, <1>5, QuietUps
  <2>2. Apart' /\ NothingLost'
    BY <1>0, <1>1, <1>5 DEF Apart, NothingLost
  <2> QED BY <2>1, <2>2
<1>6. CASE /\ up[u].bak # 0
           /\ file' = [file EXCEPT ![n] = up[u].bak]
           /\ baks' = [baks EXCEPT ![n] = @ \ {up[u].bak}]
           /\ cur' = [cur EXCEPT ![n] = up[u].bak]
  <2> DEFINE i == up[u].bak
  <2>1. /\ Holding(u) /\ i # 0 /\ i \in baks[n]
        /\ \A m \in Names : file'[m] = IF m = n THEN i ELSE file[m]
        /\ \A m \in Names : baks'[m] = IF m = n THEN baks[m] \ {i} ELSE baks[m]
        /\ \A m \in Names : cur'[m] = IF m = n THEN i ELSE cur[m]
    BY <1>0, <1>1, <1>2, <1>6 DEF DirOK, Held, Holding
  <2>2. \A m \in Names :
          /\ file[m] # 0 => file[m] # i
          /\ part[m] # i
          /\ m # n => i \notin baks[m]
    BY <1>0, <1>2, <2>1 DEF Apart
  <2>3. \A w \in Uploaders : w # u /\ Holding(w) => up[w].bak # i
    BY <1>0, <2>1 DEF Held
  <2> HIDE DEF i
  <2>4. Apart'
    <3>1. \A m, k \in Names : file'[m] # 0 =>
            /\ file'[m] # part'[k] /\ file'[m] \notin baks'[k]
            /\ m # k => file'[m] # file'[k]
      <4> SUFFICES ASSUME NEW m \in Names, NEW k \in Names, file'[m] # 0
                   PROVE  /\ file'[m] # part'[k] /\ file'[m] \notin baks'[k]
                          /\ m # k => file'[m] # file'[k]
        OBVIOUS
      <4>1. CASE m = n
        <5>1. file'[m] = i /\ part'[k] = part[k]
          BY <1>1, <2>1, <4>1
        <5>2. file'[m] \notin baks'[k]
          BY <2>1, <2>2, <4>1, <5>1
        <5>3. m # k => file'[k] # i
          BY <2>1, <2>2, <4>1
        <5> QED BY <2>2, <5>1, <5>2, <5>3
      <4>2. CASE m # n
        <5>1. file'[m] = file[m] /\ file[m] # i
          BY <2>1, <2>2, <4>2
        <5>2. /\ file[m] # part[k] /\ file[m] \notin baks[k]
              /\ m # k => file[m] # file[k]
          BY <1>0, <5>1 DEF Apart
        <5> QED BY <1>1, <2>1, <5>1, <5>2
      <4> QED BY <4>1, <4>2
    <3>2. \A m, k \in Names : part'[m] # 0 =>
            /\ part'[m] \notin baks'[k]
            /\ m # k => part'[m] # part'[k]
      <4> SUFFICES ASSUME NEW m \in Names, NEW k \in Names, part'[m] # 0
                   PROVE  /\ part'[m] \notin baks'[k]
                          /\ m # k => part'[m] # part'[k]
        OBVIOUS
      <4>1. part[m] \notin baks[k] /\ (m # k => part[m] # part[k])
        BY <1>0, <1>1 DEF Apart
      <4> QED BY <1>1, <2>1, <4>1
    <3>3. \A m, k \in Names : m # k => baks'[m] \cap baks'[k] = {}
      <4> SUFFICES ASSUME NEW m \in Names, NEW k \in Names, m # k
                   PROVE  baks'[m] \cap baks'[k] = {}
        OBVIOUS
      <4>1. baks[m] \cap baks[k] = {}
        BY <1>0 DEF Apart
      <4> QED BY <2>1, <4>1
    <3> QED BY <3>1, <3>2, <3>3 DEF Apart
  <2>5. NothingLost'
    <3> SUFFICES ASSUME NEW m \in Names, cur'[m] # 0
                 PROVE  file'[m] = cur'[m] \/ cur'[m] \in baks'[m]
      BY DEF NothingLost
    <3> QED BY <1>0, <2>1 DEF NothingLost
  <2>6. HandleOK' /\ NoBakYet'
    BY <1>0, <1>3, <1>4 DEF HandleOK, NoBakYet, Quiet
  <2>7. \A w \in Uploaders : Holding(w)' =>
          /\ w # u /\ Holding(w) /\ up'[w] = up[w] /\ up[w].bak # i
    BY <1>4, <2>3 DEF Quiet, Holding
  <2>8. \A w \in Uploaders : Holding(w)' => up'[w].bak \in baks'[up'[w].name]
    <3> SUFFICES ASSUME NEW w \in Uploaders, Holding(w)'
                 PROVE  up[w].bak \in baks'[up[w].name]
      BY <2>7
    <3>1. up[w].bak \in baks[up[w].name] /\ up[w].bak # i
      BY <1>0, <2>7 DEF Held
    <3> QED BY <1>2, <2>1, <3>1
  <2>9. \A v, w \in Uploaders :
          v # w /\ Holding(v)' /\ Holding(w)' => up'[v].bak # up'[w].bak
    BY <1>0, <2>7 DEF Held
  <2>10. \A w \in Uploaders :
           Holding(w)' /\ up'[w].pc = "clean" => cur'[up'[w].name] # up'[w].bak
    BY <1>0, <1>2, <2>1, <2>7 DEF Held
  <2> QED BY <2>4, <2>5, <2>6, <2>8, <2>9, <2>10 DEF Held
<1> QED BY <1>5, <1>6 DEF Restore

\* Deleting the backup, which is not what is installed.
LEMMA CleanInv ==
  ASSUME IInv, NEW u \in Uploaders, Clean(u)
  PROVE  HandleOK' /\ NoBakYet' /\ Apart' /\ Held' /\ NothingLost'
<1> DEFINE n == up[u].name
           i == up[u].bak
<1>0. UpOK /\ DirOK /\ TypeOK /\ HandleOK /\ NoBakYet /\ Apart /\ Held /\ NothingLost
  BY TypeParts DEF IInv
<1>1. UNCHANGED <<data, file, part, cur>> /\ up[u].pc = "clean" /\ Go(u, "done")
  BY DEF Clean, At
<1>2. n \in Names /\ \A w \in Uploaders : up[w].name \in Names
  BY <1>0 DEF UpOK, Upload
<1>3. Inodes' = Inodes
  BY <1>0, <1>1, SameInodes
<1>4. /\ up'[u].pc = "done"
      /\ \A w \in Uploaders : w # u => up'[w] = up[w]
  BY <1>0, <1>1, GoEffect
<1>5. HandleOK' /\ NoBakYet'
  BY <1>0, <1>3, <1>4 DEF HandleOK, NoBakYet
<1>6. \A m \in Names : /\ baks'[m] \subseteq baks[m]
                       /\ m # n => baks'[m] = baks[m]
                       /\ baks[m] \ {i} \subseteq baks'[m]
  BY <1>0, <1>2 DEF Clean, DirOK
<1>7. Apart'
  <2>1. \A m, k \in Names : m # k => baks'[m] \cap baks'[k] = {}
    <3> SUFFICES ASSUME NEW m \in Names, NEW k \in Names, m # k
                 PROVE  baks'[m] \cap baks'[k] = {}
      OBVIOUS
    <3>1. baks[m] \cap baks[k] = {}
      BY <1>0 DEF Apart
    <3> QED BY <1>6, <3>1
  <2>2. \A m, k \in Names : /\ file[m] # 0 => file[m] \notin baks'[k]
                            /\ part[m] # 0 => part[m] \notin baks'[k]
    BY <1>0, <1>6 DEF Apart
  <2> QED BY <1>0, <1>1, <2>1, <2>2 DEF Apart
<1>8. NothingLost'
  <2> SUFFICES ASSUME NEW m \in Names, cur[m] # 0, file[m] # cur[m]
               PROVE  cur[m] \in baks'[m]
    BY <1>1 DEF NothingLost
  <2>1. cur[m] \in baks[m]
    BY <1>0 DEF NothingLost
  <2>2. m = n => cur[m] # i
    BY <1>0, <1>1 DEF Held, Holding
  <2> QED BY <1>6, <2>1, <2>2
<1>9. \A w \in Uploaders : Holding(w)' => w # u /\ Holding(w) /\ up'[w] = up[w]
  BY <1>4 DEF Holding
<1>10. \A w \in Uploaders : Holding(w)' => up'[w].bak \in baks'[up'[w].name]
  <2> SUFFICES ASSUME NEW w \in Uploaders, Holding(w)'
               PROVE  up[w].bak \in baks'[up[w].name]
    BY <1>9
  <2>1. w # u /\ Holding(w) /\ up[w].bak # 0
    BY <1>9 DEF Holding
  <2>2. up[w].bak \in baks[up[w].name] /\ up[w].bak # i
    BY <1>0, <1>1, <2>1 DEF Held, Holding
  <2> QED BY <1>2, <1>6, <2>2
<1>11. \A v, w \in Uploaders :
         v # w /\ Holding(v)' /\ Holding(w)' => up'[v].bak # up'[w].bak
  BY <1>0, <1>9 DEF Held
<1>12. \A w \in Uploaders :
         Holding(w)' /\ up'[w].pc = "clean" => cur'[up'[w].name] # up'[w].bak
  BY <1>0, <1>1, <1>9 DEF Held
<1> QED BY <1>5, <1>7, <1>8, <1>10, <1>11, <1>12 DEF Held

\* Deleting the part.
LEMMA AbandonInv ==
  ASSUME IInv, NEW u \in Uploaders, Abandon(u)
  PROVE  HandleOK' /\ NoBakYet' /\ Apart' /\ Held' /\ NothingLost'
<1>0. UpOK /\ DirOK /\ TypeOK /\ HandleOK /\ NoBakYet /\ Apart /\ Held /\ NothingLost
  BY TypeParts DEF IInv
<1>1. UNCHANGED <<data, file, baks, cur>> /\ Quiet(u)
  BY <1>0, QuietEnd DEF Abandon
<1>2. HandleOK' /\ NoBakYet' /\ Held'
  <2>1. Inodes' = Inodes
    BY <1>0, <1>1, SameInodes
  <2> QED BY <1>0, <1>1, <2>1, QuietUps
<1>3. \A m \in Names : part'[m] = part[m] \/ part'[m] = 0
  BY <1>0 DEF Abandon, DirOK
<1>4. \A m \in Names : file[m] # 0 => \A k \in Names : file[m] # part'[k]
  BY <1>0, <1>3 DEF Apart
<1>5. Apart'
  BY <1>0, <1>1, <1>3, <1>4 DEF Apart
<1>6. NothingLost'
  BY <1>0, <1>1 DEF NothingLost
<1> QED BY <1>2, <1>5, <1>6

LEMMA InvStep == IInv /\ [Next]_vars => IInv'
<1> SUFFICES ASSUME IInv, [Next]_vars PROVE IInv'
  OBVIOUS
<1>0. UpOK /\ DirOK /\ TypeOK /\ HandleOK /\ NoBakYet /\ Apart /\ Held /\ NothingLost
  BY TypeParts DEF IInv
<1>1. CASE UNCHANGED vars
  <2>1. TypeOK' /\ HandleOK' /\ NoBakYet' /\ Apart' /\ NothingLost'
    BY <1>0, <1>1 DEF vars, TypeOK, Inodes, HandleOK, NoBakYet, Apart, NothingLost
  <2>2. Held'
    BY <1>0, <1>1 DEF vars, Held, Holding
  <2> QED BY <2>1, <2>2 DEF IInv
<1>2. ASSUME NEW u \in Uploaders,
             Begin(u) \/ Cancel(u) \/ Drop(u) \/ Edit(u) \/ Work(u)
      PROVE  IInv'
  <2>1. TypeOK'
    BY <1>0, <1>2, StepType
  <2>2. CASE Begin(u) \/ Cancel(u) \/ Drop(u) \/ Edit(u) \/ Probe(u) \/ Start(u) \/ Verify(u)
    <3>1. UNCHANGED Dir
      BY <2>2 DEF Begin, Cancel, Drop, Edit, Probe, Start, Verify
    <3>2. Inodes' = Inodes
      BY <1>0, <3>1, DirUnchanged
    <3>3. Quiet(u)
      BY <1>0, <2>2, <3>2, QuietSteps
    <3>4. HandleOK' /\ NoBakYet' /\ Held'
      BY <1>0, <3>1, <3>2, <3>3, QuietUps DEF Dir
    <3>5. Apart' /\ NothingLost'
      BY <1>0, <3>1 DEF Dir, Apart, NothingLost
    <3> QED BY <2>1, <3>4, <3>5 DEF IInv
  <2>3. CASE Write(u) \/ Close(u)
    <3>1. UNCHANGED <<file, part, baks, cur>>
      BY <2>3 DEF Write, Close
    <3>2. Inodes' = Inodes
      <4>1. up[u].handle \in Inodes
        BY <1>0, <2>3 DEF Write, Close, At, HandleOK
      <4>2. CASE WriteAt(u)
        BY <1>0, <4>1, <4>2, WriteAtType, TypeParts
      <4>3. CASE UNCHANGED data
        BY <1>0, <4>3, SameInodes
      <4>4. ASSUME NEW k \in 0..Len(data[up[u].handle]),
                   data' = [data EXCEPT ![up[u].handle] = SubSeq(@, 1, k)]
            PROVE  Inodes' = Inodes
        BY <4>4 DEF Inodes
      <4> QED BY <2>3, <4>2, <4>3, <4>4 DEF Write, Close
    <3>3. Quiet(u)
      BY <1>0, <2>3, <3>2, QuietWrites
    <3>4. HandleOK' /\ NoBakYet' /\ Held'
      BY <1>0, <3>1, <3>2, <3>3, QuietUps
    <3>5. Apart' /\ NothingLost'
      BY <1>0, <3>1 DEF Apart, NothingLost
    <3> QED BY <2>1, <3>4, <3>5 DEF IInv
  <2>4. CASE Open(u)
    BY <2>1, <2>4, OpenInv DEF IInv
  <2>5. CASE Backup(u)
    BY <2>1, <2>5, BackupInv DEF IInv
  <2>6. CASE Swap(u)
    BY <2>1, <2>6, SwapInv DEF IInv
  <2>7. CASE Restore(u)
    BY <2>1, <2>7, RestoreInv DEF IInv
  <2>8. CASE Clean(u)
    BY <2>1, <2>8, CleanInv DEF IInv
  <2>9. CASE Abandon(u)
    BY <2>1, <2>9, AbandonInv DEF IInv
  <2> QED BY <1>2, <2>2, <2>3, <2>4, <2>5, <2>6, <2>7, <2>8, <2>9 DEF Work
<1> QED BY <1>1, <1>2 DEF Next

LEMMA Invariance == Spec => []IInv
  BY InvInit, InvStep, PTL DEF Spec

\* Every reachable state of the uploads and of the remote directory is well
\* typed, for any number of uploads, names, retries and versions.
THEOREM TypeCorrect == Spec => []TypeOK
<1>1. IInv => TypeOK
  BY DEF IInv
<1> QED BY <1>1, Invariance, PTL

\* upload_file_once, "no step that fails loses the original": for any number of
\* uploads racing on one directory, on every kind of server, what was last
\* installed under a name is under that name or in a backup of it.
THEOREM OriginalKept == Spec => []NothingLost
<1>1. IInv => NothingLost
  BY DEF IInv
<1> QED BY <1>1, Invariance, PTL

-----------------------------------------------------------------------------
(* CommitComplete.  What a run has written is of the version it was started  *)
(* with, as long as nobody else writes the part: a resumption trusts the     *)
(* length of the part, and the length is all it can look at.                 *)

\* Upload u is past its policy probe, at work on its name.
Past(u) == up[u].pc \in {"start", "open", "write", "verify", "backup", "swap",
                         "restore", "clean", "giveup"}

\* No two uploads are at work on one name at one time.
Alone == \A u, w \in Uploaders :
           u # w /\ Past(u) /\ Past(w) => up[u].name # up[w].name

\* Content c is of version v of the local file of u, whole or not.
Of(c, u, v) == \A i \in DOMAIN c : c[i] = [src |-> u, ver |-> v]
PartOf(u) == part[up[u].name]

\* The parts of the invariant, by the place of the upload.
Fresh(u) ==
    /\ up[u].pc \in {"idle", "probe"} => ~up[u].own
    /\ up[u].pc \in {"open", "write", "verify"} => ~up[u].checked
    /\ Past(u) => up[u].pin <= ver[u]
Prefixed(u) ==
    Past(u) /\ up[u].own /\ PartOf(u) # 0 /\ ver[u] = up[u].pin
      => Of(data[PartOf(u)], u, ver[u])
OpenOK(u) ==
    up[u].pc = "open" /\ up[u].pos > 0 =>
      /\ PartOf(u) # 0 /\ Len(data[PartOf(u)]) = up[u].pos
      /\ ~up[u].torn => ver[u] = up[u].pin /\ up[u].pos <= Size[ver[u]]
WriteOK(u) ==
    up[u].pc = "write" =>
      /\ up[u].handle = PartOf(u) /\ PartOf(u) # 0
      /\ Len(data[PartOf(u)]) = up[u].pos
      /\ ~up[u].torn => /\ up[u].pos <= Size[ver[u]]
                        /\ up[u].own => Of(data[PartOf(u)], u, ver[u])
\* Content c holds no more than version v, and all of it where servers do.
Nearly(c, u, v) ==
    Of(c, u, v) /\ Len(c) <= Size[v] /\ (~server.truncates => Len(c) = Size[v])
VerifyOK(u) ==
    up[u].pc = "verify" =>
      /\ up[u].handle = PartOf(u) /\ PartOf(u) # 0
      /\ ~up[u].torn /\ up[u].own =>
           \E v \in Versions : up[u].pos = Size[v] /\ Nearly(data[PartOf(u)], u, v)
Sound(u) == ~up[u].torn /\ up[u].own /\ (up[u].checked \/ ~server.truncates)
MovedOK(u) ==
    /\ up[u].pc \in {"backup", "swap"} => up[u].handle = PartOf(u) /\ PartOf(u) # 0
    /\ up[u].pc \in {"clean", "done"} =>
         up[u].handle \in Inodes /\ \A n \in Names : part[n] # up[u].handle
    /\ up[u].pc \in {"backup", "swap", "clean", "done"} /\ Sound(u) =>
         \E v \in Versions : data[up[u].handle] = Full(u, v)
WOK(u) == Fresh(u) /\ Prefixed(u) /\ OpenOK(u) /\ WriteOK(u) /\ VerifyOK(u) /\ MovedOK(u)
WInv == \A u \in Uploaders : WOK(u)

\* A step of u changes no other part, and of the contents its own part's only.
Mine(u) ==
    /\ \A x \in Uploaders : x # u => up'[x] = up[x] /\ ver'[x] = ver[x]
    /\ server' = server
    /\ Inodes \subseteq Inodes'
    /\ Past(u) \/ UNCHANGED <<data, part>>
    /\ \A n \in Names : n # up[u].name => part'[n] = part[n]
    /\ part'[up[u].name] \notin Inodes \/ part'[up[u].name] = part[up[u].name]
    /\ \A i \in Inodes : i # PartOf(u) => data'[i] = data[i]

LEMMA TypeFacts ==
  ASSUME IInv, NEW u \in Uploaders
  PROVE  /\ UpOK /\ DirOK /\ EnvOK /\ Apart
         /\ up[u] \in Upload /\ up \in [Uploaders -> Upload]
         /\ up[u].name \in Names /\ PartOf(u) \in Inodes \cup {0}
         /\ up[u].pos \in Nat /\ up[u].handle \in Inodes \cup {0}
         /\ ver[u] \in Versions /\ up[u].pin \in Versions
         /\ up[u].own \in BOOLEAN /\ up[u].torn \in BOOLEAN /\ up[u].checked \in BOOLEAN
<1>1. UpOK /\ DirOK /\ EnvOK /\ Apart
  BY TypeParts DEF IInv
<1>2. up[u] \in Upload /\ up \in [Uploaders -> Upload]
  BY <1>1 DEF UpOK
<1>3. up[u].name \in Names
  BY <1>2 DEF Upload
<1>4. PartOf(u) \in Inodes \cup {0} /\ up[u].handle \in Inodes \cup {0} /\ ver[u] \in Versions
  BY <1>1, <1>3 DEF PartOf, UpOK, DirOK, EnvOK
<1>5. /\ up[u].pos \in Nat /\ up[u].pin \in Versions
      /\ up[u].own \in BOOLEAN /\ up[u].torn \in BOOLEAN /\ up[u].checked \in BOOLEAN
  BY <1>2 DEF Upload
<1> QED BY <1>1, <1>2, <1>3, <1>4, <1>5

\* What the steps of others do to an upload alone on its name: nothing.
LEMMA OthersKeep ==
  ASSUME IInv, Alone, WInv, NEW u \in Uploaders, NEW x \in Uploaders, x # u, Mine(u)
  PROVE  WOK(x)'
<1>1. /\ up'[x] = up[x] /\ ver'[x] = ver[x] /\ server' = server /\ WOK(x)
      /\ Inodes \subseteq Inodes'
  BY DEF Mine, WInv
<1>2. up[x].name \in Names /\ PartOf(x) \in Inodes \cup {0} /\ up[u].name \in Names
      /\ Apart /\ 0 \notin Inodes
  BY TypeFacts, InodeNat
<1>3. ASSUME Past(x)
      PROVE  PartOf(x)' = PartOf(x) /\ (PartOf(x) # 0 => data'[PartOf(x)] = data[PartOf(x)])
  <2>1. CASE UNCHANGED <<data, part>>
    BY <1>1, <2>1 DEF PartOf
  <2>2. CASE Past(u)
    <3>1. up[x].name # up[u].name
      BY <1>3, <2>2 DEF Alone
    <3>2. PartOf(x)' = PartOf(x)
      BY <1>1, <1>2, <3>1 DEF Mine, PartOf
    <3>3. PartOf(x) # 0 => PartOf(x) # PartOf(u)
      BY <1>2, <3>1 DEF Apart, PartOf
    <3> QED BY <1>2, <3>2, <3>3 DEF Mine
  <2> QED BY <2>1, <2>2 DEF Mine
<1>4. ASSUME up[x].pc \in {"clean", "done"}
      PROVE  /\ \A n \in Names : part'[n] # up[x].handle
             /\ data'[up[x].handle] = data[up[x].handle] /\ up[x].handle \in Inodes'
  <2>1. up[x].handle \in Inodes /\ \A n \in Names : part[n] # up[x].handle
    BY <1>1, <1>4 DEF WOK, MovedOK
  <2>2. up[x].handle # PartOf(u)
    BY <1>2, <2>1 DEF PartOf
  <2> QED BY <1>1, <1>2, <2>1, <2>2 DEF Mine, PartOf
<1>5. Past(x)' = Past(x) /\ Sound(x)' = Sound(x)
  BY <1>1 DEF Past, Sound
<1>6. Fresh(x)'
  BY <1>1, <1>5 DEF WOK, Fresh
<1>7. Prefixed(x)'
  BY <1>1, <1>3, <1>5 DEF WOK, Prefixed
<1>8. OpenOK(x)'
  BY <1>1, <1>3, <1>5 DEF WOK, OpenOK, Past
<1>9. WriteOK(x)'
  BY <1>1, <1>3, <1>5 DEF WOK, WriteOK, Past
<1>10. VerifyOK(x)'
  BY <1>1, <1>3, <1>5 DEF WOK, VerifyOK, Past, Nearly
<1>11. MovedOK(x)'
  <2>1. CASE up[x].pc \in {"backup", "swap"}
    <3>1. Past(x) /\ up[x].handle = PartOf(x) /\ PartOf(x) # 0
      BY <1>1, <2>1 DEF Past, WOK, MovedOK
    <3> QED BY <1>1, <1>3, <1>5, <2>1, <3>1 DEF WOK, MovedOK, Full
  <2>2. CASE up[x].pc \in {"clean", "done"}
    BY <1>1, <1>4, <1>5, <2>2 DEF WOK, MovedOK, Full
  <2> QED BY <1>1, <2>1, <2>2 DEF MovedOK
<1> QED BY <1>6, <1>7, <1>8, <1>9, <1>10, <1>11 DEF WOK

\* Opening the part truncates it, creates it, or leaves it as it is.
LEMMA OpenPartFacts ==
  ASSUME IInv, NEW u \in Uploaders, OpenPart(u)
  PROVE  /\ Inodes \subseteq Inodes'
         /\ \A n \in Names : n # up[u].name => part'[n] = part[n]
         /\ PartOf(u) # 0 => part'[up[u].name] = PartOf(u)
         /\ PartOf(u) = 0 => part'[up[u].name] \notin Inodes
         /\ \A i \in Inodes : i # PartOf(u) => data'[i] = data[i]
         /\ part'[up[u].name] # 0
         /\ PartOf(u) = 0 \/ up[u].pos = 0 => data'[part'[up[u].name]] = <<>>
         /\ PartOf(u) # 0 /\ up[u].pos # 0 => data'[PartOf(u)] = data[PartOf(u)]
<1> DEFINE n == up[u].name
<1>1. DirOK /\ n \in Names /\ PartOf(u) \in Inodes \cup {0} /\ part \in [Names -> Inodes \cup {0}]
  BY TypeFacts DEF DirOK
<1>2. data \in Seq(Seq(Block)) /\ Len(data) \in Nat /\ Inodes = 1..Len(data)
  BY <1>1 DEF DirOK, Inodes
<1>3. CASE PartOf(u) = 0
  <2>1. data' = Append(data, <<>>) /\ part' = [part EXCEPT ![n] = Len(data) + 1]
    BY <1>3 DEF OpenPart, PartOf
  <2>2. /\ Inodes' = Inodes \cup {Len(data) + 1} /\ Len(data) + 1 \notin Inodes
        /\ Len(data) + 1 # 0
    BY <1>1, <2>1, DataAdded
  <2>3. data'[Len(data) + 1] = <<>> /\ \A i \in 1..Len(data) : data'[i] = data[i]
    BY <1>2, <2>1
  <2>4. part'[n] = Len(data) + 1 /\ \A m \in Names : m # n => part'[m] = part[m]
    BY <1>1, <2>1
  <2> QED BY <1>2, <1>3, <2>2, <2>3, <2>4
<1>4. CASE PartOf(u) # 0
  <2>1. /\ part' = part
        /\ data' = IF up[u].pos = 0 THEN [data EXCEPT ![part[n]] = <<>>] ELSE data
    BY <1>4 DEF OpenPart, PartOf
  <2>2. Inodes' = Inodes
    BY <1>2, <2>1 DEF Inodes
  <2>3. part[n] \in Inodes /\ part[n] = PartOf(u)
    BY <1>1, <1>4 DEF PartOf
  <2>4. CASE up[u].pos = 0
    <3>1. data'[part[n]] = <<>> /\ \A i \in Inodes : i # part[n] => data'[i] = data[i]
      BY <1>2, <2>1, <2>3, <2>4
    <3> QED BY <1>4, <2>1, <2>2, <2>3, <3>1
  <2>5. CASE up[u].pos # 0
    BY <1>4, <2>1, <2>2, <2>3, <2>5
  <2> QED BY <2>4, <2>5
<1> QED BY <1>3, <1>4

\* Writing through the handle changes the part.
LEMMA HandleFacts ==
  ASSUME IInv, WInv, NEW u \in Uploaders, up[u].pc = "write", NEW c,
         data' = [data EXCEPT ![up[u].handle] = c]
  PROVE  /\ Inodes' = Inodes /\ data'[PartOf(u)] = c
         /\ \A i \in Inodes : i # PartOf(u) => data'[i] = data[i]
<1>1. up[u].handle = PartOf(u) /\ PartOf(u) # 0
  BY DEF WInv, WOK, WriteOK
<1>2. PartOf(u) \in Inodes /\ Inodes = DOMAIN data
  BY <1>1, TypeFacts DEF Inodes
<1>3. DOMAIN data' = DOMAIN data
  OBVIOUS
<1>4. Inodes' = Inodes
  BY <1>3 DEF Inodes
<1> QED BY <1>1, <1>2, <1>4

LEMMA EveryStepMine ==
  ASSUME IInv, WInv, NEW u \in Uploaders,
         Begin(u) \/ Cancel(u) \/ Drop(u) \/ Edit(u) \/ Work(u)
  PROVE  Mine(u)
<1>0. DirOK /\ up[u].name \in Names /\ up \in [Uploaders -> Upload] /\ EnvOK
      /\ PartOf(u) \in Inodes \cup {0} /\ 0 \notin Inodes
  BY TypeFacts, InodeNat
<1>1. \A x \in Uploaders : x # u => up'[x] = up[x] /\ ver'[x] = ver[x]
  <2>1. \A x \in Uploaders : x # u => up'[x] = up[x]
    <3>1. ASSUME NEW pc, Go(u, pc) \/ End(u, pc) \/ Fail(u)
          PROVE  \A x \in Uploaders : x # u => up'[x] = up[x]
      BY <1>0, <3>1 DEF Go, End, Fail
    <3>2. CASE Begin(u) \/ Cancel(u) \/ Edit(u)
      BY <1>0, <3>2 DEF Begin, Cancel, Edit
    <3>3. CASE Drop(u) \/ Clean(u) \/ Abandon(u)
      BY <3>1, <3>3 DEF Drop, Clean, Abandon
    <3>4. CASE Probe(u)
      BY <1>0, <3>1, <3>4 DEF Probe
    <3>5. CASE Start(u)
      BY <1>0, <3>5 DEF Start
    <3>6. CASE Open(u)
      BY <1>0, <3>1, <3>6 DEF Open
    <3>7. CASE Write(u)
      BY <1>0, <3>1, <3>7 DEF Write
    <3>8. CASE Close(u) \/ Swap(u) \/ Restore(u)
      BY <3>1, <3>8 DEF Close, Swap, Restore
    <3>9. CASE Verify(u)
      BY <1>0, <3>1, <3>9 DEF Verify
    <3>10. CASE Backup(u)
      BY <1>0, <3>1, <3>10 DEF Backup
    <3> QED BY <3>2, <3>3, <3>4, <3>5, <3>6, <3>7, <3>8, <3>9, <3>10 DEF Work
  <2>2. \A x \in Uploaders : x # u => ver'[x] = ver[x]
    BY <1>0 DEF Begin, Cancel, Drop, Edit, Work, Probe, Start, Open, Write, Close, Verify,
           Backup, Swap, Restore, Clean, Abandon, Env, EnvOK
  <2> QED BY <2>1, <2>2
<1>2. server' = server
  BY DEF Begin, Cancel, Drop, Edit, Work, Probe, Start, Open, Write, Close, Verify,
         Backup, Swap, Restore, Clean, Abandon, Env
<1>3. Past(u) \/ UNCHANGED <<data, part>>
  BY DEF Begin, Cancel, Drop, Edit, Work, Probe, Start, Open, Write, Close, Verify,
         Backup, Swap, Restore, Clean, Abandon, Dir, Past, At
<1>4. CASE UNCHANGED <<data, part>>
  <2>1. Inodes' = Inodes
    BY <1>4 DEF Inodes
  <2> QED BY <1>1, <1>2, <1>4, <2>1 DEF Mine, PartOf
<1>5. CASE Open(u) /\ OpenPart(u)
  <2>1. PartOf(u) # 0 \/ part'[up[u].name] \notin Inodes
    BY <1>5, OpenPartFacts
  <2> QED BY <1>1, <1>2, <1>3, <1>5, <2>1, OpenPartFacts DEF Mine, PartOf
<1>6. CASE (Write(u) \/ Close(u)) /\ data' # data
  <2>1. part' = part /\ \E c : data' = [data EXCEPT ![up[u].handle] = c]
    BY <1>6 DEF Write, Close, WriteAt
  <2>2. PICK c : data' = [data EXCEPT ![up[u].handle] = c]
    BY <2>1
  <2>3. up[u].pc = "write"
    BY <1>6 DEF Write, Close, At
  <2>4. /\ Inodes' = Inodes
        /\ \A i \in Inodes : i # PartOf(u) => data'[i] = data[i]
    BY <2>2, <2>3, HandleFacts
  <2> QED BY <1>1, <1>2, <1>3, <2>1, <2>4 DEF Mine, PartOf
<1>7. CASE (Swap(u) \/ Abandon(u)) /\ part' = [part EXCEPT ![up[u].name] = 0]
  <2>1. data' = data
    BY <1>7 DEF Swap, Abandon
  <2>2. Inodes' = Inodes
    BY <2>1 DEF Inodes
  <2>3. part'[up[u].name] = 0 /\ \A n \in Names : n # up[u].name => part'[n] = part[n]
    BY <1>0, <1>7 DEF DirOK
  <2> QED BY <1>0, <1>1, <1>2, <1>3, <2>1, <2>2, <2>3 DEF Mine, PartOf
<1>8. \/ UNCHANGED <<data, part>> \/ (Open(u) /\ OpenPart(u))
      \/ (Write(u) \/ Close(u)) /\ data' # data
      \/ (Swap(u) \/ Abandon(u)) /\ part' = [part EXCEPT ![up[u].name] = 0]
  <2>1. CASE Begin(u) \/ Cancel(u) \/ Drop(u) \/ Edit(u) \/ Probe(u) \/ Start(u) \/ Verify(u)
    BY <2>1 DEF Begin, Cancel, Drop, Edit, Probe, Start, Verify, Dir
  <2>2. CASE Backup(u) \/ Restore(u) \/ Clean(u)
    BY <2>2 DEF Backup, Restore, Clean
  <2>3. CASE Open(u)
    BY <2>3 DEF Open
  <2>4. CASE Write(u) \/ Close(u)
    BY <2>4 DEF Write, Close
  <2>5. CASE Swap(u)
    BY <2>5 DEF Swap, MoveIn
  <2>6. CASE Abandon(u)
    BY <2>6 DEF Abandon
  <2> QED BY <2>1, <2>2, <2>3, <2>4, <2>5, <2>6 DEF Work
<1> QED BY <1>4, <1>5, <1>6, <1>7, <1>8

\* An upload that is not at work claims nothing.
LEMMA OutOK ==
  ASSUME NEW u \in Uploaders,
         up'[u].pc \in {"idle", "probe", "skipped", "failed", "dropped"}, ~up'[u].own
  PROVE  WOK(u)'
BY DEF WOK, Fresh, Prefixed, OpenOK, WriteOK, VerifyOK, MovedOK, Past

\* An attempt that failed claims only the prefix.
LEMMA FailOK ==
  ASSUME IInv, WInv, NEW u \in Uploaders, Past(u), Fail(u), ver' = ver,
         up[u].own /\ PartOf(u)' # 0 /\ ver[u] = up[u].pin
           => Of(data'[PartOf(u)'], u, ver[u])
  PROVE  WOK(u)'
<1>1. /\ up'[u].pc \in {"start", "giveup"} /\ up'[u].own = up[u].own
      /\ up'[u].name = up[u].name /\ up'[u].pin = up[u].pin
  BY TypeFacts DEF Fail, Upload
<1>2. up[u].pin <= ver[u]
  BY DEF WInv, WOK, Fresh
<1>3. Fresh(u)' /\ Prefixed(u)'
  BY <1>1, <1>2 DEF Fresh, Prefixed, Past, PartOf
<1> QED BY <1>1, <1>3 DEF WOK, OpenOK, WriteOK, VerifyOK, MovedOK

\* A step to pc that leaves part, contents and versions alone keeps what it claims.
LEMMA GoFields ==
  ASSUME IInv, NEW u \in Uploaders, NEW pc, Go(u, pc)
  PROVE  /\ up'[u].pc = pc /\ up'[u].name = up[u].name /\ up'[u].pos = up[u].pos
         /\ up'[u].pin = up[u].pin /\ up'[u].handle = up[u].handle
         /\ up'[u].own = up[u].own /\ up'[u].torn = up[u].torn
         /\ up'[u].checked = up[u].checked
BY TypeFacts DEF Go, Upload


LEMMA EndFields ==
  ASSUME IInv, NEW u \in Uploaders, NEW pc, End(u, pc)
  PROVE  up'[u].pc = pc /\ ~up'[u].own
BY TypeFacts DEF End, Idle

\* What is of version v and as long is that version.
LEMMA FullOf ==
  ASSUME NEW u \in Uploaders, NEW v \in Versions, NEW c \in Seq(Block),
         Of(c, u, v), Len(c) = Size[v]
  PROVE  c = Full(u, v)
<1>1. DOMAIN c = 1..Size[v]
  OBVIOUS
<1>2. c = [i \in DOMAIN c |-> c[i]]
  OBVIOUS
<1>3. \A i \in DOMAIN c : c[i] = [src |-> u, ver |-> v]
  BY DEF Of
<1> QED BY <1>1, <1>2, <1>3 DEF Full

\* Writing at the end adds one block.
LEMMA PutEnd ==
  ASSUME NEW c \in Seq(Block), NEW b
  PROVE  /\ Len(Put(c, Len(c) + 1, b)) = Len(c) + 1
         /\ DOMAIN Put(c, Len(c) + 1, b) = 1..(Len(c) + 1)
         /\ \A i \in 1..Len(c) : Put(c, Len(c) + 1, b)[i] = c[i]
         /\ Put(c, Len(c) + 1, b)[Len(c) + 1] = b
<1> DEFINE l == Len(c)
           K == 1..(l + 1)
<1>1. l \in Nat /\ l + 1 > l /\ (IF l + 1 > l THEN l + 1 ELSE l) = l + 1
  OBVIOUS
<1>2. Put(c, l + 1, b)
        = [i \in K |-> IF i = l + 1 THEN b ELSE IF i <= l THEN c[i] ELSE Hole]
  BY <1>1 DEF Put
<1>3. DOMAIN Put(c, l + 1, b) = 1..(l + 1)
  BY <1>2
<1>4. Len(Put(c, l + 1, b)) = l + 1
  BY <1>1, <1>3
<1>5. \A i \in 1..l : i \in K /\ i # l + 1 /\ i <= l
  BY <1>1
<1>6. l + 1 \in K
  BY <1>1
<1> HIDE DEF K, l
<1>7. \A i \in 1..l : Put(c, l + 1, b)[i] = c[i]
  BY <1>2, <1>5
<1>8. Put(c, l + 1, b)[l + 1] = b
  BY <1>2, <1>6
<1> QED BY <1>3, <1>4, <1>7, <1>8 DEF l

LEMMA PutOf ==
  ASSUME NEW u \in Uploaders, NEW v \in Versions, NEW c \in Seq(Block), Of(c, u, v)
  PROVE  Of(Put(c, Len(c) + 1, [src |-> u, ver |-> v]), u, v)
<1> DEFINE b == [src |-> u, ver |-> v]
           p == Put(c, Len(c) + 1, b)
<1>1. /\ DOMAIN p = 1..(Len(c) + 1) /\ p[Len(c) + 1] = b
      /\ \A i \in 1..Len(c) : p[i] = c[i]
  BY PutEnd
<1>2. \A i \in 1..Len(c) : c[i] = b
  BY DEF Of
<1>3. \A i \in 1..(Len(c) + 1) : i = Len(c) + 1 \/ i \in 1..Len(c)
  OBVIOUS
<1> HIDE DEF p, b
<1>4. \A i \in DOMAIN p : p[i] = b
  BY <1>1, <1>2, <1>3
<1> QED BY <1>4 DEF Of, p, b

LEMMA SubOf ==
  ASSUME NEW u \in Uploaders, NEW v \in Versions, NEW c \in Seq(Block), Of(c, u, v),
         NEW k \in 0..Len(c)
  PROVE  Of(SubSeq(c, 1, k), u, v) /\ Len(SubSeq(c, 1, k)) = k
<1>1. Len(SubSeq(c, 1, k)) = k /\ \A i \in 1..k : SubSeq(c, 1, k)[i] = c[i] /\ i \in DOMAIN c
  OBVIOUS
<1>2. DOMAIN SubSeq(c, 1, k) = 1..k
  OBVIOUS
<1> QED BY <1>1, <1>2 DEF Of

\* A step that leaves parts, contents and versions alone.
LEMMA StillPrefixed ==
  ASSUME IInv, WInv, NEW u \in Uploaders, Past(u), UNCHANGED <<data, part, ver>>,
         up'[u].own = up[u].own, up'[u].pin = up[u].pin, up'[u].name = up[u].name
  PROVE  /\ Prefixed(u)' /\ up'[u].pin <= ver'[u]
         /\ up[u].own /\ PartOf(u)' # 0 /\ ver[u] = up[u].pin
              => Of(data'[PartOf(u)'], u, ver[u])
BY DEF WInv, WOK, Prefixed, Fresh, PartOf, Past

LEMMA OutSteps ==
  ASSUME IInv, WInv, NEW u \in Uploaders, Begin(u) \/ Drop(u) \/ Abandon(u)
  PROVE  WOK(u)'
<1>1. up'[u].pc \in {"idle", "probe", "skipped", "failed", "dropped"} /\ ~up'[u].own
  <2>1. CASE Begin(u)
    BY <2>1, TypeFacts DEF Begin, Idle
  <2>2. CASE Drop(u) \/ Abandon(u)
    BY <2>2, EndFields DEF Drop, Abandon
  <2> QED BY <2>1, <2>2
<1> QED BY <1>1, OutOK

LEMMA CancelKeeps ==
  ASSUME IInv, WInv, NEW u \in Uploaders, Cancel(u)
  PROVE  WOK(u)'
<1>1. /\ up'[u].pc = up[u].pc /\ up'[u].name = up[u].name /\ up'[u].pos = up[u].pos
      /\ up'[u].pin = up[u].pin /\ up'[u].handle = up[u].handle
      /\ up'[u].own = up[u].own /\ up'[u].torn = up[u].torn
      /\ up'[u].checked = up[u].checked
  BY TypeFacts DEF Cancel, Upload
<1>2. UNCHANGED <<data, part, ver, server>>
  BY DEF Cancel, Dir, Env
<1>3. WOK(u)
  BY DEF WInv
<1>4. /\ Past(u)' = Past(u) /\ Sound(u)' = Sound(u) /\ PartOf(u)' = PartOf(u)
      /\ Inodes' = Inodes
  BY <1>1, <1>2 DEF Past, Sound, PartOf, Inodes
<1>5. Fresh(u)' /\ Prefixed(u)' /\ OpenOK(u)'
  BY <1>1, <1>2, <1>3, <1>4 DEF WOK, Fresh, Prefixed, OpenOK
<1>6. WriteOK(u)' /\ VerifyOK(u)'
  BY <1>1, <1>2, <1>3, <1>4 DEF WOK, WriteOK, VerifyOK, Nearly
<1>7. MovedOK(u)'
  BY <1>1, <1>2, <1>3, <1>4 DEF WOK, MovedOK, Full
<1> QED BY <1>5, <1>6, <1>7 DEF WOK

\* An edit is noted by the attempt that reads, and by the pin of the others.
LEMMA EditKeeps ==
  ASSUME IInv, WInv, NEW u \in Uploaders, Edit(u)
  PROVE  WOK(u)'
<1>1. /\ up'[u].pc = up[u].pc /\ up'[u].name = up[u].name /\ up'[u].pos = up[u].pos
      /\ up'[u].pin = up[u].pin /\ up'[u].handle = up[u].handle
      /\ up'[u].own = up[u].own
      /\ up'[u].torn = (up[u].torn \/ up[u].pc \in {"open", "write"})
      /\ up'[u].checked = up[u].checked
  BY TypeFacts DEF Edit, Upload
<1>2. UNCHANGED <<data, part, server>> /\ ver'[u] = ver[u] + 1
  BY TypeFacts DEF Edit, Dir, EnvOK
<1>3. WOK(u) /\ ver[u] \in Nat /\ up[u].pin \in Nat
  BY TypeFacts DEF WInv, Versions
<1>4. Past(u)' = Past(u) /\ PartOf(u)' = PartOf(u) /\ Inodes' = Inodes
  BY <1>1, <1>2 DEF Past, PartOf, Inodes
<1>5. Past(u) => up[u].pin <= ver'[u] /\ up[u].pin # ver'[u]
  BY <1>2, <1>3 DEF WOK, Fresh
<1>6. Fresh(u)' /\ Prefixed(u)'
  BY <1>1, <1>2, <1>3, <1>4, <1>5 DEF WOK, Fresh, Prefixed
<1>7. OpenOK(u)' /\ WriteOK(u)'
  BY <1>1, <1>2, <1>3, <1>4 DEF WOK, OpenOK, WriteOK
<1>8. up[u].pc \notin {"open", "write"} => up'[u].torn = up[u].torn
  BY <1>1, TypeFacts
<1>9. VerifyOK(u)'
  BY <1>1, <1>2, <1>3, <1>4, <1>8 DEF WOK, VerifyOK, Nearly
<1>10. MovedOK(u)'
  BY <1>1, <1>2, <1>3, <1>4, <1>8 DEF WOK, MovedOK, Full, Sound
<1> QED BY <1>6, <1>7, <1>9, <1>10 DEF WOK

LEMMA ProbeKeeps ==
  ASSUME IInv, WInv, NEW u \in Uploaders, Probe(u)
  PROVE  WOK(u)'
<1>1. CASE End(u, "skipped") \/ End(u, "failed")
  BY <1>1, EndFields, OutOK
<1>2. CASE \E n \in Names :
             up' = [up EXCEPT ![u].pc = "start", ![u].name = n, ![u].pin = ver[u]]
  <2>1. up'[u].pc = "start" /\ up'[u].own = up[u].own /\ up'[u].pin = ver[u]
    BY <1>2, TypeFacts DEF Upload
  <2>2. ~up[u].own /\ ver' = ver /\ ver[u] \in Nat
    <3>1. up[u].pc = "probe" /\ ver' = ver
      BY DEF Probe, At, Env
    <3>2. Fresh(u)
      BY DEF WInv, WOK
    <3> QED BY <3>1, <3>2, TypeFacts DEF Fresh, Versions
  <2> QED BY <2>1, <2>2 DEF WOK, Fresh, Prefixed, OpenOK, WriteOK, VerifyOK, MovedOK
<1> QED BY <1>1, <1>2 DEF Probe

LEMMA StartKeeps ==
  ASSUME IInv, WInv, NEW u \in Uploaders, Start(u)
  PROVE  WOK(u)'
<1>1. PICK start \in {0, PartSize(u)} :
        /\ start > 0 => LocalUnchanged(u) /\ start <= Size[ver[u]]
        /\ up' = [up EXCEPT ![u].pc = "open", ![u].pos = start, ![u].bak = 0,
                            ![u].torn = FALSE, ![u].checked = FALSE]
  BY DEF Start
<1>2. /\ up'[u].pc = "open" /\ up'[u].pos = start /\ ~up'[u].torn /\ ~up'[u].checked
      /\ up'[u].own = up[u].own /\ up'[u].name = up[u].name /\ up'[u].pin = up[u].pin
  BY <1>1, TypeFacts DEF Upload
<1>3. UNCHANGED <<data, part, ver, server>> /\ Past(u)
  BY DEF Start, Dir, Env, At, Past
<1>4. Prefixed(u)' /\ up'[u].pin <= ver'[u]
  BY <1>2, <1>3, StillPrefixed
<1>5. OpenOK(u)'
  <2>1. ASSUME start > 0
        PROVE  /\ PartOf(u) # 0 /\ Len(data[PartOf(u)]) = start
               /\ ver[u] = up[u].pin /\ start <= Size[ver[u]]
    <3>1. start = PartSize(u) /\ start # 0
      BY <2>1
    <3>2. PartOf(u) # 0 /\ start = Len(data[PartOf(u)])
      BY <3>1 DEF PartSize, PartOf
    <3> QED BY <1>1, <2>1, <3>2 DEF LocalUnchanged
  <2>2. PartOf(u)' = PartOf(u)
    BY <1>2, <1>3 DEF PartOf
  <2> QED BY <1>2, <1>3, <2>1, <2>2 DEF OpenOK
<1>6. Fresh(u)'
  BY <1>2, <1>4 DEF Fresh
<1> QED BY <1>2, <1>4, <1>5, <1>6 DEF WOK, WriteOK, VerifyOK, MovedOK


LEMMA OpenKeeps ==
  ASSUME IInv, WInv, NEW u \in Uploaders, Open(u)
  PROVE  WOK(u)'
<1>1. WOK(u) /\ Past(u) /\ up[u].pc = "open" /\ ver' = ver /\ server' = server
  BY DEF WInv, Open, At, Past, Env
<1>2. /\ up[u].pos \in Nat /\ ver[u] \in Versions /\ Size[ver[u]] \in Nat
      /\ up[u].own \in BOOLEAN
  BY TypeFacts DEF Versions
<1>3. OpenPart(u) /\ up[u].pos # 0 =>
        PartOf(u) # 0 /\ part'[up[u].name] = PartOf(u)
        /\ data'[part'[up[u].name]] = data[PartOf(u)]
  BY <1>1, <1>2, OpenPartFacts DEF WOK, OpenOK
<1>4. OpenPart(u) /\ up[u].pos = 0 => data'[part'[up[u].name]] = <<>>
  BY OpenPartFacts
<1>5. OpenPart(u) => part'[up[u].name] # 0
  BY OpenPartFacts
<1>6. Of(<<>>, u, ver[u]) /\ Len(<<>>) = 0
  BY DEF Of
<1>7. CASE Fail(u)
  <2>1. up[u].own /\ part'[up[u].name] # 0 /\ ver[u] = up[u].pin
          => Of(data'[part'[up[u].name]], u, ver[u])
    <3>1. CASE OpenPart(u)
      BY <1>1, <1>3, <1>4, <1>6, <3>1 DEF WOK, Prefixed
    <3>2. CASE UNCHANGED <<data, part>>
      BY <1>1, <3>2 DEF WOK, Prefixed, PartOf
    <3>3. OpenPart(u) \/ UNCHANGED <<data, part>>
      BY DEF Open
    <3> QED BY <3>1, <3>2, <3>3
  <2>2. up'[u].name = up[u].name
    BY <1>7, TypeFacts DEF Fail, Upload
  <2>3. PartOf(u)' = part'[up[u].name]
    BY <2>2 DEF PartOf
  <2> QED BY <1>1, <1>7, <2>1, <2>3, FailOK
<1>8. CASE /\ OpenPart(u)
           /\ up' = [up EXCEPT ![u].pc = "write", ![u].own = @ \/ up[u].pos = 0,
                               ![u].handle = part'[up[u].name]]
  <2>1. /\ up'[u].pc = "write" /\ up'[u].own = (up[u].own \/ up[u].pos = 0)
        /\ up'[u].handle = part'[up[u].name] /\ up'[u].name = up[u].name
        /\ up'[u].pos = up[u].pos /\ up'[u].torn = up[u].torn
        /\ up'[u].checked = up[u].checked /\ up'[u].pin = up[u].pin
    BY <1>8, TypeFacts DEF Upload
  <2>2. PartOf(u)' = part'[up[u].name]
    BY <2>1 DEF PartOf
  <2>3. Len(data'[PartOf(u)']) = up[u].pos
    <3>1. CASE up[u].pos = 0
      BY <1>4, <1>6, <1>8, <2>2, <3>1
    <3>2. CASE up[u].pos # 0
      <4>1. Len(data[PartOf(u)]) = up[u].pos
        BY <1>1, <1>2, <3>2 DEF WOK, OpenOK
      <4> QED BY <1>3, <1>8, <2>2, <3>2, <4>1
    <3> QED BY <3>1, <3>2
  <2>4. ~up[u].torn => up[u].pos <= Size[ver[u]]
    BY <1>1, <1>2 DEF WOK, OpenOK
  <2>5. ASSUME up[u].own \/ up[u].pos = 0, ver[u] = up[u].pin \/ ~up[u].torn
        PROVE  Of(data'[PartOf(u)'], u, ver[u])
    <3>1. CASE up[u].pos = 0
      BY <1>4, <1>6, <1>8, <2>2, <3>1
    <3>2. CASE up[u].pos # 0
      <4>1. ver[u] = up[u].pin /\ PartOf(u) # 0
        BY <1>1, <1>2, <2>5, <3>2 DEF WOK, OpenOK
      <4>2. Of(data[PartOf(u)], u, ver[u])
        BY <1>1, <2>5, <3>2, <4>1 DEF WOK, Prefixed
      <4> QED BY <1>3, <1>8, <2>2, <3>2, <4>2
    <3> QED BY <3>1, <3>2
  <2>6. Fresh(u)' /\ Prefixed(u)'
    BY <1>1, <2>1, <2>5 DEF WOK, Fresh, Prefixed, Past
  <2>7. WriteOK(u)'
    BY <1>1, <1>5, <1>8, <2>1, <2>2, <2>3, <2>4, <2>5 DEF WriteOK
  <2> QED BY <2>1, <2>6, <2>7 DEF WOK, OpenOK, VerifyOK, MovedOK
<1> QED BY <1>7, <1>8 DEF Open

LEMMA WriteKeeps ==
  ASSUME IInv, WInv, NEW u \in Uploaders, Write(u)
  PROVE  WOK(u)'
<1> DEFINE c == data[PartOf(u)]
           b == [src |-> u, ver |-> ver[u]]
           d == Put(c, Len(c) + 1, b)
<1>1. /\ WOK(u) /\ Past(u) /\ up[u].pc = "write" /\ UNCHANGED <<part, ver, server>>
      /\ up[u].pos < Size[ver[u]]
  BY DEF WInv, Write, At, Past, Env
<1>2. /\ up[u].pos \in Nat /\ ver[u] \in Versions /\ Size[ver[u]] \in Nat
      /\ PartOf(u) \in Inodes \cup {0}
  BY TypeFacts DEF Versions
<1>3. up[u].handle = PartOf(u) /\ PartOf(u) # 0 /\ Len(c) = up[u].pos
  BY <1>1 DEF WOK, WriteOK
<1>4. c \in Seq(Block)
  BY <1>2, <1>3, TypeFacts DEF DirOK, Inodes
<1>5. WriteAt(u) => data' = [data EXCEPT ![up[u].handle] = d]
  BY <1>2, <1>3 DEF WriteAt
<1>6. WriteAt(u) => data'[PartOf(u)] = d
  <2> HIDE DEF d
  <2> QED BY <1>1, <1>5, HandleFacts
<1>7. Len(d) = up[u].pos + 1
  BY <1>3, <1>4, PutEnd
<1>8. Of(c, u, ver[u]) => Of(d, u, ver[u])
  BY <1>2, <1>4, PutOf
<1> HIDE DEF d, c
<1>9. CASE Fail(u)
  <2>1. UNCHANGED data \/ WriteAt(u)
    BY DEF Write
  <2>2. up[u].own /\ PartOf(u) # 0 /\ ver[u] = up[u].pin => Of(data'[PartOf(u)], u, ver[u])
    BY <1>1, <1>6, <1>8, <2>1 DEF WOK, Prefixed, c
  <2>3. up'[u].name = up[u].name
    BY <1>9, TypeFacts DEF Fail, Upload
  <2>4. PartOf(u)' = PartOf(u)
    BY <1>1, <2>3 DEF PartOf
  <2> QED BY <1>1, <1>9, <2>2, <2>4, FailOK
<1>10. CASE WriteAt(u) /\ up' = [up EXCEPT ![u].pos = @ + 1]
  <2>1. /\ up'[u].pc = up[u].pc /\ up'[u].own = up[u].own
        /\ up'[u].handle = up[u].handle /\ up'[u].name = up[u].name
        /\ up'[u].pos = up[u].pos + 1 /\ up'[u].torn = up[u].torn
        /\ up'[u].checked = up[u].checked /\ up'[u].pin = up[u].pin
    BY <1>10, TypeFacts DEF Upload
  <2>2. PartOf(u)' = PartOf(u)
    BY <1>1, <2>1 DEF PartOf
  <2>3. Fresh(u)' /\ Prefixed(u)'
    BY <1>1, <1>6, <1>8, <1>10, <2>1, <2>2 DEF WOK, Fresh, Prefixed, Past, c
  <2>4. up[u].pos + 1 <= Size[ver[u]]
    BY <1>1, <1>2
  <2>5. WriteOK(u)'
    BY <1>1, <1>3, <1>6, <1>7, <1>8, <1>10, <2>1, <2>2, <2>4 DEF WOK, WriteOK, c
  <2> QED BY <1>1, <2>1, <2>3, <2>5 DEF WOK, OpenOK, VerifyOK, MovedOK
<1> QED BY <1>9, <1>10 DEF Write

LEMMA CloseKeeps ==
  ASSUME IInv, WInv, NEW u \in Uploaders, Close(u)
  PROVE  WOK(u)'
<1> DEFINE c == data[PartOf(u)]
<1>1. /\ WOK(u) /\ Past(u) /\ up[u].pc = "write" /\ UNCHANGED <<part, ver, server>>
      /\ up[u].pos >= Size[ver[u]]
  BY DEF WInv, Close, At, Past, Env
<1>2. /\ up[u].pos \in Nat /\ ver[u] \in Versions /\ Size[ver[u]] \in Nat
      /\ PartOf(u) \in Inodes \cup {0}
  BY TypeFacts DEF Versions
<1>3. up[u].handle = PartOf(u) /\ PartOf(u) # 0 /\ Len(c) = up[u].pos
  BY <1>1 DEF WOK, WriteOK
<1>4. c \in Seq(Block)
  BY <1>2, <1>3, TypeFacts DEF DirOK, Inodes
<1>5. CASE Fail(u) /\ UNCHANGED data
  BY <1>1, <1>5, StillPrefixed, FailOK, TypeFacts DEF Fail, Upload
<1>6. ASSUME Go(u, "verify"), NEW k \in 0..Len(c), data'[PartOf(u)] = SubSeq(c, 1, k),
             k = Len(c) \/ server.truncates
      PROVE  WOK(u)'
  <2>1. /\ up'[u].pc = "verify" /\ up'[u].name = up[u].name /\ up'[u].pos = up[u].pos
        /\ up'[u].pin = up[u].pin /\ up'[u].handle = up[u].handle
        /\ up'[u].own = up[u].own /\ up'[u].torn = up[u].torn
        /\ up'[u].checked = up[u].checked
    BY <1>6, GoFields
  <2>2. PartOf(u)' = PartOf(u)
    BY <1>1, <2>1 DEF PartOf
  <2>3. Of(c, u, ver[u]) => Of(data'[PartOf(u)], u, ver[u])
    BY <1>2, <1>4, <1>6, SubOf
  <2>4. Len(data'[PartOf(u)]) = k /\ k \in Nat /\ k <= up[u].pos
    <3>1. Len(SubSeq(c, 1, k)) = k
      BY <1>4
    <3> QED BY <1>3, <1>6, <3>1
  <2> HIDE DEF c
  <2>5. Fresh(u)' /\ Prefixed(u)'
    BY <1>1, <2>1, <2>2, <2>3 DEF WOK, Fresh, Prefixed, Past, c
  <2>6. ASSUME ~up[u].torn, up[u].own
        PROVE  up[u].pos = Size[ver[u]] /\ Of(c, u, ver[u])
    BY <1>1, <1>2, <2>6 DEF WOK, WriteOK, c
  <2>7. server' = server /\ (~server.truncates => k = up[u].pos)
    BY <1>1, <1>3, <1>6
  <2>8. ASSUME ~up[u].torn, up[u].own
        PROVE  /\ up[u].pos = Size[ver[u]] /\ Of(data'[PartOf(u)], u, ver[u])
               /\ Len(data'[PartOf(u)]) <= Size[ver[u]]
               /\ ~server.truncates => Len(data'[PartOf(u)]) = Size[ver[u]]
    BY <1>2, <2>3, <2>4, <2>6, <2>7, <2>8
  <2>9. VerifyOK(u)'
    <3>1. ASSUME ~up[u].torn, up[u].own
          PROVE  \E v \in Versions : up[u].pos = Size[v] /\ Nearly(data[PartOf(u)], u, v)'
      <4>1. server' = server /\ PartOf(u)' = PartOf(u)
        BY <1>1, <2>2
      <4> QED BY <1>2, <2>8, <3>1, <4>1 DEF Nearly
    <3> QED BY <1>3, <2>1, <2>2, <3>1 DEF VerifyOK
  <2> QED BY <2>1, <2>5, <2>9 DEF WOK, OpenOK, WriteOK, MovedOK
<1>7. CASE Go(u, "verify") /\ UNCHANGED data
  <2>1. SubSeq(c, 1, Len(c)) = c /\ Len(c) \in 0..Len(c)
    BY <1>4
  <2>2. data'[PartOf(u)] = c
    BY <1>7
  <2> QED BY <1>6, <1>7, <2>1, <2>2
<1>8. CASE /\ server.truncates /\ Go(u, "verify")
           /\ \E k \in 0..Len(data[up[u].handle]) :
                data' = [data EXCEPT ![up[u].handle] = SubSeq(@, 1, k)]
  <2>1. PICK k \in 0..Len(c) : data' = [data EXCEPT ![up[u].handle] = SubSeq(c, 1, k)]
    BY <1>2, <1>3, <1>8
  <2> DEFINE d == SubSeq(c, 1, k)
  <2>2. data'[PartOf(u)] = d
    <3>1. data' = [data EXCEPT ![up[u].handle] = d]
      BY <2>1
    <3> HIDE DEF d
    <3> QED BY <1>1, <3>1, HandleFacts
  <2> QED BY <1>6, <1>8, <2>2
<1> QED BY <1>5, <1>7, <1>8 DEF Close


LEMMA VerifyKeeps ==
  ASSUME IInv, WInv, NEW u \in Uploaders, Verify(u)
  PROVE  WOK(u)'
<1>1. /\ WOK(u) /\ Past(u) /\ up[u].pc = "verify"
      /\ UNCHANGED <<data, part, ver, server>>
  BY DEF WInv, Verify, At, Past, Dir, Env
<1>2. up[u].handle = PartOf(u) /\ PartOf(u) # 0 /\ PartOf(u) \in Inodes /\ ~up[u].checked
  BY <1>1, TypeFacts DEF WOK, VerifyOK, Fresh
<1>3. CASE Fail(u)
  BY <1>1, <1>3, StillPrefixed, FailOK, TypeFacts DEF Fail, Upload
<1>4. ASSUME NEW ck, up'[u].pc = "backup", up'[u].name = up[u].name,
             up'[u].pin = up[u].pin, up'[u].handle = up[u].handle,
             up'[u].own = up[u].own, up'[u].torn = up[u].torn, up'[u].checked = ck,
             ck => LengthOk(u)
      PROVE  WOK(u)'
  <2>1. PartOf(u)' = PartOf(u)
    BY <1>1, <1>4 DEF PartOf
  <2>2. Fresh(u)' /\ Prefixed(u)'
    BY <1>1, <1>4, StillPrefixed DEF Fresh
  <2>3. ASSUME ~up[u].torn, up[u].own, ck \/ ~server.truncates
        PROVE  \E v \in Versions : data[PartOf(u)] = Full(u, v)
    <3>1. PICK v \in Versions : up[u].pos = Size[v] /\ Nearly(data[PartOf(u)], u, v)
      BY <1>1, <2>3 DEF WOK, VerifyOK
    <3>2. Len(data[PartOf(u)]) = Size[v]
      BY <1>2, <1>4, <2>3, <3>1 DEF Nearly, LengthOk, PartSize, PartOf
    <3>3. data[PartOf(u)] \in Seq(Block) /\ Of(data[PartOf(u)], u, v)
      BY <1>2, <3>1, TypeFacts DEF DirOK, Inodes, Nearly
    <3> QED BY <3>2, <3>3, FullOf
  <2>4. ASSUME Sound(u)'
        PROVE  \E v \in Versions : data'[up'[u].handle] = Full(u, v)
    <3>1. ~up[u].torn /\ up[u].own /\ (ck \/ ~server.truncates)
      BY <1>1, <1>4, <2>4 DEF Sound
    <3> QED BY <1>1, <1>2, <1>4, <2>3, <3>1
  <2>5. MovedOK(u)'
    BY <1>2, <1>4, <2>1, <2>4 DEF MovedOK, Full
  <2> QED BY <1>4, <2>2, <2>5 DEF WOK, OpenOK, WriteOK, VerifyOK
<1>5. CASE LengthOk(u) /\ up' = [up EXCEPT ![u].pc = "backup", ![u].checked = TRUE]
  <2>1. /\ up'[u].pc = "backup" /\ up'[u].name = up[u].name
        /\ up'[u].pin = up[u].pin /\ up'[u].handle = up[u].handle
        /\ up'[u].own = up[u].own /\ up'[u].torn = up[u].torn /\ up'[u].checked
    BY <1>5, TypeFacts DEF Upload
  <2> QED BY <1>4, <1>5, <2>1
<1>6. CASE Go(u, "backup")
  BY <1>2, <1>4, <1>6, GoFields
<1> QED BY <1>3, <1>5, <1>6 DEF Verify

LEMMA BackupKeeps ==
  ASSUME IInv, WInv, NEW u \in Uploaders, Backup(u)
  PROVE  WOK(u)'
<1>1. /\ WOK(u) /\ Past(u) /\ up[u].pc = "backup"
      /\ UNCHANGED <<data, part, ver, server>>
  BY DEF WInv, Backup, At, Past, Env
<1>2. CASE Fail(u)
  BY <1>1, <1>2, StillPrefixed, FailOK, TypeFacts DEF Fail, Upload
<1>3. CASE Go(u, "swap") \/ up' = [up EXCEPT ![u].pc = "swap", ![u].bak = file[up[u].name]]
  <2>1. /\ up'[u].pc = "swap" /\ up'[u].name = up[u].name
        /\ up'[u].pin = up[u].pin /\ up'[u].handle = up[u].handle
        /\ up'[u].own = up[u].own /\ up'[u].torn = up[u].torn
        /\ up'[u].checked = up[u].checked
    <3>1. CASE Go(u, "swap")
      BY <3>1, GoFields
    <3>2. CASE up' = [up EXCEPT ![u].pc = "swap", ![u].bak = file[up[u].name]]
      BY <3>2, TypeFacts DEF Upload
    <3> QED BY <1>3, <3>1, <3>2
  <2>2. Prefixed(u)' /\ Fresh(u)'
    BY <1>1, <2>1, StillPrefixed DEF Fresh
  <2>3. PartOf(u)' = PartOf(u) /\ Sound(u)' = Sound(u)
    BY <1>1, <2>1 DEF PartOf, Sound
  <2>4. MovedOK(u)'
    BY <1>1, <2>1, <2>3 DEF WOK, MovedOK, Full
  <2> QED BY <2>1, <2>2, <2>4 DEF WOK, OpenOK, WriteOK, VerifyOK
<1> QED BY <1>2, <1>3 DEF Backup

LEMMA SwapKeeps ==
  ASSUME IInv, WInv, NEW u \in Uploaders, Swap(u)
  PROVE  WOK(u)'
<1> DEFINE n == up[u].name
<1>1. /\ WOK(u) /\ Past(u) /\ up[u].pc = "swap" /\ UNCHANGED <<data, ver, server>>
  BY DEF WInv, Swap, At, Past, Env
<1>2. /\ up[u].handle = PartOf(u) /\ PartOf(u) # 0 /\ PartOf(u) \in Inodes /\ n \in Names
      /\ part \in [Names -> Inodes \cup {0}] /\ Apart
  BY <1>1, TypeFacts DEF WOK, MovedOK, DirOK
<1>3. MoveIn(n) => part'[n] = 0 /\ \A m \in Names : part'[m] # up[u].handle
  <2>1. ASSUME MoveIn(n)
        PROVE  part'[n] = 0 /\ \A m \in Names : m # n => part'[m] = part[m]
    BY <1>2, <2>1 DEF MoveIn
  <2>2. \A m \in Names : m # n => part[m] # part[n]
    BY <1>2 DEF Apart, PartOf
  <2> QED BY <1>2, <2>1, <2>2 DEF PartOf
<1>4. MoveIn(n) \/ part' = part
  BY DEF Swap
<1>5. ASSUME NEW pc, Go(u, pc)
      PROVE  Prefixed(u)' /\ up'[u].pin <= ver'[u] /\ Sound(u)' = Sound(u)
  <2>1. /\ up'[u].pc = pc /\ up'[u].name = up[u].name /\ up'[u].pin = up[u].pin
        /\ up'[u].own = up[u].own /\ up'[u].torn = up[u].torn
        /\ up'[u].checked = up[u].checked
    BY <1>5, GoFields
  <2>2. up'[u].pin <= ver'[u] /\ Sound(u)' = Sound(u)
    BY <1>1, <2>1 DEF WOK, Fresh, Sound
  <2>3. CASE MoveIn(n)
    BY <1>3, <2>1, <2>2, <2>3 DEF Prefixed, PartOf
  <2>4. CASE part' = part
    BY <1>1, <2>1, <2>2, <2>4, StillPrefixed
  <2> QED BY <1>4, <2>2, <2>3, <2>4
<1>6. CASE MoveIn(n) /\ Go(u, "clean")
  <2>1. up'[u].pc = "clean" /\ up'[u].handle = up[u].handle /\ Inodes' = Inodes
    BY <1>1, <1>6, GoFields DEF Inodes
  <2>2. Sound(u) => \E v \in Versions : data[up[u].handle] = Full(u, v)
    BY <1>1 DEF WOK, MovedOK
  <2>3. MovedOK(u)'
    BY <1>1, <1>2, <1>3, <1>5, <1>6, <2>1, <2>2 DEF MovedOK, Full
  <2> QED BY <1>5, <1>6, <2>1, <2>3 DEF WOK, Fresh, OpenOK, WriteOK, VerifyOK
<1>7. CASE Go(u, "restore")
  <2>1. up'[u].pc = "restore"
    BY <1>7, GoFields
  <2> QED BY <1>5, <1>7, <2>1 DEF WOK, Fresh, OpenOK, WriteOK, VerifyOK, MovedOK
<1> QED BY <1>6, <1>7 DEF Swap

LEMMA RestoreKeeps ==
  ASSUME IInv, WInv, NEW u \in Uploaders, Restore(u)
  PROVE  WOK(u)'
<1>1. Past(u) /\ Fail(u) /\ UNCHANGED <<data, part, ver>>
  BY DEF Restore, At, Past, Env
<1> QED BY <1>1, StillPrefixed, FailOK, TypeFacts DEF Fail, Upload

LEMMA CleanKeeps ==
  ASSUME IInv, WInv, NEW u \in Uploaders, Clean(u)
  PROVE  WOK(u)'
<1>1. /\ WOK(u) /\ up[u].pc = "clean" /\ Go(u, "done")
      /\ UNCHANGED <<data, part, ver, server>>
  BY DEF WInv, Clean, At, Env
<1>2. /\ up'[u].pc = "done" /\ up'[u].handle = up[u].handle
      /\ up'[u].own = up[u].own /\ up'[u].torn = up[u].torn
      /\ up'[u].checked = up[u].checked
  BY <1>1, GoFields
<1>3. Inodes' = Inodes /\ Sound(u)' = Sound(u)
  BY <1>1, <1>2 DEF Inodes, Sound
<1>4. MovedOK(u)'
  BY <1>1, <1>2, <1>3 DEF WOK, MovedOK, Full
<1> QED BY <1>2, <1>4 DEF WOK, Fresh, Prefixed, OpenOK, WriteOK, VerifyOK, Past

LEMMA WInvInit == Init => WInv
<1> SUFFICES ASSUME Init, NEW u \in Uploaders PROVE WOK(u)
  BY DEF WInv
<1>1. up[u].pc = "idle" /\ ~up[u].own
  BY DEF Init, Idle
<1> QED BY <1>1 DEF WOK, Fresh, Prefixed, OpenOK, WriteOK, VerifyOK, MovedOK, Past

LEMMA WInvStep == IInv /\ WInv /\ Alone /\ [Next]_vars => WInv'
<1> SUFFICES ASSUME IInv, WInv, Alone, [Next]_vars PROVE WInv'
  OBVIOUS
<1>1. CASE Next
  <2>1. PICK u \in Uploaders : Begin(u) \/ Cancel(u) \/ Drop(u) \/ Edit(u) \/ Work(u)
    BY <1>1 DEF Next
  <2>2. \A x \in Uploaders : x # u => WOK(x)'
    BY <2>1, EveryStepMine, OthersKeep
  <2>3. WOK(u)'
    BY <2>1, OutSteps, CancelKeeps, EditKeeps, ProbeKeeps, StartKeeps, OpenKeeps,
       WriteKeeps, CloseKeeps, VerifyKeeps, BackupKeeps, SwapKeeps, RestoreKeeps,
       CleanKeeps DEF Work
  <2> QED BY <2>2, <2>3 DEF WInv
<1>2. CASE UNCHANGED vars
  <2>1. UNCHANGED <<data, part, up, ver, server>>
    BY <1>2 DEF vars
  <2> SUFFICES ASSUME NEW u \in Uploaders PROVE WOK(u)'
    BY DEF WInv
  <2>2. /\ WOK(u) /\ Past(u)' = Past(u) /\ Sound(u)' = Sound(u) /\ PartOf(u)' = PartOf(u)
        /\ Inodes' = Inodes
    BY <2>1 DEF WInv, Past, Sound, PartOf, Inodes
  <2>3. Fresh(u)' /\ Prefixed(u)' /\ OpenOK(u)'
    BY <2>1, <2>2 DEF WOK, Fresh, Prefixed, OpenOK
  <2>4. WriteOK(u)' /\ VerifyOK(u)'
    BY <2>1, <2>2 DEF WOK, WriteOK, VerifyOK, Nearly
  <2>5. MovedOK(u)'
    BY <2>1, <2>2 DEF WOK, MovedOK, Full
  <2> QED BY <2>3, <2>4, <2>5 DEF WOK
<1> QED BY <1>1, <1>2

\* An upload that is told it has committed has put a complete version of its
\* file there, as CommitComplete states it, as long as no two uploads are at
\* work on one name: retries, resumptions, edits of the local file and servers
\* that drop the tail included (upload_file_once).
THEOREM CommitsComplete == Spec /\ []Alone => []CommitComplete
<1>1. WInv => CommitComplete
  <2> SUFFICES ASSUME WInv, NEW u \in Uploaders, Committed(u), Sound(u)
               PROVE  \E v \in Versions : data[up[u].handle] = Full(u, v)
    BY DEF CommitComplete, Sound
  <2>1. MovedOK(u)
    BY DEF WInv, WOK
  <2> QED BY <2>1 DEF MovedOK, Committed
<1>2. Spec => []IInv
  BY Invariance
<1>3. Init => WInv
  BY WInvInit
<1>4. IInv /\ WInv /\ Alone /\ [Next]_vars => WInv'
  BY WInvStep
<1> QED BY <1>1, <1>2, <1>3, <1>4, PTL DEF Spec

\* One upload is always alone on its name, so that it needs no hypothesis: every
\* commit is complete, for every number of names, versions, retries and runs and
\* every kind of server.
THEOREM SingleCommitComplete ==
  ASSUME NEW u0 \in Uploaders, Uploaders = {u0}
  PROVE  Spec => []CommitComplete
<1>1. Alone
  BY DEF Alone
<1> QED BY <1>1, CommitsComplete, PTL


-----------------------------------------------------------------------------
(* The refinement of AtomicReplace, for one upload at a time of a file that  *)
(* nobody edits, on servers that keep what they are sent.                    *)

Solo(u) == Uploaders = {u} /\ Len(Size) = 1 /\ \A s \in Servers : ~s.truncates

\* The contents that a reader may see.
Whole(u) == {Full(u, 1), <<Hole>>}

\* Every part, whichever run has left it, is a prefix of the file: a retry may
\* resume from a part that it has not truncated itself.
PartsOurs(u) == \A n \in Names : part[n] # 0 => Of(data[part[n]], u, 1)

\* Files and backups are whole, and a name that has a file has had one
\* installed.
FilesWhole(u) ==
    /\ \A n \in Names : file[n] # 0 => data[file[n]] \in Whole(u) /\ cur[n] # 0
    /\ \A n \in Names : \A i \in baks[n] : data[i] \in Whole(u)

\* What the upload knows at its gate, before the swap and after it.
Placed(u) ==
    /\ ~up[u].torn
    /\ up[u].pc = "verify" => Len(data[PartOf(u)]) = Size[1]
    /\ up[u].pc \in {"backup", "swap"} => data[PartOf(u)] = Full(u, 1)
    /\ up[u].pc = "clean" => /\ cur[up[u].name] # 0
                             /\ data[cur[up[u].name]] = Full(u, 1)

AInv(u) == PartsOurs(u) /\ FilesWhole(u) /\ Placed(u)


LEMMA SoloFacts ==
  ASSUME IInv, NEW u \in Uploaders, Solo(u)
  PROVE  /\ Versions = {1} /\ Size[1] \in Nat /\ ver[u] = 1 /\ up[u].pin = 1
         /\ ~server.truncates /\ Alone /\ \A x \in Uploaders : x = u
<1>1. Versions = {1}
  BY DEF Versions, Solo
<1>2. Size[1] \in Nat
  BY DEF Solo
<1>3. server \in Servers
  BY TypeFacts DEF EnvOK
<1> QED BY <1>1, <1>2, <1>3, TypeFacts DEF Solo, Alone

\* A step writes at most the part of its upload, which no file, no backup and
\* no other part is.
LEMMA OnlyPart ==
  ASSUME IInv, NEW u \in Uploaders, Mine(u)
  PROVE  /\ \A n \in Names : file[n] # 0 => data'[file[n]] = data[file[n]]
         /\ \A n \in Names : \A i \in baks[n] : data'[i] = data[i]
         /\ \A n \in Names : cur[n] # 0 => data'[cur[n]] = data[cur[n]]
         /\ \A n \in Names : part[n] # 0 /\ n # up[u].name
              => part'[n] = part[n] /\ data'[part[n]] = data[part[n]]
<1>1. /\ DirOK /\ Apart /\ up[u].name \in Names /\ PartOf(u) = part[up[u].name]
      /\ NothingLost /\ \A i \in Inodes : i # PartOf(u) => data'[i] = data[i]
      /\ \A n \in Names : n # up[u].name => part'[n] = part[n]
      /\ 0 \notin Inodes
  BY TypeFacts, InodeNat DEF IInv, Mine, PartOf
<1>2. \A n \in Names : file[n] # 0 => file[n] \in Inodes /\ file[n] # PartOf(u)
  BY <1>1 DEF DirOK, Apart
<1>3. \A n \in Names : \A i \in baks[n] : i \in Inodes /\ i # PartOf(u)
  BY <1>1 DEF DirOK, Apart
<1>4. \A n \in Names : cur[n] # 0 => cur[n] \in Inodes /\ cur[n] # PartOf(u)
  BY <1>1, <1>2, <1>3 DEF NothingLost
<1>5. \A n \in Names : part[n] # 0 /\ n # up[u].name
        => part[n] \in Inodes /\ part[n] # PartOf(u)
  BY <1>1 DEF DirOK, Apart
<1> QED BY <1>1, <1>2, <1>3, <1>4, <1>5

\* What a name shows changes only with cur.
LEMMA ShownKept ==
  ASSUME IInv, NEW u \in Uploaders, Mine(u), UNCHANGED cur
  PROVE  Shown' = Shown
  BY OnlyPart DEF Shown

LEMMA PartsKept ==
  ASSUME IInv, NEW u \in Uploaders, PartsOurs(u), Mine(u),
         part'[up[u].name] # 0 => Of(data'[part'[up[u].name]], u, 1)
  PROVE  PartsOurs(u)'
<1> SUFFICES ASSUME NEW n \in Names, part'[n] # 0 PROVE Of(data'[part'[n]], u, 1)
  BY DEF PartsOurs
<1>1. CASE n = up[u].name
  BY <1>1
<1>2. CASE n # up[u].name
  <2>1. part'[n] = part[n]
    BY <1>2 DEF Mine
  <2>2. data'[part[n]] = data[part[n]]
    BY <1>2, <2>1, OnlyPart
  <2> QED BY <2>1, <2>2 DEF PartsOurs
<1> QED BY <1>1, <1>2

LEMMA FilesKept ==
  ASSUME IInv, NEW u \in Uploaders, FilesWhole(u), Mine(u), UNCHANGED <<file, baks, cur>>
  PROVE  FilesWhole(u)'
<1>1. Whole(u)' = Whole(u)
  BY DEF Whole, Full, Hole
<1> QED BY <1>1, OnlyPart DEF FilesWhole

\* A part that keeps its content stays ours.
LEMMA PartsSame ==
  ASSUME IInv, NEW u \in Uploaders, PartsOurs(u), UNCHANGED <<data, part>>
  PROVE  PartsOurs(u)'
  BY DEF PartsOurs

\* An attempt or an upload that ends claims nothing.
LEMMA OutPlaced ==
  ASSUME NEW u \in Uploaders, ~up'[u].torn,
         up'[u].pc \notin {"verify", "backup", "swap", "clean"}
  PROVE  Placed(u)'
  BY DEF Placed

LEMMA FailPlaced ==
  ASSUME IInv, NEW u \in Uploaders, Placed(u), Fail(u)
  PROVE  Placed(u)'
<1>1. up'[u].pc \in {"start", "giveup"} /\ up'[u].torn = up[u].torn
  BY TypeFacts DEF Fail, Upload
<1> QED BY <1>1, OutPlaced DEF Placed

LEMMA EndPlaced ==
  ASSUME IInv, NEW u \in Uploaders, NEW pc \in {"skipped", "failed", "dropped"}, End(u, pc)
  PROVE  Placed(u)'
<1>1. up'[u].pc = pc /\ ~up'[u].torn
  BY TypeFacts DEF End, Idle
<1> QED BY <1>1, OutPlaced

\* Steps that leave the directory alone.
LEMMA StillSolo ==
  ASSUME IInv, WInv, NEW u \in Uploaders, Solo(u), AInv(u),
         Begin(u) \/ Cancel(u) \/ Drop(u) \/ Edit(u) \/ Probe(u) \/ Start(u) \/ Verify(u)
  PROVE  AInv(u)'
<1>1. UNCHANGED Dir /\ Mine(u)
  BY EveryStepMine DEF Begin, Cancel, Drop, Edit, Probe, Start, Verify, Work, Dir
<1>2. PartsOurs(u)' /\ FilesWhole(u)'
  BY <1>1, PartsSame, FilesKept DEF AInv, Dir
<1>3. /\ up[u] \in Upload /\ up \in [Uploaders -> Upload] /\ Placed(u)
      /\ ~up[u].torn
  BY TypeFacts DEF AInv, Placed
<1>4. CASE Begin(u)
  <2>1. up'[u].pc = "probe" /\ ~up'[u].torn
    BY <1>3, <1>4 DEF Begin, Idle
  <2> QED BY <1>2, <2>1, OutPlaced DEF AInv
<1>5. CASE Cancel(u)
  <2>1. up'[u].pc = up[u].pc /\ up'[u].torn = up[u].torn /\ up'[u].name = up[u].name
    BY <1>3, <1>5 DEF Cancel, Upload
  <2>2. Placed(u)'
    BY <1>1, <1>3, <2>1 DEF Placed, PartOf, Dir, Full
  <2> QED BY <1>2, <2>2 DEF AInv
<1>6. CASE Drop(u)
  BY <1>2, <1>6, EndPlaced DEF Drop, AInv
<1>7. CASE Edit(u)
  <2>1. ver[u] = 1 /\ Versions = {1}
    BY SoloFacts
  <2>2. ver[u] + 1 \in {1}
    BY <1>7, <2>1 DEF Edit
  <2> QED BY <2>1, <2>2
<1>8. CASE Probe(u)
  <2>1. CASE End(u, "skipped") \/ End(u, "failed")
    BY <1>2, <2>1, EndPlaced DEF AInv
  <2>2. ASSUME NEW n \in Names,
               up' = [up EXCEPT ![u].pc = "start", ![u].name = n, ![u].pin = ver[u]]
        PROVE  AInv(u)'
    <3>1. up'[u].pc = "start" /\ up'[u].torn = up[u].torn
      BY <1>3, <2>2 DEF Upload
    <3> QED BY <1>2, <1>3, <3>1, OutPlaced DEF AInv
  <2> QED BY <1>8, <2>1, <2>2 DEF Probe
<1>9. CASE Start(u)
  <2>1. PICK start : up' = [up EXCEPT ![u].pc = "open", ![u].pos = start, ![u].bak = 0,
                                      ![u].torn = FALSE, ![u].checked = FALSE]
    BY <1>9 DEF Start
  <2>2. up'[u].pc = "open" /\ ~up'[u].torn
    BY <1>3, <2>1 DEF Upload
  <2> QED BY <1>2, <2>2, OutPlaced DEF AInv
<1>10. CASE Verify(u)
  <2>1. CASE Fail(u)
    BY <1>2, <1>3, <2>1, FailPlaced DEF AInv
  <2>2. up[u].pc = "verify" /\ PartOf(u) # 0 /\ PartOf(u) \in Inodes
    BY <1>10, TypeFacts DEF Verify, At, WInv, WOK, VerifyOK
  <2>3. data[PartOf(u)] = Full(u, 1)
    <3>1. data[PartOf(u)] \in Seq(Block) /\ Len(data[PartOf(u)]) = Size[1]
      BY <1>3, <2>2, TypeFacts DEF DirOK, Inodes, Placed
    <3>2. Of(data[PartOf(u)], u, 1) /\ 1 \in Versions
      BY <2>2, TypeFacts, SoloFacts DEF AInv, PartsOurs, PartOf
    <3> QED BY <3>1, <3>2, FullOf
  <2>4. CASE ~Fail(u)
    <3>1. \/ up' = [up EXCEPT ![u].pc = "backup", ![u].checked = TRUE]
          \/ Go(u, "backup")
      BY <1>10, <2>4 DEF Verify
    <3>2. up'[u].pc = "backup" /\ up'[u].torn = up[u].torn /\ up'[u].name = up[u].name
      BY <1>3, <3>1, GoFields DEF Upload
    <3>3. Placed(u)'
      BY <1>1, <1>3, <2>3, <3>2 DEF Placed, PartOf, Dir, Full
    <3> QED BY <1>2, <3>3 DEF AInv
  <2> QED BY <2>1, <2>4
<1> QED BY <1>4, <1>5, <1>6, <1>7, <1>8, <1>9, <1>10

LEMMA OpenSolo ==
  ASSUME IInv, WInv, NEW u \in Uploaders, Solo(u), AInv(u), Open(u)
  PROVE  AInv(u)'
<1>1. /\ UNCHANGED <<file, baks, cur>> /\ Mine(u) /\ PartsOurs(u) /\ FilesWhole(u)
      /\ Placed(u) /\ up[u].name \in Names
  BY EveryStepMine, TypeFacts DEF Open, Work, AInv
<1>2. FilesWhole(u)'
  BY <1>1, FilesKept
<1>3. PartsOurs(u)'
  <2>1. CASE UNCHANGED <<data, part>>
    BY <1>1, <2>1, PartsSame
  <2>2. CASE OpenPart(u)
    <3>1. part'[up[u].name] # 0 => Of(data'[part'[up[u].name]], u, 1)
      <4>1. DOMAIN <<>> = {}
        OBVIOUS
      <4>2. DirOK /\ PartOf(u) \in Inodes \cup {0}
        BY TypeFacts
      <4>3. CASE PartOf(u) = 0
        <5>1. data' = Append(data, <<>>) /\ part'[up[u].name] = Len(data) + 1
          BY <1>1, <2>2, <4>2, <4>3 DEF OpenPart, PartOf, DirOK
        <5>2. data'[Len(data) + 1] = <<>>
          BY <4>2, <5>1 DEF DirOK
        <5> QED BY <4>1, <5>1, <5>2 DEF Of
      <4>4. CASE PartOf(u) # 0 /\ up[u].pos = 0
        <5>1. data' = [data EXCEPT ![PartOf(u)] = <<>>] /\ part' = part
          BY <2>2, <4>4 DEF OpenPart, PartOf
        <5>2. data'[PartOf(u)] = <<>>
          BY <4>2, <4>4, <5>1 DEF Inodes
        <5> QED BY <4>1, <5>1, <5>2 DEF Of, PartOf
      <4>5. CASE PartOf(u) # 0 /\ up[u].pos # 0
        <5>1. data' = data /\ part' = part
          BY <2>2, <4>5 DEF OpenPart, PartOf
        <5> QED BY <1>1, <5>1 DEF PartsOurs
      <4> QED BY <4>3, <4>4, <4>5
    <3> QED BY <1>1, <3>1, PartsKept
  <2> QED BY <2>1, <2>2 DEF Open
<1>4. Placed(u)'
  <2>1. CASE Fail(u)
    BY <1>1, <2>1, FailPlaced
  <2>2. CASE up' = [up EXCEPT ![u].pc = "write", ![u].own = @ \/ up[u].pos = 0,
                              ![u].handle = part'[up[u].name]]
    <3>1. up'[u].pc = "write" /\ up'[u].torn = up[u].torn
      BY <2>2, TypeFacts DEF Upload
    <3> QED BY <1>1, <3>1, OutPlaced DEF Placed
  <2> QED BY <2>1, <2>2 DEF Open
<1> QED BY <1>2, <1>3, <1>4 DEF AInv

LEMMA WriteSolo ==
  ASSUME IInv, WInv, NEW u \in Uploaders, Solo(u), AInv(u), Write(u)
  PROVE  AInv(u)'
<1> DEFINE c == data[PartOf(u)]
           d == Put(c, Len(c) + 1, [src |-> u, ver |-> 1])
<1>1. /\ UNCHANGED <<file, part, baks, cur>> /\ Mine(u) /\ PartsOurs(u) /\ FilesWhole(u)
      /\ Placed(u) /\ up[u].name \in Names /\ up[u].pc = "write"
  BY EveryStepMine, TypeFacts DEF Write, At, Work, AInv
<1>2. FilesWhole(u)'
  BY <1>1, FilesKept
<1>3. /\ up[u].handle = PartOf(u) /\ PartOf(u) # 0 /\ Len(c) = up[u].pos
      /\ PartOf(u) \in Inodes /\ ver[u] = 1 /\ 1 \in Versions
  BY <1>1, TypeFacts, SoloFacts DEF WInv, WOK, WriteOK
<1>4. c \in Seq(Block) /\ Of(c, u, 1)
  BY <1>1, <1>3, TypeFacts DEF DirOK, Inodes, PartsOurs, PartOf
<1>5. Of(d, u, 1)
  BY <1>3, <1>4, PutOf
<1>6. WriteAt(u) => data' = [data EXCEPT ![up[u].handle] = d]
  BY <1>3 DEF WriteAt
<1> HIDE DEF c, d
<1>7. WriteAt(u) => data'[PartOf(u)] = d
  BY <1>1, <1>6, HandleFacts
<1>8. PartsOurs(u)'
  <2>1. CASE WriteAt(u)
    BY <1>1, <1>5, <1>7, <2>1, PartsKept DEF PartOf
  <2>2. CASE UNCHANGED data
    BY <1>1, <2>2, PartsSame
  <2> QED BY <2>1, <2>2 DEF Write
<1>9. Placed(u)'
  <2>1. CASE Fail(u)
    BY <1>1, <2>1, FailPlaced
  <2>2. CASE up' = [up EXCEPT ![u].pos = @ + 1]
    <3>1. up'[u].pc = "write" /\ up'[u].torn = up[u].torn
      BY <1>1, <2>2, TypeFacts DEF Upload
    <3> QED BY <1>1, <3>1, OutPlaced DEF Placed
  <2> QED BY <2>1, <2>2 DEF Write
<1> QED BY <1>2, <1>8, <1>9 DEF AInv

LEMMA CloseSolo ==
  ASSUME IInv, WInv, NEW u \in Uploaders, Solo(u), AInv(u), Close(u)
  PROVE  AInv(u)'
<1>1. /\ UNCHANGED <<data, file, part, baks, cur>> /\ Mine(u) /\ PartsOurs(u)
      /\ FilesWhole(u) /\ Placed(u) /\ up[u].pc = "write" /\ up[u].pos >= Size[ver[u]]
      /\ Fail(u) \/ Go(u, "verify")
  BY EveryStepMine, SoloFacts DEF Close, At, Work, AInv
<1>2. PartsOurs(u)' /\ FilesWhole(u)'
  BY <1>1, PartsSame, FilesKept
<1>3. Len(data[PartOf(u)]) = Size[1]
  <2>1. Len(data[PartOf(u)]) = up[u].pos /\ up[u].pos <= Size[ver[u]]
    BY <1>1 DEF WInv, WOK, WriteOK, Placed
  <2>2. ver[u] = 1 /\ Size[1] \in Nat /\ up[u].pos \in Nat
    BY SoloFacts, TypeFacts
  <2> QED BY <1>1, <2>1, <2>2
<1>4. CASE Fail(u)
  BY <1>1, <1>2, <1>4, FailPlaced DEF AInv
<1>5. CASE Go(u, "verify")
  <2>1. up'[u].pc = "verify" /\ up'[u].torn = up[u].torn /\ up'[u].name = up[u].name
    BY <1>5, GoFields
  <2>2. Placed(u)'
    BY <1>1, <1>3, <2>1 DEF Placed, PartOf
  <2> QED BY <1>2, <2>2 DEF AInv
<1> QED BY <1>1, <1>4, <1>5

LEMMA BackupSolo ==
  ASSUME IInv, WInv, NEW u \in Uploaders, Solo(u), AInv(u), Backup(u)
  PROVE  AInv(u)'
<1> DEFINE n == up[u].name
<1>1. /\ UNCHANGED <<data, part, cur>> /\ PartsOurs(u) /\ FilesWhole(u)
      /\ Placed(u) /\ n \in Names /\ up[u].pc = "backup" /\ DirOK
      /\ Whole(u)' = Whole(u)
  BY TypeFacts DEF Backup, At, AInv, Whole, Full, Hole
<1>2. PartsOurs(u)'
  BY <1>1, PartsSame
<1>3. FilesWhole(u)'
  <2>1. CASE UNCHANGED <<file, baks>>
    BY <1>1, <2>1 DEF FilesWhole
  <2>2. CASE MoveAway(n)
    <3>1. \A m \in Names : file'[m] # 0 => file'[m] = file[m]
      BY <1>1, <2>2 DEF MoveAway, DirOK
    <3>2. \A m \in Names : \A i \in baks'[m] : i \in baks[m] \/ (i = file[n] /\ file[n] # 0)
      BY <1>1, <2>2 DEF MoveAway, DirOK
    <3> QED BY <1>1, <3>1, <3>2 DEF FilesWhole
  <2> QED BY <2>1, <2>2 DEF Backup
<1>4. Placed(u)'
  <2>1. CASE Fail(u)
    BY <1>1, <2>1, FailPlaced
  <2>2. CASE Go(u, "swap") \/ up' = [up EXCEPT ![u].pc = "swap", ![u].bak = file[n]]
    <3>1. up'[u].pc = "swap" /\ up'[u].torn = up[u].torn /\ up'[u].name = up[u].name
      BY <2>2, GoFields, TypeFacts DEF Upload
    <3> QED BY <1>1, <3>1 DEF Placed, PartOf, Full
  <2> QED BY <2>1, <2>2 DEF Backup
<1> QED BY <1>2, <1>3, <1>4 DEF AInv

LEMMA SwapSolo ==
  ASSUME IInv, WInv, NEW u \in Uploaders, Solo(u), AInv(u), Swap(u)
  PROVE  AInv(u)'
<1> DEFINE n == up[u].name
<1>1. /\ UNCHANGED <<data, baks>> /\ PartsOurs(u) /\ FilesWhole(u)
      /\ Placed(u) /\ n \in Names /\ up[u].pc = "swap" /\ DirOK
      /\ Whole(u)' = Whole(u) /\ Full(u, 1)' = Full(u, 1) /\ Full(u, 1) \in Whole(u)
      /\ data[part[n]] = Full(u, 1)
      /\ MoveIn(n) \/ UNCHANGED <<file, part, cur>>
  BY TypeFacts DEF Swap, At, AInv, Whole, Full, Hole, Placed, PartOf
<1>2. MoveIn(n) => /\ part[n] # 0 /\ file'[n] = part[n] /\ cur'[n] = part[n]
                   /\ part'[n] = 0
                   /\ \A m \in Names : m # n => /\ file'[m] = file[m] /\ cur'[m] = cur[m]
                                                /\ part'[m] = part[m]
  BY <1>1 DEF MoveIn, DirOK
<1>3. PartsOurs(u)'
  BY <1>1, <1>2 DEF PartsOurs
<1>4. FilesWhole(u)'
  <2>1. CASE UNCHANGED <<file, part, cur>>
    BY <1>1, <2>1 DEF FilesWhole
  <2>2. CASE MoveIn(n)
    BY <1>1, <1>2, <2>2 DEF FilesWhole
  <2> QED BY <1>1, <2>1, <2>2
<1>5. CASE Go(u, "restore")
  <2>1. up'[u].pc = "restore" /\ up'[u].torn = up[u].torn
    BY <1>5, GoFields
  <2> QED BY <1>1, <1>3, <1>4, <2>1, OutPlaced DEF AInv, Placed
<1>6. CASE MoveIn(n) /\ Go(u, "clean")
  <2>1. up'[u].pc = "clean" /\ up'[u].torn = up[u].torn /\ up'[u].name = n
    BY <1>6, GoFields
  <2>2. cur'[n] # 0 /\ data'[cur'[n]] = Full(u, 1)
    BY <1>1, <1>2, <1>6
  <2>3. Placed(u)'
    BY <1>1, <2>1, <2>2 DEF Placed
  <2> QED BY <1>3, <1>4, <2>3 DEF AInv
<1> QED BY <1>5, <1>6 DEF Swap

\* The backup that is put back is one of the name's.
LEMMA RestoreSolo ==
  ASSUME IInv, WInv, NEW u \in Uploaders, Solo(u), AInv(u), Restore(u)
  PROVE  AInv(u)'
<1> DEFINE n == up[u].name
<1>1. /\ UNCHANGED <<data, part>> /\ PartsOurs(u) /\ FilesWhole(u)
      /\ Placed(u) /\ n \in Names /\ up[u].pc = "restore" /\ DirOK /\ Fail(u)
      /\ Whole(u)' = Whole(u)
  BY TypeFacts DEF Restore, At, AInv, Whole, Full, Hole
<1>2. PartsOurs(u)' /\ Placed(u)'
  BY <1>1, PartsSame, FailPlaced
<1>3. FilesWhole(u)'
  <2>1. CASE UNCHANGED <<file, baks, cur>>
    BY <1>1, <2>1 DEF FilesWhole
  <2>2. CASE /\ up[u].bak # 0 /\ CanRename(n)
             /\ file' = [file EXCEPT ![n] = up[u].bak]
             /\ baks' = [baks EXCEPT ![n] = @ \ {up[u].bak}]
             /\ cur' = [cur EXCEPT ![n] = up[u].bak]
    <3>1. up[u].bak \in baks[n]
      BY <1>1, <2>2 DEF IInv, Held, Holding
    <3>2. /\ file'[n] = up[u].bak /\ cur'[n] = up[u].bak
          /\ \A m \in Names : m # n => file'[m] = file[m] /\ cur'[m] = cur[m]
          /\ \A m \in Names : baks'[m] \subseteq baks[m]
      BY <1>1, <2>2 DEF DirOK
    <3> QED BY <1>1, <2>2, <3>1, <3>2 DEF FilesWhole
  <2> QED BY <2>1, <2>2 DEF Restore
<1> QED BY <1>2, <1>3 DEF AInv

LEMMA LastSolo ==
  ASSUME IInv, WInv, NEW u \in Uploaders, Solo(u), AInv(u), Clean(u) \/ Abandon(u)
  PROVE  AInv(u)'
<1> DEFINE n == up[u].name
<1>1. /\ UNCHANGED <<data, file, cur>> /\ PartsOurs(u) /\ FilesWhole(u)
      /\ Placed(u) /\ n \in Names /\ DirOK /\ Whole(u)' = Whole(u)
  BY TypeFacts DEF Clean, Abandon, AInv, Whole, Full, Hole
<1>2. CASE Clean(u)
  <2>1. \A m \in Names : baks'[m] \subseteq baks[m]
    BY <1>1, <1>2 DEF Clean, DirOK
  <2>2. part' = part /\ Go(u, "done")
    BY <1>2 DEF Clean
  <2>3. PartsOurs(u)' /\ FilesWhole(u)'
    BY <1>1, <2>1, <2>2, PartsSame DEF FilesWhole
  <2>4. up'[u].pc = "done" /\ up'[u].torn = up[u].torn
    BY <2>2, GoFields
  <2> QED BY <1>1, <2>3, <2>4, OutPlaced DEF AInv, Placed
<1>3. CASE Abandon(u)
  <2>1. \A m \in Names : part'[m] # 0 => part'[m] = part[m]
    BY <1>1, <1>3 DEF Abandon, DirOK
  <2>2. UNCHANGED baks /\ Placed(u)'
    BY <1>3, EndPlaced DEF Abandon
  <2>3. PartsOurs(u)' /\ FilesWhole(u)'
    BY <1>1, <2>1, <2>2 DEF FilesWhole, PartsOurs
  <2> QED BY <2>2, <2>3 DEF AInv
<1> QED BY <1>2, <1>3

LEMMA AInvInit ==
  ASSUME NEW u \in Uploaders
  PROVE  Init => AInv(u)
<1> SUFFICES ASSUME Init PROVE AInv(u)
  OBVIOUS
<1>1. /\ \A n \in Names : part[n] = 0 /\ baks[n] = {} /\ file[n] \in {0, 1} /\ cur[n] = file[n]
      /\ data[1] = <<Hole>>
  BY DEF Init
<1>2. up[u].pc = "idle" /\ ~up[u].torn
  BY DEF Init, Idle
<1>3. Placed(u)
  BY <1>2 DEF Placed
<1> QED BY <1>1, <1>3 DEF AInv, PartsOurs, FilesWhole, Whole

LEMMA AInvStep ==
  ASSUME NEW u \in Uploaders, Solo(u)
  PROVE  IInv /\ WInv /\ AInv(u) /\ [Next]_vars => AInv(u)'
<1> SUFFICES ASSUME IInv, WInv, AInv(u), [Next]_vars PROVE AInv(u)'
  OBVIOUS
<1>1. CASE Next
  <2>1. Begin(u) \/ Cancel(u) \/ Drop(u) \/ Edit(u) \/ Work(u)
    BY <1>1 DEF Next, Solo
  <2> QED BY <2>1, StillSolo, OpenSolo, WriteSolo, CloseSolo, BackupSolo, SwapSolo,
             RestoreSolo, LastSolo DEF Work
<1>2. CASE UNCHANGED vars
  BY <1>2 DEF vars, AInv, PartsOurs, FilesWhole, Placed, PartOf, Whole, Full, Hole
<1> QED BY <1>1, <1>2


\* The status of an upload, by the place it is at.
StatusOf(pc) ==
    CASE pc = "idle" -> "idle"
      [] pc = "done" -> "ok"
      [] pc = "skipped" -> "skipped"
      [] pc \in {"failed", "dropped"} -> "failed"
      [] OTHER -> "running"

LEMMA StatusIs == Status = [u \in Uploaders |-> StatusOf(up[u].pc)]
  BY DEF Status, StatusOf

LEMMA StatusNext == Status' = [u \in Uploaders |-> StatusOf(up'[u].pc)]
  BY DEF Status, StatusOf

LEMMA StatusValues ==
  /\ StatusOf("idle") = "idle" /\ StatusOf("done") = "ok"
  /\ StatusOf("skipped") = "skipped"
  /\ StatusOf("failed") = "failed" /\ StatusOf("dropped") = "failed"
  /\ \A pc \in Pc \ {"idle", "done", "skipped", "failed", "dropped"} :
       StatusOf(pc) = "running"
  BY DEF StatusOf, Pc

\* A step from one place to another, in the terms of AtomicReplace.
LEMMA StatusStep ==
  ASSUME NEW u \in Uploaders, Solo(u)
  PROVE  /\ Status[u] = StatusOf(up[u].pc)
         /\ Status' = [Status EXCEPT ![u] = StatusOf(up'[u].pc)]
<1>1. Uploaders = {u}
  BY DEF Solo
<1>2. Status[u] = StatusOf(up[u].pc) /\ DOMAIN Status = {u}
  BY <1>1, StatusIs
<1>3. Status' = [x \in {u} |-> StatusOf(up'[u].pc)]
  BY <1>1, StatusNext
<1>4. Status = [x \in {u} |-> StatusOf(up[u].pc)]
  BY <1>1, StatusIs
<1> QED BY <1>2, <1>3, <1>4

\* Requests that are neither the first nor the last, nor move a file in.
LEMMA Stutters ==
  ASSUME IInv, WInv, NEW u \in Uploaders, Solo(u),
         \/ Cancel(u) \/ Start(u) \/ Open(u) \/ Write(u) \/ Close(u) \/ Verify(u)
         \/ Backup(u)
  PROVE  UNCHANGED <<Shown, Status>>
<1>1. Mine(u) /\ UNCHANGED cur
  BY EveryStepMine DEF Cancel, Start, Open, Write, Close, Verify, Backup, Work, Dir
<1>2. Shown' = Shown
  BY <1>1, ShownKept
<1>3. StatusOf(up'[u].pc) = StatusOf(up[u].pc)
  <2> DEFINE Mid == {"start", "open", "write", "verify", "backup", "swap", "giveup"}
  <2>1. CASE Cancel(u)
    BY <2>1, TypeFacts DEF Cancel, Upload
  <2>2. CASE ~Cancel(u)
    <3>1. up[u].pc \in Mid
      BY <2>2 DEF Start, Open, Write, Close, Verify, Backup, At
    <3>2. Fail(u) => up'[u].pc \in Mid
      BY TypeFacts DEF Fail, Upload
    <3>3. ASSUME NEW pc \in Mid, Go(u, pc) PROVE up'[u].pc \in Mid
      BY <3>3, GoFields
    <3>4. Start(u) => up'[u].pc \in Mid
      BY TypeFacts DEF Start, Upload
    <3>5. Open(u) => up'[u].pc \in Mid
      BY <3>2, TypeFacts DEF Open, Upload
    <3>6. Write(u) => up'[u].pc \in Mid
      BY <3>1, <3>2, TypeFacts DEF Write, Upload
    <3>7. Close(u) => up'[u].pc \in Mid
      BY <3>2, <3>3 DEF Close
    <3>8. Verify(u) => up'[u].pc \in Mid
      BY <3>2, <3>3, TypeFacts DEF Verify, Upload
    <3>9. Backup(u) => up'[u].pc \in Mid
      BY <3>2, <3>3, TypeFacts DEF Backup, Upload
    <3>10. up'[u].pc \in Mid
      BY <2>2, <3>4, <3>5, <3>6, <3>7, <3>8, <3>9
    <3>11. \A pc \in Mid : StatusOf(pc) = "running"
      BY StatusValues DEF Pc
    <3> QED BY <3>1, <3>10, <3>11
  <2> QED BY <2>1, <2>2
<1>4. Status' = Status
  BY <1>3, StatusStep, StatusIs
<1> QED BY <1>2, <1>4

LEMMA EndStatus ==
  ASSUME IInv, NEW u \in Uploaders, Solo(u), NEW pc, End(u, pc)
  PROVE  Status' = [Status EXCEPT ![u] = StatusOf(pc)]
<1>1. up'[u].pc = pc
  BY EndFields
<1> QED BY <1>1, StatusStep

\* The first and the last requests of an upload.
LEMMA Borders ==
  ASSUME IInv, WInv, NEW u \in Uploaders, Solo(u), AInv(u),
         Begin(u) \/ Drop(u) \/ Probe(u) \/ Clean(u) \/ Abandon(u)
  PROVE  Abstract!Next \/ UNCHANGED <<Shown, Status>>
<1>1. Mine(u) /\ UNCHANGED cur
  BY EveryStepMine DEF Begin, Drop, Probe, Clean, Abandon, Work, Dir
<1>2. Shown' = Shown
  BY <1>1, ShownKept
<1>3. Status[u] = StatusOf(up[u].pc) /\ up[u] \in Upload /\ up \in [Uploaders -> Upload]
      /\ up[u].pc \in Pc
  BY StatusStep, TypeFacts DEF Upload
<1>4. Active(u) => Status[u] = "running"
  BY <1>3, StatusValues DEF Active
<1>5. ~Active(u) => Status[u] # "running"
  BY <1>3, StatusValues DEF Active
<1>6. CASE Begin(u)
  <2>1. up'[u].pc = "probe"
    BY <1>3, <1>6 DEF Begin, Idle
  <2>2. Status' = [Status EXCEPT ![u] = "running"]
    BY <2>1, StatusStep, StatusValues DEF Pc
  <2>3. Abstract!Begin(u)
    BY <1>2, <1>5, <1>6, <2>2 DEF Begin, Abstract!Begin
  <2> QED BY <2>3 DEF Abstract!Next
<1>7. ASSUME Active(u), End(u, "failed") \/ End(u, "dropped")
      PROVE  Abstract!Next
  <2>1. Status' = [Status EXCEPT ![u] = "failed"]
    BY <1>7, EndStatus, StatusValues
  <2>2. Abstract!Fail(u)
    BY <1>2, <1>4, <1>7, <2>1 DEF Abstract!Fail
  <2> QED BY <2>2 DEF Abstract!Next
<1>8. CASE Drop(u) \/ Abandon(u)
  BY <1>7, <1>8 DEF Drop, Abandon, At, Active
<1>9. CASE Probe(u)
  <2>1. Active(u) /\ up[u].pc = "probe"
    BY <1>9 DEF Probe, At, Active
  <2>2. CASE file[1] # 0 /\ End(u, "skipped")
    <3>1. Status' = [Status EXCEPT ![u] = "skipped"]
      BY <2>2, EndStatus, StatusValues
    <3>2. cur[1] # 0 /\ 1 \in Names
      BY <2>2, VersionOne DEF AInv, FilesWhole
    <3>3. Shown[1] # {}
      BY <3>2 DEF Shown
    <3>4. Abstract!Skip(u)
      BY <1>2, <1>4, <2>1, <3>1, <3>2, <3>3 DEF Abstract!Skip
    <3> QED BY <3>4 DEF Abstract!Next
  <2>3. CASE End(u, "failed")
    BY <1>7, <2>1, <2>3
  <2>4. ASSUME NEW n \in Names,
               up' = [up EXCEPT ![u].pc = "start", ![u].name = n, ![u].pin = ver[u]]
        PROVE  UNCHANGED <<Shown, Status>>
    <3>1. up'[u].pc = "start"
      BY <1>3, <2>4 DEF Upload
    <3>2. StatusOf(up'[u].pc) = StatusOf(up[u].pc)
      BY <2>1, <3>1, StatusValues DEF Pc
    <3> QED BY <1>2, <3>2, StatusStep, StatusIs
  <2> QED BY <1>9, <2>2, <2>3, <2>4 DEF Probe
<1>10. CASE Clean(u)
  <2>1. up[u].pc = "clean" /\ up'[u].pc = "done"
    BY <1>10, GoFields DEF Clean, At
  <2>2. Status' = [Status EXCEPT ![u] = "ok"]
    BY <2>1, StatusStep, StatusValues
  <2>3. up[u].name \in Names /\ Shown[up[u].name] = {Full(u, 1)}
    BY <2>1, TypeFacts DEF AInv, Placed, Shown
  <2>4. {Full(u, 1)} \in {{Full(u, v)} : v \in Versions}
    BY VersionOne
  <2>5. Active(u)
    BY <2>1 DEF Active
  <2>6. Abstract!Succeed(u)
    BY <1>2, <1>4, <2>2, <2>3, <2>4, <2>5 DEF Abstract!Succeed
  <2> QED BY <2>6 DEF Abstract!Next
<1> QED BY <1>6, <1>8, <1>9, <1>10

\* The two requests that put a file under the name.
LEMMA Replaces ==
  ASSUME IInv, WInv, NEW u \in Uploaders, Solo(u), AInv(u), Swap(u) \/ Restore(u)
  PROVE  Abstract!Next \/ UNCHANGED <<Shown, Status>>
<1> DEFINE n == up[u].name
<1>1. /\ n \in Names /\ DirOK /\ data' = data /\ up[u] \in Upload
      /\ up \in [Uploaders -> Upload] /\ Placed(u) /\ FilesWhole(u)
  BY TypeFacts DEF Swap, Restore, AInv
<1>2. up[u].pc \in {"swap", "restore"} /\ up'[u].pc \in {"clean", "restore", "start", "giveup"}
  <2>1. CASE Swap(u)
    BY <2>1, GoFields DEF Swap, At
  <2>2. CASE Restore(u)
    BY <1>1, <2>2 DEF Restore, At, Fail, Upload
  <2> QED BY <2>1, <2>2
<1>3. Status[u] = "running" /\ StatusOf(up'[u].pc) = StatusOf(up[u].pc)
  BY <1>2, StatusStep, StatusValues DEF Pc
<1>4. Status' = Status
  BY <1>3, StatusStep, StatusIs
<1>5. ASSUME NEW i, i # 0, data[i] \in Whole(u), cur' = [cur EXCEPT ![n] = i]
      PROVE  Abstract!Next
  <2>1. Shown' = [m \in Names |-> IF m = n THEN {data[i]}
                                  ELSE IF cur[m] = 0 THEN {} ELSE {data[cur[m]]}]
    <3>1. \A m \in Names : cur'[m] = IF m = n THEN i ELSE cur[m]
      BY <1>1, <1>5 DEF DirOK
    <3> QED BY <1>1, <1>5, <3>1 DEF Shown
  <2>2. Shown' = [Shown EXCEPT ![n] = {data[i]}]
    BY <2>1 DEF Shown
  <2>3. {data[i]} \in {{Full(u, v)} : v \in Versions} \cup {{<<Hole>>}}
    BY <1>5, VersionOne DEF Whole
  <2>4. Abstract!Replace(u, n)
    BY <1>3, <1>4, <2>2, <2>3 DEF Abstract!Replace
  <2> QED BY <1>1, <2>4 DEF Abstract!Next
<1>6. ASSUME cur' = cur PROVE UNCHANGED <<Shown, Status>>
  BY <1>1, <1>4, <1>6 DEF Shown
<1>7. CASE Swap(u)
  <2>1. PartOf(u) = part[n] /\ up[u].pc = "swap" /\ data[part[n]] = Full(u, 1)
    BY <1>1, <1>7 DEF Swap, At, Placed, PartOf
  <2>2. ASSUME MoveIn(n) PROVE Abstract!Next
    BY <1>5, <2>1, <2>2 DEF MoveIn, Whole
  <2> QED BY <1>6, <1>7, <2>2 DEF Swap
<1>8. CASE Restore(u)
  <2>1. CASE cur' = cur
    BY <1>6, <2>1
  <2>2. CASE up[u].bak # 0 /\ cur' = [cur EXCEPT ![n] = up[u].bak]
    <3>1. up[u].bak \in baks[n]
      BY <1>8, <2>2 DEF Restore, At, IInv, Held, Holding
    <3> QED BY <1>1, <1>5, <2>2, <3>1 DEF FilesWhole
  <2> QED BY <1>8, <2>1, <2>2 DEF Restore
<1> QED BY <1>7, <1>8

LEMMA AbstractInit ==
  ASSUME NEW u \in Uploaders, Solo(u)
  PROVE  Init => Abstract!Init
<1> SUFFICES ASSUME Init PROVE Abstract!Init
  OBVIOUS
<1>1. \A n \in Names : cur[n] \in {0, 1}
  BY DEF Init
<1>2. data[1] = <<Hole>>
  BY DEF Init
<1>3. Shown \in [Names -> {{<<Hole>>}} \cup {{}}]
  BY <1>1, <1>2 DEF Shown
<1>4. \A x \in Uploaders : up[x].pc = "idle"
  BY DEF Init, Idle
<1>5. Status = [x \in Uploaders |-> "idle"]
  BY <1>4, StatusIs, StatusValues
<1> QED BY <1>3, <1>5 DEF Abstract!Init

LEMMA AbstractStep ==
  ASSUME NEW u \in Uploaders, Solo(u)
  PROVE  IInv /\ WInv /\ AInv(u) /\ [Next]_vars => [Abstract!Next]_Abstract!vars
<1> SUFFICES ASSUME IInv, WInv, AInv(u), [Next]_vars
             PROVE  Abstract!Next \/ UNCHANGED <<Shown, Status>>
  BY DEF Abstract!vars
<1>1. CASE Next
  <2>1. Begin(u) \/ Cancel(u) \/ Drop(u) \/ Edit(u) \/ Work(u)
    BY <1>1 DEF Next, Solo
  <2>2. ~Edit(u)
    <3>1. ver[u] = 1 /\ Versions = {1}
      BY SoloFacts
    <3>2. Edit(u) => ver[u] + 1 \in {1}
      BY <3>1 DEF Edit
    <3> QED BY <3>1, <3>2
  <2> QED BY <2>1, <2>2, Stutters, Borders, Replaces DEF Work
<1>2. CASE UNCHANGED vars
  <2>1. UNCHANGED <<data, up, cur>>
    BY <1>2 DEF vars
  <2> QED BY <2>1, StatusIs, StatusNext DEF Shown
<1> QED BY <1>1, <1>2

\* With one upload at a time, a file nobody edits and a server that keeps what
\* it is sent, upload_file_once and its retry loop implement AtomicReplace: for
\* every size, number of names, retries, runs, kind of rename, and whatever
\* request fails or is dropped, a name shows nothing, what it showed before or
\* the complete file, and success is reported only when that is there.
THEOREM UploadReplacesAtomically ==
  ASSUME NEW u \in Uploaders, Solo(u)
  PROVE  Spec => ReplacesAtomically
<1>1. Spec => []IInv
  BY Invariance
<1>2. Init => WInv /\ AInv(u) /\ Abstract!Init
  BY WInvInit, AInvInit, AbstractInit
<1>3. IInv /\ WInv /\ [Next]_vars => WInv'
  <2>1. IInv => Alone
    BY SoloFacts
  <2> QED BY <2>1, WInvStep
<1>4. IInv /\ WInv /\ AInv(u) /\ [Next]_vars => AInv(u)'
  BY AInvStep
<1>5. IInv /\ WInv /\ AInv(u) /\ [Next]_vars => [Abstract!Next]_Abstract!vars
  BY AbstractStep
<1> QED BY <1>1, <1>2, <1>3, <1>4, <1>5, PTL DEF Spec, ReplacesAtomically, Abstract!Spec
=============================================================================
