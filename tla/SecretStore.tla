---------------------------- MODULE SecretStore ----------------------------
(***************************************************************************)
(* The passwords of the saved connections and the master key that          *)
(* encrypts them (store/crypto.rs, store/connections.rs, store/paths.rs),  *)
(* shared by every process of the program that runs for one user.          *)
(*                                                                         *)
(*  - connections.json holds the connections, each password under a key.   *)
(*  - The key is kept in the keychain of the system and in a local file;   *)
(*    which one a process uses, and whether it makes a new one, is decided *)
(*    in many steps under the lock of the directory, which may be refused. *)
(*  - Files are replaced by writing a temporary file and renaming it; a    *)
(*    process may stop between the two, and the key a temporary file holds *)
(*    is recovered later.  A write of the keychain may time out and be     *)
(*    done long after.                                                     *)
(*                                                                         *)
(* A key is a number, and 0 stands for none.  A connection is known by its *)
(* place in the list and has one secret: what the file holds of it is the  *)
(* number of the key it is encrypted under, or one of Absent, Plain and    *)
(* Empty.  The program itself knows a connection by its name, host and     *)
(* user, which the user changes: a Name stands for the three of them.      *)
(***************************************************************************)
EXTENDS Integers, Sequences, FiniteSets, SequencesExt

CONSTANTS Proc,       \* processes of the program
          NoBus,      \* those that have no way to the keychain
          Conn,       \* connections, numbered in the order of the list
          Name,       \* what a connection may be called: name, host and user
          NoName,     \* called nothing: there is no such connection
          Place,      \* the name and host of each Name, without the user
          OldKey,     \* the key an earlier installation left in the keychain
          MaxKeys,    \* keys in all
          Limits      \* what there is at most in one run of the system: the
                      \* connections, the changes the user makes, the requests
                      \* that fail or time out, the processes that stop

ASSUME SecretAssumption ==
    /\ NoBus \subseteq Proc /\ 0 \notin Proc
    /\ Conn \subseteq Nat /\ NoName \notin Name
    /\ OldKey \in Nat /\ MaxKeys \in Nat \ {0} /\ OldKey <= MaxKeys
    /\ Limits \subseteq [conns : SUBSET Conn, edits : Nat, faults : Nat, crashes : Nat]

VARIABLES keychain,  \* the key in the keychain
          late,      \* writes of the keychain given up and still under way
          kfile,     \* the key in the local file
          side,      \* keys in temporary files of it, oldest first
          conf,      \* connections.json: the secrets
          label,     \* connections.json: what the connections are called
          current,   \* processes whose list was read from it as it is, or was
                     \* written to it
          lock,      \* the process that holds key.lock, or None
          proc,      \* the processes
          keys,      \* keys made so far
          left,      \* what is left of the limits
          replaced,  \* keys of the local file that were free to be replaced
                     \* when a process decided to: no secret was saved with them
          slow       \* keys a late write of the keychain put there or replaced

vars == <<keychain, late, kfile, side, conf, label, current, lock, proc, keys,
          left, replaced, slow>>
material == <<keychain, late, kfile, side, keys, replaced, slow>>
file == <<conf, label, current>>

None == 0                \* no key; no process
Absent == -3             \* no such connection
Plain == -2              \* a secret of an old version, not encrypted
Empty == -1
Failed == -1             \* cache: the key could not be had
Unknown == {-1}          \* inventory: the file cannot be read

Idle == [pc |-> "idle", cache |-> None, has |-> FALSE, local |-> None,
         inv |-> {}, key |-> None, for |-> "none", text |-> [c \in Conn |-> Absent],
         labels |-> [c \in Conn |-> NoName], mem |-> [c \in Conn |-> "absent"],
         \* what a connection was called since the list was read
         names |-> [c \in Conn |-> <<>>],
         mine |-> {}]

Fault == left.faults > 0 /\ left' = [left EXCEPT !.faults = @ - 1]
NoFault == UNCHANGED left
\* Every outcome but the good one costs a fault.
Cost(r) == IF r = "ok" THEN NoFault ELSE Fault

At(p, pc) == proc[p].pc = pc
Go(p, pc) == proc' = [proc EXCEPT ![p].pc = pc]
Put(p, r) == proc' = [proc EXCEPT ![p] = r]

Init ==
    /\ keychain \in {None, OldKey} /\ keys = OldKey
    /\ late = {} /\ kfile = None /\ side = <<>>
    /\ left \in Limits /\ current = {}
    /\ label \in [Conn -> Name \union {NoName}]
    /\ \A c \in Conn \ left.conns : label[c] = NoName
    /\ conf = [c \in Conn |-> IF label[c] = NoName THEN Absent ELSE Plain]
    /\ lock = None
    /\ proc = [p \in Proc |-> Idle]
    /\ replaced = {} /\ slow = {}

----------------------------------------------------------------------------
(* Which secrets there are, and which key opens them *)

Encrypted(text) == {text[c] : c \in Conn} \ {Absent, Plain, Empty}
NeedsKey(inv) == inv # {}
\* A file that cannot be read is not opened by any key.
Opens(k, inv) == inv \subseteq {k}
\* inventory_saved_ciphertexts
Inventories == {Encrypted(conf)} \union (IF left.faults > 0 THEN {Unknown} ELSE {})
InventoryCost(inv) == IF inv = Unknown THEN Fault ELSE NoFault

----------------------------------------------------------------------------
(* load and save of the connections *)

\* ConnectForm::open_dialog: the file as it is; unreadable, it is as if there
\* were none.
Load(p) ==
    /\ At(p, "idle")
    /\ \/ /\ Put(p, [proc[p] EXCEPT !.pc = "key", !.for = "load", !.text = conf,
                                    !.labels = label])
          /\ current' = current \union {p} /\ NoFault
       \/ /\ Put(p, [proc[p] EXCEPT !.mem = Idle.mem, !.names = Idle.names, !.mine = {}])
          /\ current' = current \ {p} /\ Fault
    /\ UNCHANGED <<material, conf, label, lock>>

Listed(r) == {c \in Conn : r.mem[c] # "absent"}
Now(r, c) == Last(r.names[c])
\* The connections of the list at a place; the first of them is found.
Slots(r, n) == {c \in Listed(r) : Place[Now(r, c)] = Place[n]}
Bear(names, n) == IF names # <<>> /\ Last(names) = n THEN names ELSE Append(names, n)
Changes(p) == /\ At(p, "idle") /\ left.edits > 0
              /\ left' = [left EXCEPT !.edits = @ - 1]
              /\ UNCHANGED <<material, file, lock>>

\* The form of connection c is saved under the name n into the slot s.  What is
\* not typed is what the form showed; a field left empty where the secret could
\* not be opened counts as not touched.
Entered(r, c, s, what) ==
    LET field == IF what # "other" THEN what
                 ELSE IF r.mem[c] = "text" THEN "text" ELSE "empty"
    IN IF field = "empty" /\ r.mem[s] = "failed" THEN "failed" ELSE field
Edit(p, c, n, what) ==
    LET r == proc[p]
        s == Min(Slots(r, Now(r, c)))
    IN /\ Changes(p) /\ c \in Listed(r)
       /\ what = "empty" => r.mem[c] = "text"
       /\ Put(p, [r EXCEPT !.pc = "previous", !.mem[s] = Entered(r, c, s, what),
                           !.names[s] = Bear(@, n),
                           !.mine = IF what = "other" THEN @ ELSE @ \union {s}])

\* A new form, or a host of ~/.ssh/config, which has no secrets: it takes the
\* slot of that place, or one behind all others.
New(p, c, n, what) ==
    LET r == proc[p]
    IN /\ Changes(p) /\ c \in left.conns
       /\ IF Slots(r, n) # {} THEN c = Min(Slots(r, n)) ELSE \A d \in Listed(r) : d < c
       /\ Put(p, [r EXCEPT !.pc = "previous", !.mem[c] = what,
                           !.names[c] = Bear(@, n), !.mine = @ \union {c}])

Delete(p, c) ==
    /\ Changes(p) /\ c \in Listed(proc[p])
    /\ Put(p, [proc[p] EXCEPT !.pc = "previous", !.mem[c] = "absent",
                              !.mine = @ \union {c}])

\* save reads the file first (load_encrypted_file).
ReadPrevious(p) ==
    /\ At(p, "previous")
    /\ \/ /\ Put(p, [proc[p] EXCEPT !.pc = "key", !.for = "save", !.text = conf,
                                    !.labels = label])
          /\ UNCHANGED current /\ NoFault
       \/ /\ Put(p, [proc[p] EXCEPT !.pc = "key", !.for = "save"])
          /\ current' = current \ {p} /\ Fault
    /\ UNCHANGED <<material, conf, label, lock>>

\* The key is wanted by the first ciphertext read or the first secret written.
Wanted(p) ==
    IF proc[p].for = "load" THEN Encrypted(proc[p].text) # {}
    ELSE \E c \in Conn : proc[p].mem[c] = "text"

\* load_or_create_key: a key once had is kept; a failure is kept for two
\* seconds.
WantKey(p) ==
    /\ At(p, "key")
    /\ IF ~Wanted(p) \/ proc[p].cache \notin {None, Failed}
       THEN Go(p, "use")
       ELSE \/ Go(p, "lock")
            \/ proc[p].cache = Failed /\ Go(p, "use")
    /\ UNCHANGED <<material, file, lock, left>>

\* try_decrypt_secret: a ciphertext that does not open is emptied and marked.
Decrypted(p, x) ==
    CASE x = Absent -> "absent"
      [] x = Empty -> "empty"
      [] x = Plain -> "text"
      [] OTHER -> IF x = proc[p].cache THEN "text" ELSE "failed"

\* A secret not encrypted is encrypted at once, by a save of its own.
LoadEnd(p) ==
    /\ At(p, "use") /\ proc[p].for = "load"
    /\ Put(p, [proc[p] EXCEPT
                 !.pc = IF \E c \in Conn : proc[p].text[c] = Plain THEN "previous" ELSE "idle",
                 !.mem = [c \in Conn |-> Decrypted(p, proc[p].text[c])],
                 !.names = [c \in Conn |-> IF proc[p].labels[c] = NoName THEN <<>>
                                            ELSE <<proc[p].labels[c]>>],
                 !.mine = {}, !.for = "none", !.text = Idle.text, !.labels = Idle.labels])
    /\ UNCHANGED <<material, file, lock, left>>

HasKey(p) == proc[p].cache \notin {None, Failed}
\* find_previous: the first in the file of the connection's name, or else of the
\* name it was read with.
Called(p, n) == {d \in Conn : proc[p].labels[d] = n}
FindByName(p, c) == Called(p, Now(proc[p], c))
FindPrevious(p, c) ==
    LET now == Called(p, Now(proc[p], c))
    IN IF now # {} THEN now ELSE Called(p, Head(proc[p].names[c]))
\* keep_if_empty: only where the secret could not be opened.
Kept(p, c) ==
    IF FindPrevious(p, c) = {} THEN Empty
    ELSE LET old == proc[p].text[Min(FindPrevious(p, c))]
         IN IF old = Absent THEN Empty ELSE old
Written(p, c) ==
    CASE proc[p].mem[c] = "absent" -> Absent
      [] proc[p].mem[c] = "empty" -> Empty
      [] proc[p].mem[c] = "failed" -> Kept(p, c)
      [] OTHER -> proc[p].cache

\* One secret that cannot be encrypted stops the whole save.
SaveEnd(p) ==
    /\ At(p, "use") /\ proc[p].for = "save"
    /\ \E r \in {"ok", "err"} :
         LET saved == r = "ok" /\ (Wanted(p) => HasKey(p))
         IN /\ Cost(r)
            /\ IF saved THEN /\ conf' = [c \in Conn |-> Written(p, c)]
                             /\ label' = [c \in Conn |->
                                   IF c \in Listed(proc[p]) THEN Now(proc[p], c) ELSE NoName]
                             /\ current' = current \intersect {p}
                        ELSE UNCHANGED file
            /\ Put(p, [proc[p] EXCEPT !.pc = "idle", !.for = "none", !.text = Idle.text,
                                      !.labels = Idle.labels])
    /\ UNCHANGED <<material, lock>>

----------------------------------------------------------------------------
(* compute_master_key, under the lock of the directory *)

Lock(p) ==
    /\ At(p, "lock")
    /\ \/ /\ lock = None /\ lock' = p /\ NoFault
          /\ Put(p, [proc[p] EXCEPT !.pc = "local", !.has = TRUE])
       \/ /\ Fault /\ UNCHANGED lock
          /\ Put(p, [proc[p] EXCEPT !.pc = "local", !.has = FALSE])
    /\ UNCHANGED <<material, file>>

\* read_local_key: the file, or the newest of the temporary files, which is
\* moved to its place.
LocalKey == IF kfile # None THEN kfile
            ELSE IF side # <<>> THEN Last(side) ELSE None
Recovers == kfile = None /\ side # <<>>
ReadLocal ==
    \/ /\ Recovers
       /\ kfile' = Last(side) /\ side' = Front(side) /\ NoFault
    \/ /\ UNCHANGED <<kfile, side>>
       /\ IF Recovers THEN Fault ELSE NoFault

Look(p) ==
    /\ At(p, "local")
    /\ ReadLocal
    /\ Put(p, [proc[p] EXCEPT !.pc = "inventory", !.local = LocalKey])
    /\ UNCHANGED <<keychain, late, keys, replaced, slow, file, lock>>

Inventory(p) ==
    /\ At(p, "inventory")
    /\ \E inv \in Inventories :
         /\ InventoryCost(inv)
         /\ Put(p, [proc[p] EXCEPT !.pc = "keychain", !.inv = inv])
    /\ UNCHANGED <<material, file, lock>>

\* keychain_read: an entry, none, or nothing known of it.
ChainRead(p) ==
    IF p \in NoBus THEN "unavailable"
    ELSE IF keychain # None THEN "found" ELSE "notfound"
Reads(p) == {ChainRead(p)} \union
            (IF p \in NoBus \/ left.faults = 0 THEN {} ELSE {"transient"})
ReadCost(r) == IF r = "transient" THEN Fault ELSE NoFault

\* plan_master_key and demote_plan_without_init_lock.  A key that cannot be
\* read now is not a key that is not there.
PlanFor(p, r) ==
    IF r = "found" THEN "keychain"
    ELSE IF proc[p].local # None
    THEN IF r = "notfound" /\ proc[p].has THEN "migrate" ELSE "uselocal"
    ELSE IF r = "transient" \/ NeedsKey(proc[p].inv) \/ ~proc[p].has THEN "none"
    ELSE "mint"

\* The key is had, or not: the lock is given back.
Finish(p, k) ==
    /\ Put(p, [proc[p] EXCEPT !.pc = "use", !.cache = IF k = None THEN Failed ELSE k,
                 !.has = FALSE, !.local = None, !.inv = {}, !.key = None])
    /\ lock' = IF lock = p THEN None ELSE lock

ReadKeychain(p) ==
    /\ At(p, "keychain")
    /\ \E r \in Reads(p) :
         LET plan == PlanFor(p, r)
         IN /\ ReadCost(r)
            /\ CASE plan = "none" -> Finish(p, None)
                 [] plan = "uselocal" -> Finish(p, proc[p].local)
                 [] plan = "keychain" ->
                      /\ Put(p, [proc[p] EXCEPT !.pc = "verify", !.key = keychain])
                      /\ UNCHANGED lock
                 [] OTHER -> Go(p, plan) /\ UNCHANGED lock
    /\ UNCHANGED <<material, file>>

\* The key of the keychain must open what is saved; else the local one is used,
\* when that does.  Only then is it kept in the local file too.
Verify(p) ==
    /\ At(p, "verify")
    /\ \E now \in Inventories :
         /\ InventoryCost(now)
         /\ IF NeedsKey(proc[p].inv) /\ ~Opens(proc[p].key, now)
            THEN IF proc[p].local # None THEN Go(p, "verifylocal") /\ UNCHANGED lock
                 ELSE Finish(p, proc[p].key)
            ELSE IF proc[p].has THEN Go(p, "persist") /\ UNCHANGED lock
            ELSE Finish(p, proc[p].key)
    /\ UNCHANGED <<material, file>>

VerifyLocal(p) ==
    /\ At(p, "verifylocal")
    /\ \E now \in Inventories :
         /\ InventoryCost(now)
         /\ Finish(p, IF Opens(proc[p].local, now) THEN proc[p].local ELSE proc[p].key)
    /\ UNCHANGED <<material, file>>

\* persist_local_backup: a key that does not open what is saved is not written
\* over one that may.  The local key is looked at once more.
MayReplaceAny(k, inv) == TRUE
MayReplace(k, inv) == Opens(k, inv)
Unused == {LocalKey} \ ({None} \union Encrypted(conf))
Persist(p) ==
    /\ At(p, "persist")
    /\ \E inv \in Inventories :
         IF ~MayReplace(proc[p].key, inv)
         THEN /\ InventoryCost(inv) /\ Finish(p, proc[p].key)
              /\ UNCHANGED <<kfile, side, replaced>>
         ELSE /\ ReadLocal
              /\ IF LocalKey = proc[p].key
                 THEN Finish(p, proc[p].key) /\ UNCHANGED replaced
                 ELSE /\ Go(p, "write") /\ UNCHANGED lock
                      /\ replaced' = replaced \union Unused
    /\ UNCHANGED <<keychain, late, keys, slow, file>>

\* write_atomic_bytes: the temporary file, then its new name.  Where either
\* fails the key is used all the same; when it was just made and is nowhere
\* else, it is not.
WriteTmp(p) ==
    /\ proc[p].pc \in {"write", "writenew"}
    /\ \/ /\ side' = Append(side, proc[p].key) /\ NoFault
          /\ Go(p, IF At(p, "write") THEN "rename" ELSE "renamenew")
          /\ UNCHANGED lock
       \/ /\ Fault /\ UNCHANGED side
          /\ Finish(p, IF At(p, "write") THEN proc[p].key ELSE None)
    /\ UNCHANGED <<keychain, late, kfile, keys, replaced, slow, file>>

Rename(p) ==
    /\ proc[p].pc \in {"rename", "renamenew"}
    /\ LET anyway == IF At(p, "rename") THEN proc[p].key ELSE None
       IN \/ /\ Contains(side, proc[p].key)
             /\ kfile' = proc[p].key /\ side' = RemoveFirst(side, proc[p].key)
             /\ \/ NoFault /\ Finish(p, proc[p].key)
                \/ Fault /\ Finish(p, anyway)        \* the directory is not synced
          \/ /\ IF Contains(side, proc[p].key) THEN Fault ELSE NoFault
             /\ UNCHANGED <<kfile, side>>
             /\ Finish(p, anyway)
    /\ UNCHANGED <<keychain, late, keys, replaced, slow, file>>

\* keychain_set_key: written, refused, or given up after three seconds and
\* written some time later.
SetResults(p) == IF p \in NoBus THEN {"refused"} ELSE {"ok", "err", "late"}
SetChain(p, k, r) ==
    /\ IF r \in {"ok", "refused"} THEN NoFault ELSE Fault
    /\ keychain' = IF r = "ok" THEN k ELSE keychain
    /\ late' = IF r = "late" THEN late \union {[by |-> p, key |-> k]} ELSE late
LateWrite ==
    /\ \E w \in late : /\ keychain' = w.key /\ late' = late \ {w}
                       /\ slow' = slow \union ({keychain, w.key} \ {None})
    /\ UNCHANGED <<kfile, side, keys, replaced, file, lock, proc, left>>

\* A local key that is in no keychain is put there.
Migrate(p) ==
    /\ At(p, "migrate")
    /\ \E r \in SetResults(p) : SetChain(p, proc[p].local, r)
    /\ Finish(p, proc[p].local)
    /\ UNCHANGED <<kfile, side, keys, replaced, slow, file>>

\* mint_new_key: what others made meanwhile is taken first.
MintLook(p) ==
    /\ At(p, "mint")
    /\ ReadLocal
    /\ IF LocalKey # None THEN Finish(p, LocalKey)
       ELSE Go(p, "mintchain") /\ UNCHANGED lock
    /\ UNCHANGED <<keychain, late, keys, replaced, slow, file>>

MintChain(p) ==
    /\ At(p, "mintchain")
    /\ \E r \in Reads(p) :
         /\ ReadCost(r)
         /\ IF r = "found"
            THEN /\ Put(p, [proc[p] EXCEPT !.pc = "persist", !.key = keychain])
                 /\ UNCHANGED keys
            ELSE /\ keys < MaxKeys /\ keys' = keys + 1
                 /\ Put(p, [proc[p] EXCEPT !.pc = "mintset", !.key = keys + 1])
    /\ UNCHANGED <<keychain, late, kfile, side, replaced, slow, file, lock>>

MintSet(p) ==
    /\ At(p, "mintset")
    /\ \E r \in SetResults(p) :
         /\ SetChain(p, proc[p].key, r)
         /\ Go(p, IF r = "ok" THEN "mintback" ELSE "install")
    /\ UNCHANGED <<kfile, side, keys, replaced, slow, file, lock>>

\* What is read back is the key, whoever wrote it.
MintBack(p) ==
    /\ At(p, "mintback")
    /\ \E r \in Reads(p) :
         /\ ReadCost(r)
         /\ IF r = "found"
            THEN Put(p, [proc[p] EXCEPT !.pc = "persist", !.key = keychain])
            ELSE Go(p, "install")
    /\ UNCHANGED <<material, file, lock>>

\* install_or_adopt_local_key.
Install(p) ==
    /\ At(p, "install")
    /\ ReadLocal
    /\ IF LocalKey # None THEN Finish(p, LocalKey)
       ELSE Go(p, "writenew") /\ UNCHANGED lock
    /\ UNCHANGED <<keychain, late, keys, replaced, slow, file>>

\* The process stops: the lock is given back, a write of the keychain may or
\* may not have left.
Crash(p) ==
    /\ proc[p] # Idle /\ left.crashes > 0
    /\ left' = [left EXCEPT !.crashes = @ - 1]
    /\ Put(p, Idle)
    /\ lock' = IF lock = p THEN None ELSE lock
    /\ \E gone \in {{}, {w \in late : w.by = p}} : late' = late \ gone
    /\ current' = current \ {p}
    /\ UNCHANGED <<keychain, kfile, side, keys, replaced, slow, conf, label>>

Next ==
    \/ \E p \in Proc :
         \/ Load(p) \/ ReadPrevious(p) \/ WantKey(p) \/ LoadEnd(p) \/ SaveEnd(p)
         \/ \E c \in Conn, n \in Name, what \in {"text", "empty", "other"} : Edit(p, c, n, what)
         \/ \E c \in Conn, n \in Name, what \in {"text", "empty"} : New(p, c, n, what)
         \/ \E c \in Conn : Delete(p, c)
         \/ Lock(p) \/ Look(p) \/ Inventory(p) \/ ReadKeychain(p) \/ Verify(p)
         \/ VerifyLocal(p) \/ Persist(p) \/ WriteTmp(p) \/ Rename(p)
         \/ Migrate(p) \/ MintLook(p) \/ MintChain(p) \/ MintSet(p) \/ MintBack(p)
         \/ Install(p) \/ Crash(p)
    \/ LateWrite

Spec == Init /\ [][Next]_vars

----------------------------------------------------------------------------
(* Properties *)

Stored == {keychain, kfile} \union ToSet(side)

TypeOK ==
    /\ {keychain, kfile} \union ToSet(side) \subseteq 0 .. keys
    /\ conf \in [Conn -> {Absent, Plain, Empty} \union 1 .. keys]
    /\ lock \in Proc \union {None}
    /\ \A p \in Proc : proc[p].has => lock = p
    /\ \A p \in Proc : proc[p].key \in 0 .. keys

\* Wherever a process stops and whatever cannot be read, the key of a saved secret
\* is lost only where a write of the keychain that was given up came late, to
\* replace it or to be replaced itself, or where the local file was given another
\* key before the secret was saved.
LostOnlyUnsaved == Encrypted(conf) \subseteq Stored \union replaced \union slow

\* Connections of the list renamed at most once since it was read, and at no place
\* where another of the list is or was.
Places(r, c) == {Place[n] : n \in ToSet(r.names[c])}
Settled(r) == {c \in Conn : Len(r.names[c]) <= 2
                              /\ \A d \in Conn \ {c} : Places(r, c) \cap Places(r, d) = {}}

\* A save of a list read from this very file leaves every secret the user did
\* not touch as it was, whether it could be opened or not, also when its
\* connection was renamed, once and to a name and host of its own.
SaveKeeps ==
    [][\A p \in Proc :
         (At(p, "use") /\ proc[p].for = "save" /\ p \in current /\ proc'[p] # proc[p])
         => \A c \in Settled(proc[p]) \ proc[p].mine :
              conf'[c] = conf[c] \/ (conf[c] \in {Plain, proc[p].cache}
                                       /\ conf'[c] = proc[p].cache)]_vars

-----------------------------------------------------------------------------
(* What comments of the code say and the code does not do *)

\* No saved secret is lost for want of its key: it is in the keychain or in a
\* local file (crypto.rs:449: the only copy is never overwritten).
SecretsOpen == Encrypted(conf) \subseteq Stored

\* Nor by a late write of the keychain, whose number is bounded (crypto.rs:57).
LateWritesHarmless == Encrypted(conf) \subseteq Stored \union replaced

\* The ciphertext of a renamed connection is found by the name it was read with
\* (connections.rs:65), however often it is renamed.
RenamedKept ==
    [][\A p \in Proc :
         (At(p, "use") /\ proc[p].for = "save" /\ p \in current /\ proc'[p] # proc[p])
         => \A c \in Conn \ proc[p].mine :
              proc[p].mem[c] = "failed" => conf'[c] = conf[c]]_vars
=============================================================================
