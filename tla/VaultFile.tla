------------------------------ MODULE VaultFile ------------------------------
(***************************************************************************)
(* The vault of one tenant on disk: the sealed file vault.botwork, replaced*)
(* whole by a rename, and the generation counter beside it, which a writer *)
(* locks, compares with the generation it opened at, and increments.       *)
(*                                                                         *)
(* It is used by auth-broker requests, whose stores and deletes hold the   *)
(* tenant's write lock from before the file is opened, and by              *)
(* botwork-vault processes, which know nothing of that lock.  Opening      *)
(* reads the file and then the counter, under no lock; creating writes the *)
(* file and then resets the counter.  A process may be killed anywhere.    *)
(*                                                                         *)
(* A secret is the handle that wrote it.  Handles hold the right key (the  *)
(* keys are LeaseCache's subject) and do one operation each.               *)
(*                                                                         *)
(* Sources: vault/src/vault.rs, lock.rs, atomic.rs, public.rs,             *)
(* bin/botwork_vault.rs; auth-broker/src/secrets.rs, handler.rs, cache.rs. *)
(***************************************************************************)
EXTENDS Naturals

CONSTANTS
    Requests,   \* requests auth-broker serves
    Commands,   \* botwork-vault processes
    Keys,       \* SecretKey: service and name
    None

Handles == Requests \cup Commands

ASSUME VaultFileAssumption ==
    /\ Requests \cap Commands = {}
    /\ None \notin Handles
    /\ None \notin [Keys -> Handles \cup {None}]

VARIABLES
    root,       \* the vault directory: "absent", "empty" or "used" (anything but the file in it)
    file,       \* vault.botwork: None or the secrets in it
    gen,        \* the counter in vault.botwork.gen (an absent or empty file reads as 0)
    flock,      \* who holds the lock on the counter file
    tenantLock, \* who holds the tenant's write lock
    pc,         \* each handle: its next step, or that it is over
    op, key,    \* what it does, to which secret
    contents,   \* VaultContents it holds
    generation, \* the generation it expects (from read to peek, for the properties: the
                \* counter when it read the file)
    \* History, for the properties:
    owed,       \* the last acknowledged write of each secret
    pending,    \* writes of it that reached the file since and were not acknowledged
    overtaken   \* which unlocked windows another writer got into

disk == <<root, file, gen>>
locks == <<flock, tenantLock>>
state == <<contents, generation>>
history == <<owed, pending, overtaken>>
vars == <<disk, locks, pc, op, key, state, history>>

Values == Handles \cup {None}
Empty == [k \in Keys |-> None]
Writes == {"store", "overwrite", "delete"}
Ops == Writes \cup {"fetch", "check", "init"}
Ended == {"done", "conflict"}
Steps == {"read", "peek", "acquire", "replace", "bump", "check", "write", "init"}

Init ==
    /\ \/ root = "absent" /\ file = None
       \/ root = "used" /\ file = Empty
    /\ gen = 0
    /\ flock = None
    /\ tenantLock = None
    /\ pc = [h \in Handles |-> "idle"]
    /\ op = [h \in Handles |-> None]
    /\ key = [h \in Handles |-> None]
    /\ contents = [h \in Handles |-> Empty]
    /\ generation = [h \in Handles |-> 0]
    /\ owed = Empty
    /\ pending = [k \in Keys |-> {}]
    /\ overtaken = {}

Goto(h, p) == pc' = [pc EXCEPT ![h] = p]

\* Drop the vault and both locks, and answer.
End(h, result) ==
    /\ Goto(h, result)
    /\ op' = [op EXCEPT ![h] = None]
    /\ key' = [key EXCEPT ![h] = None]
    /\ contents' = [contents EXCEPT ![h] = Empty]
    /\ generation' = [generation EXCEPT ![h] = 0]
    /\ flock' = IF flock = h THEN None ELSE flock
    /\ tenantLock' = IF tenantLock = h THEN None ELSE tenantLock

\* Mutant: the request opens the vault before it takes the tenant's lock.
BeginUnlocked(h, o, k) ==
    /\ pc[h] = "idle"
    /\ h \in Requests => o # "init"
    /\ h \in Commands => o # "check"
    /\ op' = [op EXCEPT ![h] = o]
    /\ key' = [key EXCEPT ![h] = k]
    /\ Goto(h, IF o = "init" THEN "check" ELSE "read")
    /\ UNCHANGED <<disk, locks, state, history>>

\* A request arrives or a command starts: store, overwrite, delete; fetch
\* (also get, list and verify); check (/auth/check, which creates a missing
\* vault); init.
Begin(h, o, k) ==
    /\ pc[h] = "idle"
    /\ h \in Requests => o # "init"
    /\ h \in Commands => o # "check"
    /\ op' = [op EXCEPT ![h] = o]
    /\ key' = [key EXCEPT ![h] = k]
    /\ Goto(h, IF o = "init" THEN "check" ELSE "read")
    /\ IF h \in Requests /\ o \in Writes
         THEN tenantLock = None /\ tenantLock' = h
         ELSE UNCHANGED tenantLock
    /\ UNCHANGED <<disk, flock, state, history>>

\* init --force --yes-really-overwrite removes the directory first, together
\* with the counter file whose lock a writer may hold.
BeginForce(h) ==
    /\ pc[h] = "idle" /\ h \in Commands
    /\ op' = [op EXCEPT ![h] = "init"]
    /\ Goto(h, "check")
    /\ root' = "absent" /\ file' = None /\ gen' = 0
    /\ flock' = None
    /\ owed' = Empty
    /\ pending' = [k \in Keys |-> {}]
    /\ overtaken' = IF \E i \in Handles \ {h} : pc[i] \in Steps THEN overtaken \cup {"force"} ELSE overtaken
    /\ UNCHANGED <<tenantLock, key, state>>

\* pubkey add: a file under public/, in a root that exists.
PubkeyAdd(h) ==
    /\ pc[h] = "idle" /\ h \in Commands
    /\ Goto(h, "done")
    /\ root' = IF root = "absent" THEN root ELSE "used"
    /\ UNCHANGED <<file, gen, locks, op, key, state, history>>

-----------------------------------------------------------------------------
\* Opening: unlock_master and open_with_master read the file ...
Read(h) ==
    /\ pc[h] = "read"
    /\ \/ /\ file # None
          /\ contents' = [contents EXCEPT ![h] = file]
          /\ generation' = [generation EXCEPT ![h] = gen]
          /\ Goto(h, "peek")
          /\ UNCHANGED <<locks, op, key>>
       \/ /\ file = None /\ op[h] = "check"
          /\ Goto(h, "check")
          /\ UNCHANGED <<locks, op, key, state>>
       \/ /\ file = None /\ op[h] # "check"
          /\ End(h, "done")
    /\ UNCHANGED <<disk, history>>

\* The secrets a handle would write: put_secret and delete_secret.
Mutated(h) == [contents[h] EXCEPT ![key[h]] = IF op[h] = "delete" THEN None ELSE h]

\* What has_secret and delete_secret turn away: a store over a secret that is
\* there, a delete of one that is not.
TurnedAway(h) ==
    \/ op[h] = "store" /\ contents[h][key[h]] # None
    \/ op[h] = "delete" /\ contents[h][key[h]] = None

\* ... and then the counter.  What follows is in memory: the gates and the
\* change to the contents.
Peek(h) ==
    /\ pc[h] = "peek"
    /\ \/ /\ op[h] \in Writes /\ ~TurnedAway(h)
          /\ generation' = [generation EXCEPT ![h] = gen]
          /\ contents' = [contents EXCEPT ![h] = Mutated(h)]
          /\ overtaken' = IF generation[h] # gen /\ contents[h] # file
                            THEN overtaken \cup {"open"} ELSE overtaken
          /\ Goto(h, "acquire")
          /\ UNCHANGED <<locks, op, key>>
       \/ /\ op[h] \in Writes => TurnedAway(h)
          /\ End(h, "done")
          /\ UNCHANGED overtaken
    /\ UNCHANGED <<disk, owed, pending>>

-----------------------------------------------------------------------------
\* persist.

\* Mutant: the generation is not compared.
AcquireUnchecked(h) ==
    /\ pc[h] = "acquire"
    /\ flock = None /\ root # "absent"
    /\ flock' = h
    /\ root' = "used"
    /\ Goto(h, "replace")
    /\ UNCHANGED <<file, gen, tenantLock, op, key, state, history>>

\* VaultLock::acquire, which waits for the lock, and the comparison.
Acquire(h) ==
    /\ pc[h] = "acquire"
    /\ flock = None /\ root # "absent"
    /\ root' = "used"
    /\ IF generation[h] = gen
         THEN flock' = h /\ Goto(h, "replace") /\ UNCHANGED <<tenantLock, op, key, state>>
         ELSE End(h, "conflict")
    /\ UNCHANGED <<file, gen, history>>

\* atomic_write_private: the rename.
Replace(h) ==
    /\ pc[h] = "replace"
    /\ root # "absent"
    /\ root' = "used"
    /\ file' = contents[h]
    /\ pending' = [pending EXCEPT ![key[h]] = @ \cup {contents[h][key[h]]}]
    /\ Goto(h, "bump")
    /\ UNCHANGED <<gen, locks, op, key, state, owed, overtaken>>

\* VaultLock::bump, on the counter file that was locked: one that has been
\* removed since is incremented where nobody will read it.  The caller is told,
\* or an error or a kill comes between the counter and the answer.
Bump(h) ==
    /\ pc[h] = "bump"
    /\ gen' = IF flock = h THEN gen + 1 ELSE gen
    /\ \/ /\ owed' = [owed EXCEPT ![key[h]] = contents[h][key[h]]]
          /\ pending' = [pending EXCEPT ![key[h]] = {}]
       \/ UNCHANGED <<owed, pending>>
    /\ End(h, "done")
    /\ UNCHANGED <<root, file, overtaken>>

-----------------------------------------------------------------------------
\* create.

\* The root must be absent or empty.
CheckRoot(h) ==
    /\ pc[h] = "check"
    /\ IF root = "used" \/ file # None
         THEN End(h, "done") /\ UNCHANGED root
         ELSE Goto(h, "write") /\ root' = "empty" /\ UNCHANGED <<locks, op, key, state>>
    /\ UNCHANGED <<file, gen, history>>

WriteNew(h) ==
    /\ pc[h] = "write"
    /\ root # "absent"
    /\ file' = Empty
    /\ overtaken' = IF file # None THEN overtaken \cup {"create"} ELSE overtaken
    /\ Goto(h, "init")
    /\ UNCHANGED <<root, gen, locks, op, key, state, owed, pending>>

\* init_generation, which waits for the counter's lock.  /auth/check opens
\* the new vault afterwards.
InitGeneration(h) ==
    /\ pc[h] = "init"
    /\ flock = None /\ root # "absent"
    /\ root' = "used"
    /\ gen' = 0
    /\ overtaken' = IF gen # 0 THEN overtaken \cup {"reset"} ELSE overtaken
    /\ IF op[h] = "check"
         THEN Goto(h, "read") /\ UNCHANGED <<locks, op, key, state>>
         ELSE End(h, "done")
    /\ UNCHANGED <<file, owed, pending>>

-----------------------------------------------------------------------------
\* The directory has been removed under the handle: files cannot be opened or
\* created in it.
Vanished(h) ==
    /\ pc[h] \in {"acquire", "replace", "write", "init"}
    /\ root = "absent"
    /\ End(h, "done")
    /\ UNCHANGED <<disk, history>>

\* Mutant: an error returns with the counter still locked.
FailLocked(h) ==
    /\ pc[h] \in Steps
    /\ Goto(h, "done")
    /\ tenantLock' = IF tenantLock = h THEN None ELSE tenantLock
    /\ UNCHANGED <<disk, flock, op, key, state, history>>

\* Any I/O error: the error is returned and the locks are dropped.
Fail(h) ==
    /\ pc[h] \in Steps
    /\ End(h, "done")
    /\ UNCHANGED <<disk, history>>

\* A process is killed: its locks are gone, a temporary file may stay.
Killed(hs) ==
    /\ \E h \in hs : pc[h] \in Steps
    /\ pc' = [h \in Handles |-> IF h \in hs /\ pc[h] \in Steps THEN "done" ELSE pc[h]]
    /\ op' = [h \in Handles |-> IF h \in hs THEN None ELSE op[h]]
    /\ key' = [h \in Handles |-> IF h \in hs THEN None ELSE key[h]]
    /\ contents' = [h \in Handles |-> IF h \in hs THEN Empty ELSE contents[h]]
    /\ generation' = [h \in Handles |-> IF h \in hs THEN 0 ELSE generation[h]]
    /\ flock' = IF flock \in hs THEN None ELSE flock
    /\ tenantLock' = IF tenantLock \in hs THEN None ELSE tenantLock
    /\ \/ UNCHANGED root
       \/ /\ root # "absent" /\ root' = "used"
          /\ \E h \in hs : pc[h] \in {"replace", "write"}
    /\ UNCHANGED <<file, gen, history>>

Crash == Killed(Requests) \/ \E h \in Commands : Killed({h})

Work(h) ==
    \/ Read(h) \/ Peek(h)
    \/ Acquire(h) \/ Replace(h) \/ Bump(h)
    \/ CheckRoot(h) \/ WriteNew(h) \/ InitGeneration(h)
    \/ Vanished(h)

Next ==
    \/ \E h \in Handles :
         \/ \E o \in Ops, k \in Keys : Begin(h, o, k)
         \/ BeginForce(h)
         \/ PubkeyAdd(h)
         \/ Work(h)
         \/ Fail(h)
    \/ Crash

Spec == Init /\ [][Next]_vars

\* A handle that has begun keeps running; a lock that is free is granted.
FairSpec == Spec /\ \A h \in Handles : WF_vars(Work(h))

-----------------------------------------------------------------------------
TypeOK ==
    /\ root \in {"absent", "empty", "used"}
    /\ file \in [Keys -> Values] \cup {None}
    /\ gen \in Nat
    /\ flock \in Values /\ tenantLock \in Values
    /\ pc \in [Handles -> {"idle"} \cup Steps \cup Ended]
    /\ op \in [Handles -> Ops \cup {None}]
    /\ key \in [Handles -> Keys \cup {None}]
    /\ contents \in [Handles -> [Keys -> Values]]
    /\ generation \in [Handles -> Nat]
    /\ owed \in [Keys -> Values]
    /\ pending \in [Keys -> SUBSET Values]
    /\ overtaken \subseteq {"open", "create", "reset", "force"}

\* A stored or deleted secret stays so: what the file says of a secret is its
\* last acknowledged write, or a later one that was cut short -- unless a
\* writer got into one of the windows that no lock covers: between the two
\* reads of open, between create's check and its write, between that and the
\* reset of the counter, or under an init --force.
AckedWritesSurvive ==
    overtaken = {} /\ file # None => \A k \in Keys : file[k] \in {owed[k]} \cup pending[k]

\* ---- Statements of the comments and docs that the code does not meet.  No run
\* checks this one; the README gives the trace that breaks it.

\* What lock.rs says of the counter: it detects stale reads, so an
\* acknowledged write survives whatever the interleaving (init --force apart).
CasDetectsStaleReads ==
    overtaken \cap {"create", "reset", "force"} = {} /\ file # None =>
        \A k \in Keys : file[k] \in {owed[k]} \cup pending[k]

\* Requests of auth-broker never run into one another: with no command
\* running, nothing overtakes an open, and no request is told of a conflict
\* (creation apart, which does not take the tenant's lock).
RequestsSerialise ==
    (\A h \in Commands : pc[h] = "idle") /\ overtaken \cap {"create", "reset"} = {} =>
        "open" \notin overtaken /\ \A h \in Requests : pc[h] # "conflict"

\* Whatever fails or is killed, the locks it held are free again and every
\* operation ends.
OperationsEnd == \A h \in Handles : pc[h] \in Steps ~> pc[h] \in Ended
=============================================================================
