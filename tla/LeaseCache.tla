------------------------------ MODULE LeaseCache ------------------------------
(***************************************************************************)
(* What auth-broker keeps of a lease, and what a revocation takes away:    *)
(* the lease row in postgres; and in memory the unlocked master key per    *)
(* bearer (cache), the session key per lease (lease_export_keys), and the  *)
(* capabilities /auth/check mints for /secrets/fetch (caps).               *)
(*                                                                         *)
(* A request validates its lease with a SELECT and an UPDATE, remembers    *)
(* the session key, unlocks or creates the tenant's vault, caches the      *)
(* master and mints a capability, each under its own lock.  Revocations,   *)
(* logouts, fetches and the pruner run in between.  Times are ages, which  *)
(* saturate at Horizon; a request keeps the instant it started at.         *)
(*                                                                         *)
(* All leases are of one tenant.  Each login has its own session key, and  *)
(* the vault opens with the key of the lease it was created under.         *)
(*                                                                         *)
(* Sources: auth-broker/src/handler.rs, cache.rs, caps.rs, admin.rs,       *)
(* auth/lease.rs, auth/endpoints.rs; vault/src/vault.rs as it uses it.     *)
(***************************************************************************)
EXTENDS Naturals

CONSTANTS
    Leases,     \* leases of one tenant, each with its bearer
    Reqs,       \* requests that carry a bearer; each mints at most one capability
    None,
    CapTtl,     \* CAP_TTL
    IdleTtl,    \* IDLE_TTL of the cache
    AbsoluteTtl,\* ABSOLUTE_TTL of the cache
    KeyTtl,     \* LEASE_EXPORT_KEY_TTL
    Horizon     \* bound: ages saturate here

ASSUME LeaseCacheAssumption ==
    /\ {CapTtl, IdleTtl, AbsoluteTtl, KeyTtl} \subseteq 0 .. Horizon
    /\ Horizon \in Nat
    /\ None \notin Leases /\ None \notin 0 .. Horizon

VARIABLES
    row,        \* lease rows: "none", "live", "lapsed" (idle or hard limit) or "revoked"
    since,      \* time since the revoking UPDATE was committed
    vault,      \* whose key seals the tenant's vault file, and who made it
    keys,       \* lease_export_keys: age of the entry, or None
    cache,      \* cache: None or [master, idle, age], per bearer
    caps,       \* caps: age of the capability a request minted, or None
    pc, kind, lease,    \* each request: next step, what it is, whose bearer
    age,        \* time since it started (the instant it stamps things with)
    master,     \* the vault it unlocked
    fetch,      \* how far a fetch with its capability has come
    revoker,    \* admin revocation of each lease: "idle" or "evict"
    pruned      \* None, or the bearers whose entries the pruner has just dropped

memory == <<keys, cache, caps>>
request == <<pc, kind, lease, age, master>>
others == <<fetch, revoker, pruned>>
vars == <<row, since, vault, memory, request, others>>

Ages == 0 .. Horizon
Entry == [master : Leases \X Reqs, idle : Ages, age : Ages]

\* A vault made under a lease of an earlier login.
Earlier == <<None, None>>

Init ==
    /\ row = [l \in Leases |-> "none"]
    /\ since = [l \in Leases |-> 0]
    /\ vault \in {None, Earlier}
    /\ keys = [l \in Leases |-> None]
    /\ cache = [l \in Leases |-> None]
    /\ caps = [r \in Reqs |-> None]
    /\ pc = [r \in Reqs |-> "idle"]
    /\ kind = [r \in Reqs |-> "check"]
    /\ lease = [r \in Reqs |-> None]
    /\ age = [r \in Reqs |-> 0]
    /\ master = [r \in Reqs |-> None]
    /\ fetch = [r \in Reqs |-> "idle"]
    /\ revoker = [l \in Leases |-> "idle"]
    /\ pruned = None

-----------------------------------------------------------------------------
\* Lease rows.

\* The end of login_finish: the row is inserted, the session key remembered.
Login(l) ==
    /\ row[l] = "none"
    /\ row' = [row EXCEPT ![l] = "live"]
    /\ keys' = [keys EXCEPT ![l] = 0]
    /\ UNCHANGED <<since, vault, cache, caps, request, others>>

\* expires_at or idle_extends_to passes.
Lapse(l) ==
    /\ row[l] = "live"
    /\ row' = [row EXCEPT ![l] = "lapsed"]
    /\ UNCHANGED <<since, vault, memory, request, others>>

\* The UPDATE that sets revoked_at.  Its value is the clock as the handler read
\* it, a little before; nothing but its being there is ever looked at.
Revoked(l) ==
    /\ row' = [row EXCEPT ![l] = "revoked"]
    /\ since' = [since EXCEPT ![l] = IF row[l] = "revoked" THEN @ ELSE 0]

\* Drop every capability of a lease (a bearer has one lease, so cohorts by
\* lease_id and by cache_key are the same).
EvictCaps(ls) == caps' = [r \in Reqs |-> IF lease[r] \in ls THEN None ELSE caps[r]]

-----------------------------------------------------------------------------
\* Requests that carry a bearer: /auth/check, /api/auth/logout, and those
\* that only look the lease up (whoami, wrapped-export-key).

Start(r, k, l) ==
    /\ pc[r] = "idle"
    /\ row[l] # "none"
    /\ pc' = [pc EXCEPT ![r] = "select"]
    /\ kind' = [kind EXCEPT ![r] = k]
    /\ lease' = [lease EXCEPT ![r] = l]
    /\ UNCHANGED <<row, since, vault, memory, age, master, others>>

Goto(r, p) ==
    /\ pc' = [pc EXCEPT ![r] = p]
    /\ age' = IF p \in {"done", "refused", "locked"} THEN [age EXCEPT ![r] = 0] ELSE age
    /\ UNCHANGED <<kind, lease>>

\* validate_and_extend: SELECT and its checks ...
Select(r) ==
    /\ pc[r] = "select"
    /\ Goto(r, IF row[lease[r]] = "live" THEN "extend" ELSE "refused")
    /\ UNCHANGED <<row, since, vault, memory, master, others>>

\* Mutant: the row that was read is written back as a whole.
ExtendWholeRow(r) ==
    /\ pc[r] = "extend"
    /\ row' = [row EXCEPT ![lease[r]] = "live"]
    /\ Goto(r, "remember")
    /\ UNCHANGED <<since, vault, memory, master, others>>

\* ... and the UPDATE of idle_extends_to alone, which may revive a lease whose
\* idle window has passed in the meantime, and leaves revoked_at as it is.
Extend(r) ==
    /\ pc[r] = "extend"
    /\ \/ UNCHANGED row
       \/ /\ row[lease[r]] = "lapsed"
          /\ row' = [row EXCEPT ![lease[r]] = "live"]
    /\ Goto(r, "remember")
    /\ UNCHANGED <<since, vault, memory, master, others>>

\* Any database or tenant lookup failure, or a path of another tenant.
Refuse(r) ==
    /\ pc[r] \in {"select", "extend", "remember"}
    /\ Goto(r, "refused")
    /\ UNCHANGED <<row, since, vault, memory, master, others>>

Remember(r) ==
    /\ pc[r] = "remember"
    /\ keys' = [keys EXCEPT ![lease[r]] = 0]
    /\ Goto(r, CASE kind[r] = "check" -> "unlock"
                 [] kind[r] = "logout" -> "evict"
                 [] OTHER -> "done")
    /\ UNCHANGED <<row, since, vault, cache, caps, master, others>>

\* unlock_master: the vault opens only with the session key it was made with.
Unlock(r) ==
    /\ pc[r] = "unlock"
    /\ \/ /\ vault = None
          /\ Goto(r, "create")
          /\ UNCHANGED master
       \/ /\ vault # None /\ vault[1] = lease[r]
          /\ master' = [master EXCEPT ![r] = vault]
          /\ Goto(r, "cache")
       \/ /\ vault # None /\ vault[1] # lease[r]
          /\ Goto(r, "locked")
          /\ UNCHANGED master
    /\ UNCHANGED <<row, since, vault, memory, others>>

\* Vault::create: refused if the directory is not empty, else the file is
\* written.  Two creations may both have found it empty.
Create(r) ==
    /\ pc[r] = "create"
    /\ Goto(r, IF vault = None THEN "write" ELSE "refused")
    /\ UNCHANGED <<row, since, vault, memory, master, others>>

\* The file is written and unlocked.
WriteVault(r) ==
    /\ pc[r] = "write"
    /\ vault' = <<lease[r], r>>
    /\ master' = [master EXCEPT ![r] = <<lease[r], r>>]
    /\ Goto(r, "cache")
    /\ UNCHANGED <<row, since, memory, others>>

\* A bearer that is cached is only marked used: neither its master nor its
\* absolute deadline changes.
CacheMaster(r) ==
    /\ pc[r] = "cache"
    /\ LET l == lease[r]
       IN cache' = [cache EXCEPT ![l] =
            IF cache[l] # None
            THEN [master |-> cache[l].master, idle |-> age[r], age |-> cache[l].age]
            ELSE [master |-> master[r], idle |-> age[r], age |-> age[r]]]
    /\ Goto(r, "mint")
    /\ UNCHANGED <<row, since, vault, keys, caps, master, others>>

\* Mutant: the capability's minute starts when it is minted.
MintCapNow(r) ==
    /\ pc[r] = "mint"
    /\ caps' = [caps EXCEPT ![r] = 0]
    /\ Goto(r, "done")
    /\ UNCHANGED <<row, since, vault, keys, cache, master, others>>

\* The capability's minute starts when the request did.
MintCap(r) ==
    /\ pc[r] = "mint"
    /\ caps' = [caps EXCEPT ![r] = age[r]]
    /\ Goto(r, "done")
    /\ UNCHANGED <<row, since, vault, keys, cache, master, others>>

\* Logout drops the capabilities first and revokes the row after it.
LogoutEvict(r) ==
    /\ pc[r] = "evict"
    /\ EvictCaps({lease[r]})
    /\ Goto(r, "revoke")
    /\ UNCHANGED <<row, since, vault, keys, cache, master, others>>

LogoutRevoke(r) ==
    /\ pc[r] = "revoke"
    /\ \/ Revoked(lease[r]) /\ Goto(r, "done")
       \/ UNCHANGED <<row, since>> /\ Goto(r, "refused")
    /\ UNCHANGED <<vault, memory, master, others>>

-----------------------------------------------------------------------------
\* DELETE /admin/api/v1/leases/{id}

AdminRevoke(l) ==
    /\ revoker[l] = "idle" /\ row[l] \in {"live", "lapsed"}
    /\ Revoked(l)
    /\ revoker' = [revoker EXCEPT ![l] = "evict"]
    /\ UNCHANGED <<vault, memory, request, fetch, pruned>>

AdminEvict(l) ==
    /\ revoker[l] = "evict"
    /\ EvictCaps({l})
    /\ revoker' = [revoker EXCEPT ![l] = "idle"]
    /\ UNCHANGED <<row, since, vault, keys, cache, request, fetch, pruned>>

-----------------------------------------------------------------------------
\* GET /secrets/fetch with the capability request r was given.

EntryExpired(l) == cache[l].age > AbsoluteTtl \/ cache[l].idle > IdleTtl

FetchCap(r) ==
    /\ fetch[r] = "idle" /\ caps[r] # None
    /\ \/ /\ caps[r] >= CapTtl
          /\ caps' = [caps EXCEPT ![r] = None]
          /\ UNCHANGED fetch
       \/ /\ caps[r] < CapTtl
          /\ fetch' = [fetch EXCEPT ![r] = "open"]
          /\ UNCHANGED caps
    /\ UNCHANGED <<row, since, vault, keys, cache, request, revoker, pruned>>

\* The entry is missing or expired: it is dropped, then the capabilities are.
\* The vault does not open with its master: only the capabilities are.
FetchOpen(r) ==
    /\ fetch[r] = "open"
    /\ LET l == lease[r]
           gone == cache[l] = None \/ EntryExpired(l)
           stale == ~gone /\ cache[l].master # vault
       IN /\ cache' = IF gone THEN [cache EXCEPT ![l] = None] ELSE cache
          /\ fetch' = [fetch EXCEPT ![r] = IF gone \/ stale THEN "evict" ELSE "idle"]
    /\ UNCHANGED <<row, since, vault, keys, caps, request, revoker, pruned>>

FetchEvict(r) ==
    /\ fetch[r] = "evict"
    /\ EvictCaps({lease[r]})
    /\ fetch' = [fetch EXCEPT ![r] = "idle"]
    /\ UNCHANGED <<row, since, vault, keys, cache, request, revoker, pruned>>

-----------------------------------------------------------------------------
\* The pruner: the cache under its lock, then capabilities and session keys.

StaleEntries == {l \in Leases : cache[l] # None /\ EntryExpired(l)}

PruneCache ==
    /\ pruned = None
    /\ cache' = [l \in Leases |-> IF l \in StaleEntries THEN None ELSE cache[l]]
    /\ pruned' = StaleEntries
    /\ UNCHANGED <<row, since, vault, keys, caps, request, fetch, revoker>>

\* Mutant: only the capabilities of dropped entries are looked at.
PruneRestOrphans ==
    /\ pruned # None
    /\ caps' = [r \in Reqs |-> IF lease[r] \in pruned THEN None ELSE caps[r]]
    /\ keys' = [l \in Leases |-> IF keys[l] # None /\ keys[l] > KeyTtl THEN None ELSE keys[l]]
    /\ pruned' = None
    /\ UNCHANGED <<row, since, vault, cache, request, fetch, revoker>>

PruneRest ==
    /\ pruned # None
    /\ caps' = [r \in Reqs |-> IF lease[r] \in pruned \/ (caps[r] # None /\ caps[r] >= CapTtl)
                               THEN None ELSE caps[r]]
    /\ keys' = [l \in Leases |-> IF keys[l] # None /\ keys[l] > KeyTtl THEN None ELSE keys[l]]
    /\ pruned' = None
    /\ UNCHANGED <<row, since, vault, cache, request, fetch, revoker>>

-----------------------------------------------------------------------------

Older(a) == IF a < Horizon THEN a + 1 ELSE a
OlderIfAny(a) == IF a = None THEN None ELSE Older(a)

Tick ==
    /\ since' = [l \in Leases |-> IF row[l] = "revoked" THEN Older(since[l]) ELSE since[l]]
    /\ keys' = [l \in Leases |-> OlderIfAny(keys[l])]
    /\ cache' = [l \in Leases |->
         IF cache[l] = None THEN None
         ELSE [master |-> cache[l].master, idle |-> Older(cache[l].idle), age |-> Older(cache[l].age)]]
    /\ caps' = [r \in Reqs |-> OlderIfAny(caps[r])]
    /\ age' = [r \in Reqs |-> IF pc[r] \in {"idle", "done", "refused", "locked"} THEN age[r]
                              ELSE Older(age[r])]
    /\ UNCHANGED <<row, vault, pc, kind, lease, master, others>>

InFlight == {r \in Reqs : pc[r] \notin {"idle", "done", "refused", "locked"}}

\* auth-broker restarts: rows and vault stay, everything else is gone.
Restart ==
    /\ keys' = [l \in Leases |-> None]
    /\ cache' = [l \in Leases |-> None]
    /\ caps' = [r \in Reqs |-> None]
    /\ pc' = [r \in Reqs |-> IF r \in InFlight THEN "refused" ELSE pc[r]]
    /\ age' = [r \in Reqs |-> 0]
    /\ fetch' = [r \in Reqs |-> "idle"]
    /\ revoker' = [l \in Leases |-> "idle"]
    /\ pruned' = None
    /\ UNCHANGED <<row, since, vault, kind, lease, master>>

Step(r) ==
    \/ Select(r) \/ Extend(r) \/ Refuse(r) \/ Remember(r) \/ Unlock(r) \/ Create(r)
    \/ WriteVault(r) \/ CacheMaster(r) \/ MintCap(r) \/ LogoutEvict(r) \/ LogoutRevoke(r)

Next ==
    \/ Tick \/ PruneCache \/ PruneRest \/ Restart
    \/ \E l \in Leases : Login(l) \/ Lapse(l) \/ AdminRevoke(l) \/ AdminEvict(l)
    \/ \E r \in Reqs : Step(r) \/ FetchCap(r) \/ FetchOpen(r) \/ FetchEvict(r)
    \/ \E r \in Reqs, k \in {"check", "logout", "look"}, l \in Leases : Start(r, k, l)

Spec == Init /\ [][Next]_vars

\* Tasks that were started run on, time passes, the pruner loops.
FairSpec ==
    /\ Spec
    /\ WF_vars(Tick) /\ WF_vars(PruneCache) /\ WF_vars(PruneRest)
    /\ \A r \in Reqs : WF_vars(Step(r)) /\ WF_vars(FetchOpen(r))

-----------------------------------------------------------------------------

TypeOK ==
    /\ row \in [Leases -> {"none", "live", "lapsed", "revoked"}]
    /\ since \in [Leases -> Ages]
    /\ vault \in (Leases \X Reqs) \cup {None, Earlier}
    /\ keys \in [Leases -> Ages \cup {None}]
    /\ cache \in [Leases -> Entry \cup {None}]
    /\ caps \in [Reqs -> Ages \cup {None}]
    /\ pc \in [Reqs -> {"idle", "select", "extend", "remember", "unlock", "create", "write", "cache",
                        "mint", "evict", "revoke", "done", "refused", "locked"}]
    /\ kind \in [Reqs -> {"check", "logout", "look"}]
    /\ lease \in [Reqs -> Leases \cup {None}]
    /\ age \in [Reqs -> Ages]
    /\ master \in [Reqs -> (Leases \X Reqs) \cup {None}]
    /\ fetch \in [Reqs -> {"idle", "open", "evict"}]
    /\ revoker \in [Leases -> {"idle", "evict"}]
    /\ pruned \in (SUBSET Leases) \cup {None}

\* A capability of a revoked lease is at least as old as the revocation, so
\* none is accepted CAP_TTL after it, also not one minted after the eviction
\* by a check that was validated before the revocation: a request's
\* capability counts its minute from the request's start.
RevokedCapsExpire ==
    \A r \in Reqs : caps[r] # None /\ row[lease[r]] = "revoked" => caps[r] >= since[lease[r]]

\* No step makes a revoked lease valid again, in particular not the UPDATE of
\* a validation that read the row before the revocation.
RevocationIsFinal == [][\A l \in Leases : row[l] = "revoked" => row'[l] = "revoked"]_vars

\* Once a lease is revoked its master key, its session key and its
\* capabilities leave the broker's memory for good, although neither logout
\* nor the admin revocation touches the first two.
RevokedIsForgotten ==
    \A l \in Leases : row[l] = "revoked" ~>
      [](cache[l] = None /\ keys[l] = None /\ \A r \in Reqs : lease[r] = l => caps[r] = None)

\* INV-2 of auth-broker/README.md: the bearer of a valid lease is enough to
\* unseal the vault.
BearerUnlocks == \A r \in Reqs : pc[r] # "locked"
=============================================================================
