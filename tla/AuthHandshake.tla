---------------------------- MODULE AuthHandshake ----------------------------
(***************************************************************************)
(* How a tenant gets its password file and its leases: the invitation rows *)
(* an operator creates, renews and revokes, the registration that consumes *)
(* one and stores the OPAQUE password file, and the two-message login that *)
(* keeps its server state in the pending map and ends in a lease.          *)
(*                                                                         *)
(* Every database statement is a step of its own: verify_and_consume reads *)
(* the invitation and updates it outside a transaction, so revocations and *)
(* other registrations come in between.  auth-broker may restart, which    *)
(* loses the pending map and the requests in flight.                       *)
(*                                                                         *)
(* OPAQUE itself is what its users rely on: a login succeeds exactly when  *)
(* the client's password is the one behind the password file that was      *)
(* loaded at the start, and never against the dummy file.                  *)
(*                                                                         *)
(* A request over its rate limit, of an unknown tenant to register, or     *)
(* malformed in what is decoded first, is answered before anything is      *)
(* read: it is no step here.  RateLimiter has the buckets.                 *)
(*                                                                         *)
(* Sources: auth-broker/src/auth/endpoints.rs, invitation.rs, opaque.rs,   *)
(* pending.rs; handler.rs (/api/auth/login).                               *)
(***************************************************************************)
EXTENDS Naturals

CONSTANTS
    Tenants,        \* tenants with a row
    Unknown,        \* a requested name no tenant has
    Files,          \* registration uploads, each with its own password
    NoFile,         \* no row, hence the dummy login; or an upload that is malformed
    Invites,        \* one-time passwords; each is issued at most once
    Regs,           \* /auth/register/finish requests
    Handshakes,     \* handshake ids, each used at most once
    Finishes,       \* login finish requests
    None,
    InviteTtl,      \* lifetime of an invitation
    PendingTtl      \* PENDING_TTL

ASSUME AuthHandshakeAssumption ==
    /\ Unknown \notin Tenants /\ NoFile \notin Files
    /\ None \notin Tenants
    /\ None \notin [tenant : Tenants \cup {None}, file : Files \cup {NoFile}, age : Nat]
    /\ InviteTtl \in Nat /\ PendingTtl \in Nat

VARIABLES
    owner,      \* invitation rows: tenant_id, None before the row is inserted
    life,       \*   time left until expires_at
    consumed,   \*   those with consumed_at set
    revoked,    \*   those with revoked_at set
    files,      \* opaque_password_file rows
    leases,     \* login finishes that inserted a lease row
    pending,    \* pending map: None or [tenant, file, age]
    issued,     \* handshake ids given out
    regPc,      \* how far each registration has come
    reg,        \* what it asks for: [tenant, otp, upload]
    finPc,      \* how far each login finish has come
    fin         \* [hs, tenant, password] of each

invitation == <<owner, life, consumed, revoked>>
registration == <<regPc, reg>>
login == <<pending, issued, finPc, fin>>
vars == <<invitation, files, leases, login, registration>>

Pending == [tenant : Tenants \cup {None}, file : Files \cup {NoFile}, age : 0 .. (PendingTtl + 1)]
Request == [tenant : Tenants, otp : Invites, upload : Files \cup {NoFile}]
Finish == [hs : Handshakes, tenant : Tenants \cup {None}, password : Files \cup {NoFile}]

Init ==
    /\ owner = [i \in Invites |-> None]
    /\ life = [i \in Invites |-> 0]
    /\ consumed = {} /\ revoked = {}
    /\ files = [t \in Tenants |-> NoFile]
    /\ leases = {}
    /\ pending = [h \in Handshakes |-> None]
    /\ issued = {}
    /\ regPc = [r \in Regs |-> "idle"]
    /\ reg = [r \in Regs |-> None]
    /\ finPc = [f \in Finishes |-> "idle"]
    /\ fin = [f \in Finishes |-> None]

-----------------------------------------------------------------------------
\* Invitations.

\* unconsumed, unexpired and unrevoked
Outstanding(t) == {i \in Invites : owner[i] = t /\ life[i] > 0} \ (consumed \cup revoked)

NewInvite(i, t) ==
    /\ owner[i] = None
    /\ owner' = [owner EXCEPT ![i] = t]
    /\ life' = [life EXCEPT ![i] = InviteTtl]

CreateInvitation(i, t) ==
    /\ NewInvite(i, t)
    /\ UNCHANGED <<consumed, revoked, files, leases, login, registration>>

\* One transaction: revoke what is outstanding, insert the fresh one.
RenewInvitation(i, t) ==
    /\ revoked' = revoked \cup Outstanding(t)
    /\ NewInvite(i, t)
    /\ UNCHANGED <<consumed, files, leases, login, registration>>

RevokeInvitations(t) ==
    /\ revoked' = revoked \cup Outstanding(t)
    /\ UNCHANGED <<owner, life, consumed, files, leases, login, registration>>

-----------------------------------------------------------------------------
\* Registration.

RegisterFinish(r, q) ==
    /\ regPc[r] = "idle"
    /\ regPc' = [regPc EXCEPT ![r] = "select"]
    /\ reg' = [reg EXCEPT ![r] = q]
    /\ UNCHANGED <<invitation, files, leases, login>>

Answer(r, a) == regPc' = [regPc EXCEPT ![r] = a] /\ UNCHANGED reg

\* verify_and_consume, SELECT and the checks on the row it returned.
SelectInvitation(r) ==
    /\ regPc[r] = "select"
    /\ Answer(r, IF reg[r].otp \in Outstanding(reg[r].tenant) THEN "consume" ELSE "refused")
    /\ UNCHANGED <<invitation, files, leases, login>>

\* Mutant: the UPDATE trusts the SELECT.
ConsumeUnguarded(r) ==
    /\ regPc[r] = "consume"
    /\ consumed' = consumed \cup {reg[r].otp}
    /\ Answer(r, "store")
    /\ UNCHANGED <<owner, life, revoked, files, leases, login>>

\* verify_and_consume, UPDATE ... WHERE id = row.id AND consumed_at IS NULL.
\* Neither the revocation nor the expiry is looked at again.
ConsumeInvitation(r) ==
    /\ regPc[r] = "consume"
    /\ consumed' = consumed \cup {reg[r].otp}
    /\ Answer(r, IF reg[r].otp \in consumed THEN "refused" ELSE "store")
    /\ UNCHANGED <<owner, life, revoked, files, leases, login>>

\* Mutant: a second registration replaces the row.
UpsertReplaces(r) ==
    /\ regPc[r] = "store"
    /\ \/ /\ reg[r].upload # NoFile
          /\ files' = [files EXCEPT ![reg[r].tenant] = reg[r].upload]
          /\ Answer(r, "created")
       \/ /\ reg[r].upload = NoFile
          /\ Answer(r, "refused")
          /\ UNCHANGED files
    /\ UNCHANGED <<invitation, leases, login>>

\* A malformed upload is found out only now, with the invitation consumed.
\* INSERT ... ON CONFLICT DO NOTHING, then the stored bytes are compared.
UpsertPasswordFile(r) ==
    /\ regPc[r] = "store"
    /\ LET t == reg[r].tenant
           u == reg[r].upload
       IN \/ /\ u # NoFile /\ files[t] \in {NoFile, u}
             /\ files' = [files EXCEPT ![t] = u]
             /\ Answer(r, "created")
          \/ /\ u = NoFile \/ files[t] \notin {NoFile, u}
             /\ Answer(r, "refused")
             /\ UNCHANGED files
    /\ UNCHANGED <<invitation, leases, login>>

\* Any of the statements fails: 500, what was done stays done.
RegisterFails(r) ==
    /\ regPc[r] \in {"select", "consume", "store"}
    /\ Answer(r, "refused")
    /\ UNCHANGED <<invitation, files, leases, login>>

-----------------------------------------------------------------------------
\* Login.

\* login_start_inner: look up tenant and file, stash the server state.  A
\* tenant without a file keeps its id and goes through the dummy flow.
LoginStart(h, t) ==
    /\ h \notin issued
    /\ issued' = issued \cup {h}
    /\ pending' = [pending EXCEPT ![h] =
                     [tenant |-> IF t \in Tenants THEN t ELSE None,
                      file |-> IF t \in Tenants THEN files[t] ELSE NoFile,
                      age |-> 0]]
    /\ UNCHANGED <<finPc, fin, invitation, files, leases, registration>>

\* The handshake is there, young enough, and the finalization is the one the
\* password behind the file produces; the dummy file has none.
Verifies(h, p) ==
    /\ pending[h] # None
    /\ pending[h].age <= PendingTtl
    /\ p # NoFile /\ pending[h].file = p
    /\ pending[h].tenant # None

Finished(f, h, p, ok) ==
    /\ finPc[f] = "idle" /\ h \in issued
    /\ finPc' = [finPc EXCEPT ![f] = IF ok THEN "insert" ELSE "refused"]
    /\ fin' = [fin EXCEPT ![f] =
                 [hs |-> h, password |-> p, tenant |-> IF ok THEN pending[h].tenant ELSE None]]

\* Mutant: the handshake stays in the map once it is verified.
LoginFinishKeeps(f, h, p) ==
    /\ Finished(f, h, p, Verifies(h, p))
    /\ UNCHANGED <<pending, issued, invitation, files, leases, registration>>

\* login_finish_inner up to the insert: take removes the entry whatever
\* comes of it, then its age, the finalization and the tenant are checked.
LoginFinish(f, h, p) ==
    /\ Finished(f, h, p, Verifies(h, p))
    /\ pending' = [pending EXCEPT ![h] = None]
    /\ UNCHANGED <<issued, invitation, files, leases, registration>>

\* The bearer is minted and the lease row inserted, or the insert fails.
InsertLease(f) ==
    /\ finPc[f] = "insert"
    /\ \/ /\ leases' = leases \cup {f}
          /\ finPc' = [finPc EXCEPT ![f] = "done"]
       \/ /\ finPc' = [finPc EXCEPT ![f] = "refused"]
          /\ UNCHANGED leases
    /\ UNCHANGED <<pending, issued, fin, invitation, files, registration>>

-----------------------------------------------------------------------------
\* Time, the pruner and restarts.

Aged(e) == IF e = None \/ e.age > PendingTtl THEN e
           ELSE [tenant |-> e.tenant, file |-> e.file, age |-> e.age + 1]

Tick ==
    /\ life' = [i \in Invites |-> IF life[i] = 0 THEN 0 ELSE life[i] - 1]
    /\ pending' = [h \in Handshakes |-> Aged(pending[h])]
    /\ UNCHANGED <<owner, consumed, revoked, files, leases, issued, finPc, fin, registration>>

Expired == {h \in Handshakes : pending[h] # None /\ pending[h].age > PendingTtl}

\* Mutant: entries of unknown tenants are kept.
SweepPendingKnown ==
    /\ pending' = [h \in Handshakes |-> IF h \in Expired /\ pending[h].tenant # None
                                        THEN None ELSE pending[h]]
    /\ UNCHANGED <<issued, finPc, fin, invitation, files, leases, registration>>

SweepPending ==
    /\ pending' = [h \in Handshakes |-> IF h \in Expired THEN None ELSE pending[h]]
    /\ UNCHANGED <<issued, finPc, fin, invitation, files, leases, registration>>

\* The process restarts: its memory and the requests in flight are gone.
Restart ==
    /\ pending' = [h \in Handshakes |-> None]
    /\ regPc' = [r \in Regs |-> IF regPc[r] \in {"select", "consume", "store"}
                                THEN "refused" ELSE regPc[r]]
    /\ finPc' = [f \in Finishes |-> IF finPc[f] = "insert" THEN "refused" ELSE finPc[f]]
    /\ UNCHANGED <<issued, fin, reg, invitation, files, leases>>

Next ==
    \/ Tick \/ SweepPending \/ Restart
    \/ \E t \in Tenants :
         \/ RevokeInvitations(t)
         \/ \E i \in Invites : CreateInvitation(i, t) \/ RenewInvitation(i, t)
    \/ \E r \in Regs :
         \/ \E q \in Request : RegisterFinish(r, q)
         \/ SelectInvitation(r) \/ ConsumeInvitation(r) \/ UpsertPasswordFile(r) \/ RegisterFails(r)
    \/ \E h \in Handshakes, t \in Tenants \cup {Unknown} : LoginStart(h, t)
    \/ \E f \in Finishes, h \in Handshakes, p \in Files \cup {NoFile} : LoginFinish(f, h, p)
    \/ \E f \in Finishes : InsertLease(f)

Spec == Init /\ [][Next]_vars

\* The pruner is a task that loops for as long as the process runs.
FairSpec == Spec /\ WF_vars(Tick) /\ WF_vars(SweepPending)

-----------------------------------------------------------------------------

TypeOK ==
    /\ owner \in [Invites -> Tenants \cup {None}]
    /\ life \in [Invites -> 0 .. InviteTtl]
    /\ consumed \subseteq Invites /\ revoked \subseteq Invites
    /\ files \in [Tenants -> Files \cup {NoFile}]
    /\ leases \subseteq Finishes
    /\ pending \in [Handshakes -> Pending \cup {None}]
    /\ issued \subseteq Handshakes
    /\ regPc \in [Regs -> {"idle", "select", "consume", "store", "created", "refused"}]
    /\ reg \in [Regs -> Request \cup {None}]
    /\ finPc \in [Finishes -> {"idle", "insert", "done", "refused"}]
    /\ fin \in [Finishes -> Finish \cup {None}]
    /\ \A r \in Regs : regPc[r] # "idle" => reg[r] \in Request
    /\ \A f \in Finishes : finPc[f] # "idle" => fin[f] \in Finish

\* Answered 201 stays true: the tenant's password file is the one this
\* request uploaded, whoever registers later or at the same time (UNIQUE
\* tenant_id and ON CONFLICT DO NOTHING in upsert_password_file).
CreatedIsStored ==
    \A r \in Regs : regPc[r] = "created" => files[reg[r].tenant] = reg[r].upload

\* An invitation admits one registration: of the requests that present the
\* same OTP at the same time at most one gets past verify_and_consume.
InviteAdmitsOne ==
    \A r, s \in Regs :
      /\ regPc[r] \in {"store", "created"} /\ regPc[s] \in {"store", "created"}
      /\ reg[r].otp = reg[s].otp
      => r = s

\* A lease belongs to a tenant whose stored password the client proved to
\* know, and no handshake yields two leases, however finishes, sweeps and
\* restarts interleave (PendingMap::take is single-shot).
LeaseIsAuthenticated ==
    \A f \in leases :
      /\ fin[f].password # NoFile
      /\ files[fin[f].tenant] = fin[f].password
      /\ \A g \in leases : fin[g].hs = fin[f].hs => g = f

\* No handshake's server state stays for good, also when the client never
\* comes back or the tenant is unknown (PendingMap::sweep).
PendingIsForgotten == \A h \in Handshakes : pending[h] # None ~> pending[h] = None
=============================================================================
