---------------------------- MODULE RegistryWrites ----------------------------
(***************************************************************************)
(* The registry of tenants, workspaces, plugins and bindings: the api's    *)
(* write handlers (src/api/src/write.rs), the live gate through which      *)
(* binding writes delete control-plane's records of the binding's sessions *)
(* (src/api/src/control_plane.rs), the bootstrap runner and, reading all   *)
(* of it, config-broker.                                                   *)
(*                                                                         *)
(* Every handler has the shape the head of write.rs describes: load the    *)
(* row and compare its updated_at with the client's token, run the         *)
(* preflight, run the gate, apply and commit.  The database runs at        *)
(* READ COMMITTED, so each statement sees what was committed before it and *)
(* the only constraints that hold at commit are the schema's.  updated_at  *)
(* is the writer that set it: no two writers produce the same one.         *)
(*                                                                         *)
(* A session and control-plane's record of it are two things: the gate     *)
(* deletes the record and tells nobody else, so the session runs on with   *)
(* the configuration it was resolved with, until it ends by itself.        *)
(*                                                                         *)
(* Left out: restarts of control-plane, which fill its records again from  *)
(* the rows (SessionRecords), the gate's break-glass switch, malformed and *)
(* reserved names (refused before anything is read), and the secrets       *)
(* endpoints, which VaultFile models.                                      *)
(***************************************************************************)
EXTENDS Integers

CONSTANTS
    Tenants, Workspaces, Plugins,   \* row ids
    Names,          \* names the api accepts
    Fold,           \* normalise_name, a function on Names
    Routable,       \* the names config-broker's NAME_RE accepts
    Manifest,       \* the name bootstrap's manifest gives its rows
    Requests,       \* one write request each
    Boots,          \* one run of bootstrap each
    Sessions,       \* one spawn each
    Seed,           \* the writer of the rows that exist at the start
    None

ASSUME RegistryAssumption ==
    /\ Fold \in [Names -> Names]
    /\ Routable \subseteq Names /\ Manifest \in Names
    /\ None \notin Names \cup Tenants \cup Requests \cup Boots \cup {Seed}
    /\ None \notin Workspaces \cup Plugins \cup (Workspaces \X Plugins)
    /\ None \notin [name : Names \cup {None}, of : Tenants \cup {None},
                   ver : Requests \cup Boots \cup {Seed}]
    /\ Requests \cap Boots = {} /\ Seed \notin Requests \cup Boots
    /\ Tenants \cap Workspaces = {} /\ Tenants \cap Plugins = {}
    /\ Workspaces \cap Plugins = {}
    /\ (Workspaces \X Plugins) \cap (Tenants \cup Workspaces \cup Plugins) = {}

Bindings == Workspaces \X Plugins
Named == Tenants \cup Workspaces \cup Plugins
Ids == Named \cup Bindings
Verbs == {"create", "update", "delete"}
Writers == Requests \cup Boots \cup {Seed}

VARIABLES
    rows,       \* id -> its row, or None
    job,        \* request -> where its handler is
    boots,      \* the runs of bootstrap that have committed
    sess        \* session -> what it was resolved from and where it is

vars == <<rows, job, boots, sess>>

Row(n, of, w) == [name |-> n, of |-> of, ver |-> w]
Present(i) == rows[i] # None

(* An idle request; during, replaced and listed only serve the properties. *)
NoJob == [pc |-> "idle", verb |-> None, id |-> None, name |-> None,
          of |-> None, token |-> None, left |-> {},
          triple |-> <<None, None, None>>, doomed |-> {}, cut |-> {},
          during |-> {}, replaced |-> None, listed |-> {}]

(* A session is being resolved, live, an orphan once its record is deleted, *)
(* or gone; a record that outlives its session is stale.                   *)
NoSession == [st |-> "free", of |-> None, names |-> <<None, None, None>>,
              saw |-> {}, missed |-> {}]

Recorded(s) == sess[s].st \in {"live", "stale"}
Runs(s) == sess[s].st \in {"live", "orphan"}

(* The schema's foreign keys: what a row needs in order to exist, and the *)
(* exact-name unique indexes on tenant, plugin and (tenant, workspace).   *)
ParentsExist(i, of) ==
    IF i \in Bindings THEN Present(i[1]) /\ Present(i[2])
    ELSE i \in Workspaces => of \in Tenants /\ Present(of)

Peers(i) ==
    CHOOSE S \in {Tenants, Workspaces, Plugins} : i \in S

SameName(i, of, n) ==
    \E j \in Peers(i) \ {i} :
        Present(j) /\ rows[j].of = of /\ rows[j].name = n

Children(i) ==
    {j \in Ids \ {i} : /\ Present(j)
                       /\ \/ j \in Workspaces /\ rows[j].of = i
                          \/ j \in Bindings /\ i \in {j[1], j[2]}}

Populated(population) ==
    \A i \in Ids : population[i] # None =>
        /\ i \in Bindings => population[i[1]] # None /\ population[i[2]] # None
        /\ i \in Workspaces => population[population[i].of] # None

(* The rows already there carry the manifest's name, at most one a kind.  *)
Init ==
    /\ rows \in {p \in [Ids -> {None} \cup {Row(n, of, Seed) :
                      n \in {Manifest, None}, of \in Tenants \cup {None}}] :
            /\ \A i \in Ids : p[i] # None =>
                   /\ p[i].of # None <=> i \in Workspaces
                   /\ p[i].name # None <=> i \in Named
            /\ \A S \in {Tenants, Workspaces, Plugins} :
                   \A i, k \in S : p[i] # None /\ p[k] # None => i = k
            /\ Populated(p)}
    /\ job = [r \in Requests |-> NoJob]
    /\ boots = {}
    /\ sess = [s \in Sessions |-> NoSession]

-----------------------------------------------------------------------------
(* Uuid::new_v4 never repeats.  Every id that was created or deleted by a  *)
(* request is still the id of that request.                                *)
Fresh(i) == ~Present(i) /\ \A q \in Requests : job[q].id # i

(* A client fetches the row it is going to change and sends the request;   *)
(* a PUT must carry the token, a DELETE may.  The path of a workspace      *)
(* request names the tenant it is meant for.                               *)
Send(r) ==
    /\ job[r].pc = "idle"
    /\ \E verb \in Verbs, i \in Ids, n \in Names \cup {None},
          of \in Tenants \cup {None}, token \in Writers \cup {None} :
        /\ (n # None) <=> i \in Named /\ verb # "delete"
        /\ (of # None) <=> i \in Workspaces
        /\ CASE verb = "create" -> token = None /\ (i \in Bindings \/ Fresh(i))
             [] verb = "update" -> Present(i) /\ token = rows[i].ver
             [] verb = "delete" -> Present(i) /\ token \in {None, rows[i].ver}
        /\ job' = [job EXCEPT ![r] = [NoJob EXCEPT !.pc = "load",
                !.verb = verb, !.id = i, !.name = n, !.of = of, !.token = token]]
    /\ UNCHANGED <<rows, boots, sess>>

Moved(r, j) == job' = [job EXCEPT ![r] = j]
Refused(r) == Moved(r, [job[r] EXCEPT !.pc = "refused", !.doomed = {}, !.cut = {}])

(* Mutant: the token is not compared. *)
CheckLockSkipped(r) == TRUE

(* check_lock: 409 stale_write unless the token is the row's updated_at. *)
CheckLock(r) == job[r].token \in {None, rows[job[r].id].ver}

(* The first statements of a handler: resolve_tenant_id and the ownership  *)
(* check of a workspace, the parents of a new binding, and, for a PUT or a *)
(* DELETE, the row itself and its lock token.                              *)
Loadable(r) ==
    LET j == job[r] IN
    IF j.verb = "create" THEN ParentsExist(j.id, j.of)
    ELSE /\ Present(j.id)
         /\ j.id \in Workspaces => Present(j.of) /\ rows[j.id].of = j.of
         /\ CheckLock(r)

Load(r) ==
    /\ job[r].pc = "load"
    /\ IF Loadable(r)
       THEN Moved(r, [job[r] EXCEPT !.pc = "preflight",
                !.triple = <<None, IF Present(job[r].id)
                                   THEN rows[job[r].id].name ELSE None, None>>])
       ELSE Refused(r)
    /\ UNCHANGED <<rows, boots, sess>>

(* Mutant: the preflight compares exact names. *)
NameTakenExact(i, of, n) == SameName(i, of, n)

(* The case-insensitive SELECT COUNT of the three *_name_taken queries. *)
NameTaken(i, of, n) ==
    \E j \in Peers(i) \ {i} :
        Present(j) /\ rows[j].of = of /\ Fold[rows[j].name] = Fold[n]

(* The preflights.  A row with a name needs a free one. *)
NameFree(r) ==
    LET j == job[r] IN
    /\ j.name # None
    /\ IF NameTaken(j.id, j.of, j.name) THEN Refused(r)
       ELSE Moved(r, [j EXCEPT !.pc = "apply"])

(* A tenant or a plugin goes only without dependents. *)
NoDependents(r) ==
    LET j == job[r] IN
    /\ j.verb = "delete" /\ j.id \in Tenants \cup Plugins
    /\ IF Children(j.id) # {} THEN Refused(r)
       ELSE Moved(r, [j EXCEPT !.pc = "apply"])

(* A new binding must not be there yet. *)
NotBound(r) ==
    LET j == job[r] IN
    /\ j.verb = "create" /\ j.id \in Bindings
    /\ IF Present(j.id) THEN Refused(r)
       ELSE Moved(r, [j EXCEPT !.pc = "apply"])

(* Every binding a workspace takes with it is left for the gate. *)
CascadedBindings(r) ==
    LET j == job[r] IN
    /\ j.verb = "delete" /\ j.id \in Workspaces
    /\ IF ~Present(j.of) THEN Refused(r)
       ELSE Moved(r, [j EXCEPT !.pc = "gate", !.left = Children(j.id),
                               !.triple[1] = rows[j.of].name])

(* So is a binding that changes or goes. *)
GateBinding(r) ==
    LET j == job[r] IN
    /\ j.verb # "create" /\ j.id \in Bindings
    /\ Moved(r, [j EXCEPT !.pc = "gate", !.left = {j.id}])

Preflight(r) ==
    /\ job[r].pc = "preflight"
    /\ \/ NameFree(r) \/ NoDependents(r) \/ NotBound(r)
       \/ CascadedBindings(r) \/ GateBinding(r)
    /\ UNCHANGED <<rows, boots, sess>>

(* The names control-plane knows a binding's sessions by.  A binding's own *)
(* write reads all three now (resolve_triple); a workspace's delete has    *)
(* the first two already and reads each plugin's name in turn.             *)
Triple(r, b) ==
    IF job[r].id \in Bindings
    THEN <<rows[rows[b[1]].of].name, rows[b[1]].name, rows[b[2]].name>>
    ELSE [job[r].triple EXCEPT ![3] = rows[b[2]].name]

ResolveTriple(r) ==
    /\ job[r].pc = "gate"
    /\ \E b \in job[r].left :
          IF Present(b[2]) /\ (job[r].id \in Bindings => Present(b[1]))
          THEN Moved(r, [job[r] EXCEPT !.pc = "list", !.left = @ \ {b},
                            !.triple = Triple(r, b),
                            !.listed = @ \cup {<<b, Triple(r, b)>>}])
          ELSE Refused(r)
    /\ UNCHANGED <<rows, boots, sess>>

(* terminate_live_sessions: one GET of every record, filtered by exact     *)
(* names, then a DELETE each.                                              *)
ListSessions(r) ==
    LET listed == {s \in Sessions : Recorded(s) /\ sess[s].names = job[r].triple} IN
    /\ job[r].pc = "list"
    /\ Moved(r, [job[r] EXCEPT !.pc = IF listed = {} THEN "gate" ELSE "evict",
                               !.doomed = listed])
    /\ UNCHANGED <<rows, boots, sess>>

(* What is left of a session when its record goes: a running container and *)
(* its route, if it had them.                                              *)
Unrecorded(st) ==
    CASE st = "live" -> "orphan"
      [] st = "stale" -> "gone"
      [] OTHER -> st

(* control-plane takes the record out and waits for envoy's ack, or finds  *)
(* none (404), which the gate takes for success.                           *)
DeleteSession(r) ==
    /\ job[r].pc = "evict"
    /\ \E s \in job[r].doomed :
          /\ Moved(r, [job[r] EXCEPT !.pc = "ack", !.doomed = @ \ {s},
                                     !.cut = IF Recorded(s) THEN {s} ELSE {}])
          /\ sess' = [sess EXCEPT ![s].st = Unrecorded(@)]
    /\ UNCHANGED <<rows, boots>>

NextDelete(r) ==
    /\ job[r].pc = "ack"
    /\ Moved(r, [job[r] EXCEPT !.cut = {},
                    !.pc = IF job[r].doomed = {} THEN "gate" ELSE "evict"])

SessionDeleted(r) == NextDelete(r) /\ UNCHANGED <<rows, boots, sess>>

(* The requests whose gate asked for the sessions of s and will not come   *)
(* across its record any more.                                             *)
PassedBy(s) ==
    {r \in Requests :
        /\ <<sess[s].of, sess[s].names>> \in job[r].listed
        /\ ~(job[r].pc = "list" /\ job[r].triple = sess[s].names)
        /\ ~(job[r].pc \in {"evict", "ack"} /\ s \in job[r].doomed)}

(* The record is put back; its session may have ended in the meantime. *)
PutBack(r) ==
    /\ job[r].cut # {}
    /\ sess' = [s \in Sessions |->
          IF s \notin job[r].cut THEN sess[s]
          ELSE [sess[s] EXCEPT !.st = IF @ = "orphan" THEN "live" ELSE "stale",
                               !.missed = @ \cup (PassedBy(s) \ {r})]]
    /\ UNCHANGED <<rows, boots>>

(* Mutant: a DELETE that failed counts as done. *)
RollbackIgnored(r) == PutBack(r) /\ NextDelete(r)

(* envoy's ack does not come: control-plane rolls back and answers with an *)
(* error, and the write is refused.  Another gate may have listed or       *)
(* deleted in the meantime and found nothing.                              *)
DeleteRolledBack(r) ==
    /\ job[r].pc = "ack"
    /\ PutBack(r)
    /\ Refused(r)

(* A query that fails, or a control-plane that is unreachable or answers   *)
(* with an error: the transaction is dropped.  Records the gate has        *)
(* already deleted stay deleted, and so does the one whose DELETE the api  *)
(* gave up on, for control-plane's handler ends with its caller.  After    *)
(* the insert of a tenant it is the invitation that fails; the row stays.  *)
Fails(r) ==
    /\ job[r].pc \notin {"idle", "ok", "refused"}
    /\ Refused(r)
    /\ UNCHANGED <<rows, boots, sess>>

(* What the database refuses at the statement itself. *)
Violates(r) ==
    LET j == job[r] IN
    CASE j.verb = "create" -> \/ Present(j.id)
                              \/ ~ParentsExist(j.id, j.of)
                              \/ j.id \in Named /\ SameName(j.id, j.of, j.name)
      [] j.verb = "update" -> \/ ~Present(j.id)
                              \/ j.id \in Named /\ SameName(j.id, j.of, j.name)
      [] j.verb = "delete" -> j.id \in Tenants \cup Plugins /\ Children(j.id) # {}

(* INSERT, UPDATE of the columns that are Set, or DELETE, which cascades   *)
(* from a workspace to its bindings and is content with no row.            *)
Inserted(r) == [rows EXCEPT ![job[r].id] = Row(job[r].name, job[r].of, r)]
Updated(r) == [rows EXCEPT ![job[r].id] = Row(job[r].name, @.of, r)]
Deleted(r) ==
    [i \in Ids |-> IF i \in {job[r].id} \cup Children(job[r].id) THEN None ELSE rows[i]]

Written(r) ==
    CASE job[r].verb = "create" -> Inserted(r)
      [] job[r].verb = "update" -> Updated(r)
      [] job[r].verb = "delete" -> Deleted(r)

InFlight(q) == job[q].pc \notin {"idle", "load", "mint", "ok", "refused"}

Committed(w, j) ==
    [q \in Requests |-> IF InFlight(q) THEN [j[q] EXCEPT !.during = @ \cup {w}]
                                       ELSE j[q]]

(* The write and the commit.  The row lock the UPDATE takes is held to the *)
(* commit, so no other writer comes between.                               *)
Apply(r) ==
    LET j == job[r] IN
    /\ j.pc = "apply" \/ (j.pc = "gate" /\ j.left = {})
    /\ IF Violates(r) THEN Refused(r) /\ UNCHANGED rows
       ELSE /\ rows' = Written(r)
            /\ job' = [Committed(r, job) EXCEPT ![r] = [j EXCEPT
                  !.pc = IF j.verb = "create" /\ j.id \in Tenants
                         THEN "mint" ELSE "ok",
                  !.replaced = IF Present(j.id) THEN rows[j.id].ver ELSE None]]
    /\ UNCHANGED <<boots, sess>>

(* create_tenant asks auth-broker for an invitation before it answers. *)
MintInvitation(r) ==
    /\ job[r].pc = "mint"
    /\ Moved(r, [job[r] EXCEPT !.pc = "ok"])
    /\ UNCHANGED <<rows, boots, sess>>

-----------------------------------------------------------------------------
(* A run of bootstrap: in one transaction, find by exact name or insert    *)
(* the manifest's plugin, tenant and workspace, then its binding; plugin   *)
(* and binding are rewritten when a field differs.  It has no token and no *)
(* gate.  A write of another transaction between its statements can only   *)
(* make it fail on a constraint, and then nothing is changed.              *)
FoundOrNew(S, of, i) ==
    IF \E k \in S : Present(k) /\ rows[k].of = of /\ rows[k].name = Manifest
    THEN i \in S /\ Present(i) /\ rows[i].of = of /\ rows[i].name = Manifest
    ELSE i \in S /\ Fresh(i)

Bootstrap(b) ==
    /\ b \notin boots
    /\ \E p \in Plugins, t \in Tenants, w \in Workspaces, differs \in SUBSET Ids :
        /\ FoundOrNew(Plugins, None, p)
        /\ FoundOrNew(Tenants, None, t)
        /\ FoundOrNew(Workspaces, t, w)
        /\ differs \subseteq {p, <<w, p>>}
        /\ rows' = [i \in Ids |->
              IF i \in {p, t, w, <<w, p>>} /\ (~Present(i) \/ i \in differs)
              THEN Row(IF i \in Named THEN Manifest ELSE None,
                       IF i = w THEN t ELSE None, b)
              ELSE rows[i]]
        /\ job' = IF rows' = rows THEN job ELSE Committed(b, job)
    /\ boots' = boots \cup {b}
    /\ UNCHANGED sess

-----------------------------------------------------------------------------
(* A spawn: config-broker finds the binding by the three exact names of    *)
(* the path, refusing names its own pattern does not match; session-broker *)
(* then launches the container and announces the session under the names.  *)
Lookup(names) ==
    {b \in Bindings : /\ Present(b)
                      /\ names = <<rows[rows[b[1]].of].name, rows[b[1]].name,
                                   rows[b[2]].name>>}

Resolve(s) ==
    /\ sess[s].st = "free"
    /\ \E names \in Routable \X Routable \X Routable, b \in Bindings :
        /\ b \in Lookup(names)
        /\ sess' = [sess EXCEPT ![s] = [st |-> "resolved", of |-> b,
                names |-> names, missed |-> {},
                saw |-> {r \in Requests : job[r].pc = "ok"}]]
    /\ UNCHANGED <<rows, job, boots>>

Announce(s) ==
    /\ sess[s].st = "resolved"
    /\ sess' = [sess EXCEPT ![s].st = "live", ![s].missed = PassedBy(s)]
    /\ UNCHANGED <<rows, job, boots>>

(* A spawn that fails, or a session that ends by itself; session-broker    *)
(* deletes the record under another key, or not at all, so it may stay.    *)
Gone(s) ==
    /\ sess[s].st = "resolved" \/ Runs(s)
    /\ \E st \in {"gone"} \cup IF Recorded(s) THEN {"stale"} ELSE {} :
          sess' = [sess EXCEPT ![s].st = st]
    /\ UNCHANGED <<rows, job, boots>>

Next ==
    \/ \E r \in Requests :
        \/ Send(r) \/ Load(r) \/ Preflight(r) \/ ResolveTriple(r)
        \/ ListSessions(r) \/ DeleteSession(r) \/ SessionDeleted(r)
        \/ DeleteRolledBack(r) \/ Apply(r) \/ MintInvitation(r) \/ Fails(r)
    \/ \E b \in Boots : Bootstrap(b)
    \/ \E s \in Sessions : Resolve(s) \/ Announce(s) \/ Gone(s)

Spec == Init /\ [][Next]_vars

-----------------------------------------------------------------------------
(* A write that carried a token replaced the very row its client had       *)
(* fetched, or one a writer committed while this request was between its   *)
(* lock check and its commit: check_lock reads, the UPDATE has no version  *)
(* predicate.  A DELETE may also find the row already deleted by such a    *)
(* writer.  src/api/src/write.rs:26-33.                                    *)
TokenGuardsUpdate ==
    \A r \in Requests :
        job[r].pc = "ok" /\ job[r].token # None =>
            \/ job[r].replaced \in {job[r].token} \cup job[r].during
            \/ job[r].verb = "delete" /\ job[r].during # {}

(* Two names of one scope that differ only in case come from two writers   *)
(* of which one committed between the other's check and its commit, or     *)
(* from bootstrap, which compares exact names: normalise_name's promise    *)
(* rests on the preflight alone.  src/api-core/src/names.rs:33-39.         *)
CaseFoldedUnique ==
    \A i \in Named : \A k \in Peers(i) \ {i} :
        Present(i) /\ Present(k) /\ rows[i].of = rows[k].of
            /\ Fold[rows[i].name] = Fold[rows[k].name] =>
                \/ {rows[i].ver, rows[k].ver} \cap Boots # {}
                \/ \E r \in {rows[i].ver, rows[k].ver} \cap Requests :
                      job[r].during \cap {rows[i].ver, rows[k].ver} # {}

(* When a binding's change or removal is acknowledged, control-plane has   *)
(* no record of a session that was resolved from the binding before and is *)
(* known by the names the gate asked for, unless it was announced, or put  *)
(* back by the failed DELETE of another write, after the gate had passed:  *)
(* the gate comes before the commit and an unfinished gate refuses the     *)
(* write.  src/api/src/write.rs:776-828 and :1293-1307.                    *)
GateClearsRecords ==
    \A r \in Requests, s \in Sessions :
        /\ job[r].pc = "ok" /\ Recorded(s)
        /\ <<sess[s].of, sess[s].names>> \in job[r].listed
        /\ r \notin sess[s].saw
        => r \in sess[s].missed

(* ---- Not met by the code, and checked by no run: the README gives the   *)
(* trace.  src/api/src/write.rs:1293-1295: "a config change updates the    *)
(* policy control-plane has, so we tear down any live sessions for the     *)
(* triple".  No session that the gate listed runs on with the old          *)
(* configuration after the change was acknowledged.                        *)
ChangeEndsSessions ==
    \A r \in Requests, s \in Sessions :
        /\ job[r].pc = "ok" /\ Runs(s)
        /\ <<sess[s].of, sess[s].names>> \in job[r].listed
        /\ r \notin sess[s].saw
        => r \in sess[s].missed
=============================================================================
