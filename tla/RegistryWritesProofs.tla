------------------------ MODULE RegistryWritesProofs ------------------------
(***************************************************************************)
(* For any registry, names, requests, runs of bootstrap and sessions: the  *)
(* rows keep the schema's references, a token guards the row it was read   *)
(* from, two names that fold to one come from a race or from bootstrap,    *)
(* and an acknowledged binding write has cleared the records it listed.    *)
(*                                                                         *)
(* The invariant RInv says what a request in flight may rely on: the row   *)
(* it loaded is still under its token or was written by one of the writers *)
(* that committed during the request; a name that passed the preflight is  *)
(* taken only by such a writer; the id of a pending create is nobody       *)
(* else's, so a row never changes its owner under an update; and a record  *)
(* the gate must delete is still ahead of the gate.                        *)
(***************************************************************************)
EXTENDS RegistryWrites, TLAPS

NameOrNone == Names \cup {None}
Triples == [1 .. 3 -> NameOrNone]
RowType == [name : NameOrNone, of : Tenants \cup {None}, ver : Writers]
JobPcs == {"idle", "load", "preflight", "gate", "list", "evict", "ack", "apply",
           "mint", "ok", "refused"}
JobType ==
    [pc : JobPcs, verb : Verbs \cup {None}, id : Ids \cup {None},
     name : NameOrNone, of : Tenants \cup {None}, token : Writers \cup {None},
     left : SUBSET Bindings, triple : Triples, doomed : SUBSET Sessions,
     cut : SUBSET Sessions,
     during : SUBSET Writers, replaced : Writers \cup {None},
     listed : SUBSET (Bindings \X Triples)]
SessionType ==
    [st : {"free", "resolved", "live", "orphan", "stale", "gone"}, of : Bindings \cup {None},
     names : Triples, saw : SUBSET Requests, missed : SUBSET Requests]

RegistryTypeOK ==
    /\ rows \in [Ids -> RowType \cup {None}]
    /\ job \in [Requests -> JobType]
    /\ boots \in SUBSET Boots
    /\ sess \in [Sessions -> SessionType]

\* The columns a row has, and the rows it refers to.
Shape ==
    \A i \in Ids : Present(i) =>
        /\ rows[i].of # None <=> i \in Workspaces
        /\ rows[i].name # None <=> i \in Named
References == Populated(rows)

\* What a request is about does not change after it was sent.
SentBy(r) ==
    job[r].pc # "idle" =>
        /\ job[r].id \in Ids /\ job[r].verb \in Verbs
        /\ job[r].name # None <=> job[r].id \in Named /\ job[r].verb # "delete"
        /\ job[r].of # None <=> job[r].id \in Workspaces
        /\ job[r].verb = "create" => job[r].token = None
        /\ job[r].pc = "mint" => job[r].verb = "create"
        /\ job[r].pc \in {"gate", "list", "evict", "ack"} =>
              \/ job[r].id \in Bindings
              \/ job[r].id \in Workspaces /\ job[r].verb = "delete"
SentSound == \A r \in Requests : SentBy(r)

\* The id of a pending create belongs to that request alone.
Creating(q) ==
    /\ job[q].verb = "create" /\ job[q].pc \in {"load", "preflight", "apply"}
    /\ job[q].id \in Named
Unused ==
    \A q \in Requests : Creating(q) =>
        /\ ~Present(job[q].id)
        /\ \A r \in Requests \ {q} : job[r].id # job[q].id

\* The row an update loaded stays where it is in the registry.
KeptBy(r) ==
    InFlight(r) /\ job[r].verb # "create" /\ job[r].id \in Named /\ Present(job[r].id)
        => rows[job[r].id].of = job[r].of
Kept == \A r \in Requests : KeptBy(r)

\* The row under a token, and the name a preflight found free.
LockedBy(r) ==
    InFlight(r) /\ job[r].token # None =>
        IF Present(job[r].id) THEN rows[job[r].id].ver \in {job[r].token} \cup job[r].during
        ELSE job[r].during # {}
Locked == \A r \in Requests : LockedBy(r)

CheckedBy(r) ==
    job[r].pc = "apply" /\ job[r].id \in Named /\ job[r].verb # "delete" =>
        \A k \in Peers(job[r].id) \ {job[r].id} :
            /\ Present(k) /\ rows[k].of = job[r].of
            /\ Fold[rows[k].name] = Fold[job[r].name]
            => rows[k].ver \in job[r].during
Checked == \A r \in Requests : CheckedBy(r)

\* A request whose write is in the registry has committed.
Finished ==
    \A i \in Ids : Present(i) /\ rows[i].ver \in Requests =>
        job[rows[i].ver].pc \in {"mint", "ok", "refused"}

\* A listed session that has a record is still to be found or to be deleted.
SweptBy(r, s) ==
    /\ sess[s].st \in {"live", "stale"}
    /\ <<sess[s].of, sess[s].names>> \in job[r].listed
    /\ r \notin sess[s].saw /\ r \notin sess[s].missed
    => \/ job[r].pc = "list" /\ job[r].triple = sess[s].names
       \/ job[r].pc \in {"evict", "ack"} /\ s \in job[r].doomed
       \/ job[r].pc = "refused"
Swept == \A r \in Requests, s \in Sessions : SweptBy(r, s)

Steady ==
    /\ Shape /\ References /\ SentSound /\ Unused /\ Kept /\ Locked
    /\ TokenGuardsUpdate /\ Checked /\ Finished /\ CaseFoldedUnique

RInv == RegistryTypeOK /\ Steady /\ Swept

-----------------------------------------------------------------------------
\* The three kinds of named rows are disjoint, so peers are mutual.
LEMMA PeersOf ==
    ASSUME NEW i \in Named
    PROVE  /\ i \in Peers(i) /\ Peers(i) \in {Tenants, Workspaces, Plugins}
           /\ \A k \in Peers(i) : k \in Named /\ Peers(k) = Peers(i)
<1>1. \E S \in {Tenants, Workspaces, Plugins} : i \in S
  BY DEF Named
<1>2. i \in Peers(i) /\ Peers(i) \in {Tenants, Workspaces, Plugins}
  BY <1>1, Zenon DEF Peers
<1>3. ASSUME NEW k \in Peers(i) PROVE k \in Named /\ Peers(k) = Peers(i)
  <2>1. k \in Named
    BY <1>2 DEF Named
  <2>2. \E S \in {Tenants, Workspaces, Plugins} : k \in S
    BY <1>2
  <2>3. k \in Peers(k) /\ Peers(k) \in {Tenants, Workspaces, Plugins}
    BY <2>2, Zenon DEF Peers
  <2> QED
    BY <2>1, <2>3, <1>2, RegistryAssumption
<1> QED
  BY <1>2, <1>3

\* Ids are of four kinds, all different and none of them None.
LEMMA Kinds ==
    /\ \A i \in Ids : i # None
    /\ \A i \in Bindings : i \notin Named /\ i[1] \in Workspaces /\ i[2] \in Plugins
    /\ \A i \in Workspaces : i \notin Tenants /\ i \notin Plugins
    /\ \A i \in Tenants : i \notin Plugins
    /\ Named \subseteq Ids /\ Bindings \subseteq Ids
    /\ Workspaces \subseteq Named /\ Tenants \subseteq Named /\ Plugins \subseteq Named
    /\ None \notin Tenants /\ None \notin Names
BY RegistryAssumption DEF Ids, Named, Bindings

\* A row that is written is a row.
LEMMA RowIsThere ==
    ASSUME NEW n \in NameOrNone, NEW of \in Tenants \cup {None}, NEW w \in Writers
    PROVE  /\ Row(n, of, w) \in RowType /\ Row(n, of, w) # None
           /\ Row(n, of, w).name = n /\ Row(n, of, w).of = of /\ Row(n, of, w).ver = w
BY RegistryAssumption DEF Row, RowType, NameOrNone, Writers

-----------------------------------------------------------------------------
(* The steps of a handler before its commit leave the registry alone and   *)
(* move the request on.                                                    *)
Underway(pc) == pc \notin {"idle", "load", "mint", "ok", "refused"}

MovesOn(r, j) ==
    /\ j \in JobType
    /\ job' = [job EXCEPT ![r] = j] /\ rows' = rows /\ boots' = boots
    /\ j.verb = job[r].verb /\ j.id = job[r].id /\ j.name = job[r].name
    /\ j.of = job[r].of /\ j.token = job[r].token
    /\ j.during = job[r].during /\ j.replaced = job[r].replaced
    /\ job[r].pc \notin {"idle", "ok", "refused"}
    /\ j.pc \notin {"idle", "load", "mint"}
    /\ Underway(j.pc) =>
          Underway(job[r].pc) \/ (job[r].pc = "load" /\ Loadable(r))
    /\ j.pc = "ok" => job[r].pc = "mint"
    /\ job[r].pc = "mint" => j.pc \in {"ok", "refused"}
    /\ j.pc = "preflight" => job[r].pc = "load"
    /\ j.pc = "apply" /\ j.verb # "delete" /\ j.id \in Named =>
          ~NameTaken(j.id, j.of, j.name)
    /\ j.pc = "apply" => job[r].pc = "preflight"
    /\ j.pc \in {"gate", "list", "evict", "ack"} =>
          \/ job[r].pc \in {"gate", "list", "evict", "ack"}
          \/ j.id \in Bindings
          \/ j.id \in Workspaces /\ j.verb = "delete"

\* What reading a row gives.
LEMMA NameTyped ==
    ASSUME RegistryTypeOK, NEW i \in Ids, Present(i)
    PROVE  /\ rows[i].name \in NameOrNone /\ rows[i].of \in Tenants \cup {None}
           /\ rows[i].ver \in Writers
BY DEF RegistryTypeOK, Present, RowType

LEMMA RefusedMovesOn ==
    ASSUME RegistryTypeOK, NEW r \in Requests, Refused(r),
           job[r].pc \notin {"idle", "ok", "refused"}, rows' = rows, boots' = boots
    PROVE  \E j : MovesOn(r, j)
<1> DEFINE j == [job[r] EXCEPT !.pc = "refused", !.doomed = {}, !.cut = {}]
<1>0. job[r] \in JobType
  BY DEF RegistryTypeOK
<1>1. j \in JobType /\ job' = [job EXCEPT ![r] = j] /\ j.pc = "refused"
  BY <1>0 DEF JobType, JobPcs, Refused, Moved
<1>2. /\ j.verb = job[r].verb /\ j.id = job[r].id /\ j.name = job[r].name
      /\ j.of = job[r].of /\ j.token = job[r].token
      /\ j.during = job[r].during /\ j.replaced = job[r].replaced
  BY DEF RegistryTypeOK, JobType
<1> HIDE DEF j
<1> QED
  BY <1>1, <1>2 DEF MovesOn, Underway

LEMMA LoadMovesOn ==
    ASSUME RegistryTypeOK, SentSound, NEW r \in Requests, Load(r)
    PROVE  \E j : MovesOn(r, j)
<1>1. CASE ~Loadable(r)
  BY <1>1, RefusedMovesOn DEF Load
<1>2. CASE Loadable(r)
  <2> DEFINE n == IF Present(job[r].id) THEN rows[job[r].id].name ELSE None
             j == [job[r] EXCEPT !.pc = "preflight", !.triple = <<None, n, None>>]
  <2>1. job[r].id \in Ids /\ job[r] \in JobType
    BY DEF Load, SentSound, SentBy, RegistryTypeOK
  <2>2. n \in NameOrNone
    BY <2>1, NameTyped DEF NameOrNone
  <2> HIDE DEF n
  <2>3. <<None, n, None>> \in Triples
    BY <2>2 DEF Triples, NameOrNone
  <2>4. j \in JobType /\ j.pc = "preflight"
    BY <2>1, <2>3 DEF JobType, JobPcs
  <2>5. /\ j.verb = job[r].verb /\ j.id = job[r].id /\ j.name = job[r].name
        /\ j.of = job[r].of /\ j.token = job[r].token
        /\ j.during = job[r].during /\ j.replaced = job[r].replaced
    BY <2>1 DEF JobType
  <2>6. job' = [job EXCEPT ![r] = j] /\ job[r].pc = "load" /\ rows' = rows /\ boots' = boots
    BY <1>2 DEF Load, Moved, n
  <2> HIDE DEF j
  <2> QED
    BY <1>2, <2>4, <2>5, <2>6 DEF MovesOn, Underway
<1> QED
  BY <1>1, <1>2

LEMMA PreflightMovesOn ==
    ASSUME RegistryTypeOK, SentSound, References, NEW r \in Requests, Preflight(r)
    PROVE  \E j : MovesOn(r, j)
<1>1. CASE Refused(r)
  BY <1>1, RefusedMovesOn DEF Preflight
<1>2. CASE ~Refused(r)
  <2>1. job[r] \in JobType /\ job[r].pc = "preflight" /\ rows' = rows /\ boots' = boots
    BY DEF RegistryTypeOK, Preflight
  <2>2. job[r].id \in Ids /\ job[r].verb \in Verbs
    BY <2>1 DEF SentSound, SentBy
  <2>3. CASE job' = [job EXCEPT ![r] = [job[r] EXCEPT !.pc = "apply"]]
           /\ (job[r].verb # "delete" /\ job[r].id \in Named
                 => ~NameTaken(job[r].id, job[r].of, job[r].name))
    <3> DEFINE j == [job[r] EXCEPT !.pc = "apply"]
    <3>1. j \in JobType /\ j.pc = "apply"
      BY <2>1 DEF JobType, JobPcs
    <3>2. /\ j.verb = job[r].verb /\ j.id = job[r].id /\ j.name = job[r].name
          /\ j.of = job[r].of /\ j.token = job[r].token
          /\ j.during = job[r].during /\ j.replaced = job[r].replaced
      BY <2>1 DEF JobType
    <3>3. job' = [job EXCEPT ![r] = j]
      BY <2>3
    <3> HIDE DEF j
    <3> QED
      BY <2>1, <2>3, <3>1, <3>2, <3>3 DEF MovesOn, Underway
  <2>4. CASE \E l \in SUBSET Bindings, t \in Triples :
               /\ job' = [job EXCEPT ![r] = [job[r] EXCEPT !.pc = "gate", !.left = l, !.triple = t]]
               /\ job[r].id \in Bindings \/ (job[r].id \in Workspaces /\ job[r].verb = "delete")
    <3>1. PICK l \in SUBSET Bindings, t \in Triples :
               /\ job' = [job EXCEPT ![r] = [job[r] EXCEPT !.pc = "gate", !.left = l, !.triple = t]]
               /\ job[r].id \in Bindings \/ (job[r].id \in Workspaces /\ job[r].verb = "delete")
      BY <2>4
    <3> DEFINE j == [job[r] EXCEPT !.pc = "gate", !.left = l, !.triple = t]
    <3>2. j \in JobType /\ j.pc = "gate"
      BY <2>1 DEF JobType, JobPcs
    <3>3. /\ j.verb = job[r].verb /\ j.id = job[r].id /\ j.name = job[r].name
          /\ j.of = job[r].of /\ j.token = job[r].token
          /\ j.during = job[r].during /\ j.replaced = job[r].replaced
      BY <2>1 DEF JobType
    <3>4. job' = [job EXCEPT ![r] = j]
      BY <3>1
    <3> HIDE DEF j
    <3> QED
      BY <2>1, <3>1, <3>2, <3>3, <3>4 DEF MovesOn, Underway
  <2>5. CASE NameFree(r)
    BY <2>5, <1>2, <2>3 DEF NameFree, Moved
  <2>6. CASE NoDependents(r)
    BY <2>6, <1>2, <2>3 DEF NoDependents, Moved
  <2>7. CASE NotBound(r)
    BY <2>7, <1>2, <2>3, Kinds DEF NotBound, Moved
  <2>8. CASE CascadedBindings(r)
    <3>1. /\ job[r].id \in Workspaces /\ job[r].verb = "delete" /\ Present(job[r].of)
          /\ job' = [job EXCEPT ![r] = [job[r] EXCEPT !.pc = "gate", !.left = Children(job[r].id),
                                                  !.triple[1] = rows[job[r].of].name]]
      BY <2>8, <1>2 DEF CascadedBindings, Moved
    <3>2. job[r].of \in Tenants
      BY <2>1, <3>1 DEF SentSound, SentBy, JobType
    <3>3. rows[job[r].of].name \in NameOrNone
      BY <3>1, <3>2, NameTyped, Kinds
    <3>4. Children(job[r].id) \in SUBSET Bindings
      <4>1. ASSUME NEW k \in Workspaces, Present(k), rows[k].of = job[r].id PROVE FALSE
        BY <4>1, <3>1, NameTyped, Kinds
      <4> QED
        BY <4>1 DEF Children
    <3>5. [job[r].triple EXCEPT ![1] = rows[job[r].of].name] \in Triples
      BY <2>1, <3>3 DEF JobType, Triples
    <3>6. [job[r] EXCEPT !.pc = "gate", !.left = Children(job[r].id), !.triple[1] = rows[job[r].of].name]
          = [job[r] EXCEPT !.pc = "gate", !.left = Children(job[r].id),
                           !.triple = [job[r].triple EXCEPT ![1] = rows[job[r].of].name]]
      BY <2>1 DEF JobType
    <3> QED
      BY <3>1, <3>4, <3>5, <3>6, <2>4
  <2>9. CASE GateBinding(r)
    <3>1. /\ job[r].id \in Bindings
          /\ job' = [job EXCEPT ![r] = [job[r] EXCEPT !.pc = "gate", !.left = {job[r].id}]]
      BY <2>9 DEF GateBinding, Moved
    <3>2. [job[r] EXCEPT !.pc = "gate", !.left = {job[r].id}]
          = [job[r] EXCEPT !.pc = "gate", !.left = {job[r].id}, !.triple = job[r].triple]
      BY <2>1 DEF JobType
    <3>3. job[r].triple \in Triples
      BY <2>1 DEF JobType
    <3> QED
      BY <3>1, <3>2, <3>3, <2>4
  <2> QED
    BY <2>5, <2>6, <2>7, <2>8, <2>9 DEF Preflight
<1> QED
  BY <1>1, <1>2

\* The names a gate asks for are names of rows that are there.
LEMMA TripleTyped ==
    ASSUME RegistryTypeOK, SentSound, Shape, References, NEW r \in Requests,
           NEW b \in job[r].left, Present(b[2]), job[r].id \in Bindings => Present(b[1])
    PROVE  b \in Bindings /\ Triple(r, b) \in Triples
<1>1. job[r] \in JobType
  BY DEF RegistryTypeOK
<1>2. b \in Bindings /\ b[1] \in Workspaces /\ b[2] \in Plugins
  BY <1>1, Kinds DEF JobType
<1>3. rows[b[2]].name \in NameOrNone
  BY <1>2, NameTyped, Kinds
<1>4. CASE job[r].id \in Bindings
  <2>1. rows[b[1]].of \in Tenants
    BY <1>2, <1>4, NameTyped, Kinds DEF Shape
  <2>2. Present(rows[b[1]].of)
    BY <1>2, <1>4, Kinds DEF References, Populated, Present
  <2>3. rows[rows[b[1]].of].name \in NameOrNone /\ rows[b[1]].name \in NameOrNone
    BY <1>2, <1>4, <2>1, <2>2, NameTyped, Kinds
  <2> QED
    BY <1>2, <1>3, <1>4, <2>3 DEF Triple, Triples
<1>5. CASE job[r].id \notin Bindings
  <2>1. job[r].triple \in Triples
    BY <1>1 DEF JobType
  <2> QED
    BY <1>2, <1>3, <1>5, <2>1 DEF Triple, Triples
<1> QED
  BY <1>4, <1>5

LEMMA ResolveMovesOn ==
    ASSUME RegistryTypeOK, SentSound, Shape, References, NEW r \in Requests, ResolveTriple(r)
    PROVE  \E j : MovesOn(r, j)
<1>1. CASE Refused(r)
  BY <1>1, RefusedMovesOn DEF ResolveTriple
<1>2. CASE ~Refused(r)
  <2>1. job[r] \in JobType /\ job[r].pc = "gate" /\ rows' = rows /\ boots' = boots
    BY DEF RegistryTypeOK, ResolveTriple
  <2>2. PICK b \in job[r].left :
           /\ Present(b[2]) /\ (job[r].id \in Bindings => Present(b[1]))
           /\ job' = [job EXCEPT ![r] = [job[r] EXCEPT !.pc = "list", !.left = @ \ {b},
                   !.triple = Triple(r, b), !.listed = @ \cup {<<b, Triple(r, b)>>}]]
    BY <1>2 DEF ResolveTriple, Moved
  <2>3. b \in Bindings /\ Triple(r, b) \in Triples
    BY <2>2, TripleTyped
  <2> DEFINE t == Triple(r, b)
             l == job[r].listed \cup {<<b, t>>}
             e == job[r].left \ {b}
             j == [job[r] EXCEPT !.pc = "list", !.left = e, !.triple = t, !.listed = l]
  <2>4. job' = [job EXCEPT ![r] = j]
    BY <2>2
  <2>5. l \in SUBSET (Bindings \X Triples) /\ e \in SUBSET Bindings /\ t \in Triples
    BY <2>1, <2>3 DEF JobType
  <2> HIDE DEF t, l, e
  <2>6. j \in JobType /\ j.pc = "list"
    BY <2>1, <2>5 DEF JobType, JobPcs
  <2>7. /\ j.verb = job[r].verb /\ j.id = job[r].id /\ j.name = job[r].name
        /\ j.of = job[r].of /\ j.token = job[r].token
        /\ j.during = job[r].during /\ j.replaced = job[r].replaced
    BY <2>1 DEF JobType
  <2> HIDE DEF j
  <2> QED
    BY <2>1, <2>4, <2>6, <2>7 DEF MovesOn, Underway
<1> QED
  BY <1>1, <1>2

LEMMA SweepMovesOn ==
    ASSUME RegistryTypeOK, NEW r \in Requests, NEW j \in JobType,
           j.pc \in {"gate", "evict", "ack"}, job[r].pc \in {"list", "evict", "ack"},
           j.verb = job[r].verb, j.id = job[r].id, j.name = job[r].name,
           j.of = job[r].of, j.token = job[r].token,
           j.during = job[r].during, j.replaced = job[r].replaced,
           rows' = rows, boots' = boots, Moved(r, j)
    PROVE  \E k : MovesOn(r, k)
BY DEF MovesOn, Underway, Moved

LEMMA MintMovesOn ==
    ASSUME RegistryTypeOK, NEW r \in Requests, MintInvitation(r)
    PROVE  \E j : MovesOn(r, j)
<1> DEFINE j == [job[r] EXCEPT !.pc = "ok"]
<1>1. job[r] \in JobType
  BY DEF RegistryTypeOK
<1>2. j \in JobType /\ j.pc = "ok" /\ job' = [job EXCEPT ![r] = j]
  BY <1>1 DEF JobType, JobPcs, Moved, MintInvitation
<1>3. /\ j.verb = job[r].verb /\ j.id = job[r].id /\ j.name = job[r].name
      /\ j.of = job[r].of /\ j.token = job[r].token
      /\ j.during = job[r].during /\ j.replaced = job[r].replaced
  BY <1>1 DEF JobType
<1> HIDE DEF j
<1> QED
  BY <1>2, <1>3 DEF MovesOn, Underway, MintInvitation

\* Every handler step but the first and a successful commit.
Handles(r) ==
    \/ Load(r) \/ Preflight(r) \/ ResolveTriple(r) \/ ListSessions(r)
    \/ DeleteSession(r) \/ SessionDeleted(r) \/ DeleteRolledBack(r)
    \/ MintInvitation(r) \/ Fails(r)
    \/ Apply(r) /\ Violates(r)

LEMMA HandlerMovesOn ==
    ASSUME RegistryTypeOK, SentSound, Shape, References, NEW r \in Requests, Handles(r)
    PROVE  \E j : MovesOn(r, j)
<1>0. job[r] \in JobType
  BY DEF RegistryTypeOK
<1>1. CASE ListSessions(r)
  <2> DEFINE live == {s \in Sessions : Recorded(s) /\ sess[s].names = job[r].triple}
             pc == IF live = {} THEN "gate" ELSE "evict"
             j == [job[r] EXCEPT !.pc = pc, !.doomed = live]
  <2>1. Moved(r, j) /\ job[r].pc = "list" /\ rows' = rows /\ boots' = boots
    BY <1>1 DEF ListSessions
  <2>2. pc \in {"gate", "evict"} /\ live \in SUBSET Sessions
    OBVIOUS
  <2> HIDE DEF live, pc
  <2>3. pc \in JobPcs
    BY <2>2 DEF JobPcs
  <2>4. j \in JobType
    BY <1>0, <2>2, <2>3 DEF JobType
  <2>5. /\ j.pc = pc
        /\ j.verb = job[r].verb /\ j.id = job[r].id /\ j.name = job[r].name
        /\ j.of = job[r].of /\ j.token = job[r].token
        /\ j.during = job[r].during /\ j.replaced = job[r].replaced
    BY <1>0 DEF JobType
  <2> HIDE DEF j
  <2> QED
    BY <2>1, <2>2, <2>4, <2>5, SweepMovesOn
<1>2. CASE DeleteSession(r)
  <2>1. PICK s \in job[r].doomed :
           Moved(r, [job[r] EXCEPT !.pc = "ack", !.doomed = @ \ {s},
                                   !.cut = IF Recorded(s) THEN {s} ELSE {}])
    BY <1>2 DEF DeleteSession
  <2> DEFINE c == IF Recorded(s) THEN {s} ELSE {}
             j == [job[r] EXCEPT !.pc = "ack", !.doomed = @ \ {s}, !.cut = c]
  <2>2. c \in SUBSET Sessions
    BY <1>0 DEF JobType
  <2>3. Moved(r, j) /\ job[r].pc = "evict" /\ rows' = rows /\ boots' = boots
    BY <1>2, <2>1 DEF DeleteSession
  <2> HIDE DEF c
  <2>4. j \in JobType /\ j.pc = "ack"
        /\ j.verb = job[r].verb /\ j.id = job[r].id /\ j.name = job[r].name
        /\ j.of = job[r].of /\ j.token = job[r].token
        /\ j.during = job[r].during /\ j.replaced = job[r].replaced
    BY <1>0, <2>2 DEF JobType, JobPcs
  <2> HIDE DEF j
  <2> QED
    BY <2>3, <2>4, SweepMovesOn
<1>5. CASE SessionDeleted(r)
  <2> DEFINE pc == IF job[r].doomed = {} THEN "gate" ELSE "evict"
             j == [job[r] EXCEPT !.cut = {}, !.pc = pc]
  <2>1. Moved(r, j) /\ job[r].pc = "ack" /\ rows' = rows /\ boots' = boots
    BY <1>5 DEF SessionDeleted, NextDelete
  <2>2. pc \in {"gate", "evict"}
    OBVIOUS
  <2> HIDE DEF pc
  <2>3. j \in JobType /\ j.pc = pc
        /\ j.verb = job[r].verb /\ j.id = job[r].id /\ j.name = job[r].name
        /\ j.of = job[r].of /\ j.token = job[r].token
        /\ j.during = job[r].during /\ j.replaced = job[r].replaced
    BY <1>0, <2>2 DEF JobType, JobPcs
  <2> HIDE DEF j
  <2> QED
    BY <2>1, <2>2, <2>3, SweepMovesOn
<1>6. CASE DeleteRolledBack(r)
  BY <1>6, RefusedMovesOn DEF DeleteRolledBack, PutBack
<1>3. CASE Fails(r)
  BY <1>3, RefusedMovesOn DEF Fails
<1>4. CASE Apply(r) /\ Violates(r)
  BY <1>4, RefusedMovesOn DEF Apply
<1> QED
  BY <1>1, <1>2, <1>3, <1>4, <1>5, <1>6, LoadMovesOn, PreflightMovesOn, ResolveMovesOn, MintMovesOn DEF Handles

\* Such a step keeps what requests and rows say of each other.
LEMMA MovingKeepsSteady ==
    ASSUME RegistryTypeOK, Steady, NEW r \in Requests, NEW j, MovesOn(r, j)
    PROVE  Steady'
<1>1. /\ job' = [job EXCEPT ![r] = j] /\ rows' = rows
      /\ job'[r] = j /\ \A q \in Requests : q # r => job'[q] = job[q]
  BY DEF RegistryTypeOK, MovesOn
<1>2. \A i : Present(i)' = Present(i)
  BY <1>1 DEF Present
<1>3. /\ j.verb = job[r].verb /\ j.id = job[r].id /\ j.name = job[r].name
      /\ j.of = job[r].of /\ j.token = job[r].token
      /\ j.during = job[r].during /\ j.replaced = job[r].replaced
  BY DEF MovesOn
<1>4. \A q \in Requests :
        /\ job'[q].verb = job[q].verb /\ job'[q].id = job[q].id /\ job'[q].name = job[q].name
        /\ job'[q].of = job[q].of /\ job'[q].token = job[q].token
        /\ job'[q].during = job[q].during /\ job'[q].replaced = job[q].replaced
  BY <1>1, <1>3
<1>5. Shape' /\ References'
  BY <1>1, <1>2 DEF Steady, Shape, References, Populated
<1>6. SentSound'
  <2>1. /\ job[r].pc # "idle" /\ j.pc # "mint"
        /\ j.pc \in {"gate", "list", "evict", "ack"} =>
              \/ job[r].pc \in {"gate", "list", "evict", "ack"}
              \/ j.id \in Bindings
              \/ j.id \in Workspaces /\ j.verb = "delete"
    BY DEF MovesOn
  <2> QED
    BY <1>1, <1>3, <2>1 DEF Steady, SentSound, SentBy
<1>7. Unused'
  <2>1. \A q \in Requests : Creating(q)' => Creating(q)
    <3>1. j.pc \in {"load", "preflight", "apply"} => job[r].pc \in {"load", "preflight", "apply"}
      BY DEF MovesOn
    <3> QED
      BY <1>1, <1>3, <3>1 DEF Creating
  <2> QED
    BY <1>2, <1>4, <2>1 DEF Steady, Unused
<1>8. \A q \in Requests : InFlight(q)' =>
        InFlight(q) \/ (q = r /\ job[r].pc = "load" /\ Loadable(r))
  BY <1>1 DEF MovesOn, Underway, InFlight
<1>9. Kept'
  <2>1. ASSUME NEW q \in Requests, InFlight(q)', job'[q].verb # "create", job'[q].id \in Named,
               rows'[job'[q].id] # None
        PROVE  rows'[job'[q].id].of = job'[q].of
    <3>1. CASE InFlight(q)
      BY <3>1, <2>1, <1>1, <1>4 DEF Steady, Kept, KeptBy, Present
    <3>2. CASE q = r /\ job[r].pc = "load" /\ Loadable(r)
      <4>1. Present(job[r].id) /\ (job[r].id \in Workspaces => rows[job[r].id].of = job[r].of)
        BY <3>2, <2>1, <1>4 DEF Loadable
      <4>2. job[r].id \in Ids /\ (job[r].of # None <=> job[r].id \in Workspaces)
        BY <3>2 DEF Steady, SentSound, SentBy
      <4>3. rows[job[r].id].of # None <=> job[r].id \in Workspaces
        BY <4>1, <4>2 DEF Steady, Shape
      <4> QED
        BY <1>1, <1>4, <3>2, <4>1, <4>2, <4>3
    <3> QED
      BY <3>1, <3>2, <2>1, <1>8
  <2> QED
    BY <2>1 DEF Kept, KeptBy, Present
<1>10. Locked'
  <2>1. ASSUME NEW q \in Requests, InFlight(q)', job'[q].token # None
        PROVE  IF Present(job[q].id) THEN rows[job[q].id].ver \in {job[q].token} \cup job[q].during
               ELSE job[q].during # {}
    <3>1. CASE InFlight(q)
      BY <3>1, <2>1, <1>4 DEF Steady, Locked, LockedBy
    <3>2. CASE q = r /\ job[r].pc = "load" /\ Loadable(r)
      <4>1. job[r].verb # "create"
        BY <3>2, <2>1, <1>4 DEF Steady, SentSound, SentBy
      <4> QED
        BY <4>1, <3>2, <2>1, <1>4 DEF Loadable, CheckLock
    <3> QED
      BY <3>1, <3>2, <2>1, <1>8
  <2> QED
    BY <1>1, <1>2, <1>4, <2>1 DEF Locked, LockedBy
<1>11. TokenGuardsUpdate'
  <2>1. ASSUME NEW q \in Requests, job'[q].pc = "ok", job'[q].token # None
        PROVE  job[q].pc = "ok"
    <3>1. CASE q = r
      BY <3>1, <2>1, <1>1, <1>4 DEF MovesOn, Steady, SentSound, SentBy
    <3> QED
      BY <3>1, <2>1, <1>1
  <2> QED
    BY <2>1, <1>4 DEF Steady, TokenGuardsUpdate
<1>12. Checked'
  <2>1. ASSUME NEW q \in Requests, job'[q].pc = "apply", job'[q].id \in Named, job'[q].verb # "delete",
               NEW k \in Peers(job'[q].id) \ {job'[q].id}, Present(k)', rows'[k].of = job'[q].of,
               Fold[rows'[k].name] = Fold[job'[q].name]
        PROVE  rows'[k].ver \in job'[q].during
    <3>1. CASE q = r
      <4>1. ~NameTaken(job[q].id, job[q].of, job[q].name)
        BY <3>1, <2>1, <1>1, <1>3 DEF MovesOn
      <4> QED
        BY <4>1, <2>1, <1>1, <1>2, <1>4 DEF NameTaken
    <3>2. CASE q # r
      BY <3>2, <2>1, <1>1, <1>2 DEF Steady, Checked, CheckedBy
    <3> QED
      BY <3>1, <3>2
  <2> QED
    BY <2>1 DEF Checked, CheckedBy, Peers
<1>13. Finished'
  <2>1. job[r].pc \in {"mint", "ok", "refused"} => j.pc \in {"mint", "ok", "refused"}
    BY DEF MovesOn
  <2> QED
    BY <2>1, <1>1, <1>2 DEF Steady, Finished
<1>14. CaseFoldedUnique'
  BY <1>1, <1>2, <1>4 DEF Steady, CaseFoldedUnique, Peers
<1> QED
  BY <1>5, <1>6, <1>7, <1>9, <1>10, <1>11, <1>12, <1>13, <1>14 DEF Steady

-----------------------------------------------------------------------------
(* What a commit of writer w does to the other requests Q and to the rows. *)
Commits(w, Q) ==
    /\ \A i \in Ids : rows'[i] = rows[i] \/ rows'[i] = None \/ rows'[i].ver = w
    /\ \A i \in Named :
          /\ rows[i] # None /\ rows'[i] # None => rows'[i].of = rows[i].of
          /\ rows[i] = None /\ rows'[i] # None => \A q \in Q : job[q].id # i
    /\ \A q \in Q :
          /\ job'[q].pc = job[q].pc /\ job'[q].verb = job[q].verb /\ job'[q].id = job[q].id
          /\ job'[q].name = job[q].name /\ job'[q].of = job[q].of
          /\ job'[q].token = job[q].token /\ job'[q].replaced = job[q].replaced
          /\ job'[q].during = IF InFlight(q) THEN job[q].during \cup {w} ELSE job[q].during

\* The requests in flight know the committed writer as one of their time.
LEMMA CommitKeepsOthers ==
    ASSUME RegistryTypeOK, Steady, NEW w, NEW Q, Q \subseteq Requests, Commits(w, Q), NEW q \in Q
    PROVE  /\ SentBy(q)' /\ KeptBy(q)' /\ LockedBy(q)' /\ CheckedBy(q)'
           /\ Creating(q)' => Creating(q) /\ ~Present(job[q].id)'
           /\ job'[q].pc = "ok" /\ job'[q].token # None =>
                \/ job'[q].replaced \in {job'[q].token} \cup job'[q].during
                \/ job'[q].verb = "delete" /\ job'[q].during # {}
<1>1. \A i \in Ids : rows'[i] = rows[i] \/ rows'[i] = None \/ rows'[i].ver = w
  BY DEF Commits
<1>2. \A i \in Named :
          /\ rows[i] # None /\ rows'[i] # None => rows'[i].of = rows[i].of
          /\ rows[i] = None /\ rows'[i] # None => job[q].id # i
  BY DEF Commits
<1>3. /\ job'[q].pc = job[q].pc /\ job'[q].verb = job[q].verb /\ job'[q].id = job[q].id
      /\ job'[q].name = job[q].name /\ job'[q].of = job[q].of
      /\ job'[q].token = job[q].token /\ job'[q].replaced = job[q].replaced
      /\ job'[q].during = IF InFlight(q) THEN job[q].during \cup {w} ELSE job[q].during
  BY DEF Commits
<1>4. InFlight(q)' = InFlight(q)
  BY <1>3 DEF InFlight
<1>5. SentBy(q) /\ KeptBy(q) /\ LockedBy(q) /\ CheckedBy(q)
  BY DEF Steady, SentSound, Kept, Locked, Checked
<1>6. SentBy(q)'
  BY <1>3, <1>5 DEF SentBy
<1>7. KeptBy(q)'
  BY <1>2, <1>3, <1>4, <1>5 DEF KeptBy, Present
<1>8. LockedBy(q)'
  <2>1. InFlight(q) => job[q].id \in Ids
    BY <1>5 DEF SentBy, InFlight
  <2> QED
    BY <1>1, <1>3, <1>4, <1>5, <2>1 DEF LockedBy, Present
<1>9. CheckedBy(q)'
  <2>1. ASSUME job[q].pc = "apply", job[q].id \in Named, job[q].verb # "delete",
               NEW k \in Peers(job[q].id) \ {job[q].id}, rows'[k] # None, rows'[k].of = job[q].of,
               Fold[rows'[k].name] = Fold[job[q].name]
        PROVE  rows'[k].ver \in job'[q].during
    <3>1. k \in Ids /\ InFlight(q)
      BY <2>1, PeersOf, Kinds DEF InFlight
    <3>2. rows'[k] = rows[k] \/ rows'[k].ver = w
      BY <2>1, <3>1, <1>1
    <3> QED
      BY <2>1, <3>1, <3>2, <1>3, <1>5 DEF CheckedBy, Present
  <2> QED
    BY <2>1, <1>3 DEF CheckedBy, Present, Peers
<1>10. Creating(q)' => Creating(q) /\ ~Present(job[q].id)'
  BY <1>2, <1>3 DEF Creating, Steady, Unused, Present
<1>11. job'[q].pc = "ok" /\ job'[q].token # None =>
                \/ job'[q].replaced \in {job'[q].token} \cup job'[q].during
                \/ job'[q].verb = "delete" /\ job'[q].during # {}
  BY <1>3 DEF Steady, TokenGuardsUpdate
<1> QED
  BY <1>6, <1>7, <1>8, <1>9, <1>10, <1>11

\* What a successful statement does to the row of its request and the rest.
LEMMA ApplyRows ==
    ASSUME RegistryTypeOK, Steady, NEW r \in Requests, Apply(r), ~Violates(r)
    PROVE  /\ job[r].id \in Ids /\ job[r].verb \in Verbs /\ job[r].pc \in {"apply", "gate"}
           /\ rows' \in [Ids -> RowType \cup {None}]
           /\ job[r].verb = "delete" => \A i \in Ids : rows'[i] = rows[i] \/ rows'[i] = None
           /\ job[r].verb # "delete" =>
                /\ rows'[job[r].id] # None /\ rows'[job[r].id].ver = r
                /\ rows'[job[r].id].name = job[r].name
                /\ \A i \in Ids \ {job[r].id} : rows'[i] = rows[i]
           /\ job[r].verb = "create" =>
                rows[job[r].id] = None /\ rows'[job[r].id].of = job[r].of
           /\ job[r].verb = "update" =>
                rows[job[r].id] # None /\ rows'[job[r].id].of = rows[job[r].id].of
<1>1. job[r].pc \in {"apply", "gate"} /\ rows' = Written(r)
  BY DEF Apply
<1>2. job[r].id \in Ids /\ job[r].verb \in Verbs /\ job[r] \in JobType
  BY <1>1 DEF Steady, SentSound, SentBy, RegistryTypeOK
<1>3. job[r].name \in NameOrNone /\ job[r].of \in Tenants \cup {None} /\ r \in Writers
  BY <1>2 DEF JobType, Writers
<1>4. rows \in [Ids -> RowType \cup {None}]
  BY DEF RegistryTypeOK
<1>5. CASE job[r].verb = "create"
  <2> DEFINE v == Row(job[r].name, job[r].of, r)
  <2>1. rows' = [rows EXCEPT ![job[r].id] = v] /\ rows[job[r].id] = None
    BY <1>1, <1>2, <1>4, <1>5 DEF Written, Inserted, Violates, Present
  <2>3. v \in RowType /\ v # None /\ v.name = job[r].name /\ v.of = job[r].of /\ v.ver = r
    BY <1>3, RowIsThere
  <2> HIDE DEF v
  <2>4. rows' \in [Ids -> RowType \cup {None}] /\ rows'[job[r].id] = v
        /\ \A i \in Ids \ {job[r].id} : rows'[i] = rows[i]
    BY <2>1, <2>3, <1>2, <1>4
  <2> QED
    BY <2>1, <2>3, <2>4, <1>1, <1>2, <1>5
<1>6. CASE job[r].verb = "update"
  <2> DEFINE v == Row(job[r].name, rows[job[r].id].of, r)
  <2>1. rows' = [rows EXCEPT ![job[r].id] = v] /\ rows[job[r].id] # None
    BY <1>1, <1>2, <1>4, <1>6 DEF Written, Updated, Violates, Present
  <2>2. rows[job[r].id].of \in Tenants \cup {None}
    BY <1>2, <2>1, NameTyped DEF Present
  <2>3. v \in RowType /\ v # None /\ v.name = job[r].name /\ v.of = rows[job[r].id].of /\ v.ver = r
    <3> DEFINE o == rows[job[r].id].of
    <3>1. o \in Tenants \cup {None}
      BY <2>2
    <3> HIDE DEF o
    <3>2. /\ Row(job[r].name, o, r) \in RowType /\ Row(job[r].name, o, r) # None
          /\ Row(job[r].name, o, r).name = job[r].name
          /\ Row(job[r].name, o, r).of = o /\ Row(job[r].name, o, r).ver = r
      BY <1>3, <3>1, RowIsThere
    <3> QED
      BY <3>2 DEF o
  <2> HIDE DEF v
  <2>4. rows' \in [Ids -> RowType \cup {None}] /\ rows'[job[r].id] = v
        /\ \A i \in Ids \ {job[r].id} : rows'[i] = rows[i]
    BY <2>1, <2>3, <1>2, <1>4
  <2> QED
    BY <2>1, <2>3, <2>4, <1>1, <1>2, <1>6
<1>7. CASE job[r].verb = "delete"
  <2>1. rows' = [i \in Ids |-> IF i \in {job[r].id} \cup Children(job[r].id) THEN None ELSE rows[i]]
    BY <1>1, <1>7 DEF Written, Deleted
  <2> QED
    BY <2>1, <1>1, <1>2, <1>4, <1>7
<1> QED
  BY <1>2, <1>5, <1>6, <1>7 DEF Verbs

\* The schema's references survive: an insert has its parents, a delete
\* takes its bindings along or is refused for its dependents.
LEMMA ApplyKeepsReferences ==
    ASSUME RegistryTypeOK, Steady, NEW r \in Requests, Apply(r), ~Violates(r)
    PROVE  Shape' /\ References'
<1>1. /\ job[r].id \in Ids /\ job[r].verb \in Verbs /\ job[r].pc # "idle"
      /\ job[r].of \in Tenants \cup {None}
  BY ApplyRows DEF RegistryTypeOK, JobType
<1>2. SentBy(r)
  BY DEF Steady, SentSound
<1>3. CASE job[r].verb \in {"create", "update"}
  <2>1. \A i \in Ids : rows[i] # None => rows'[i] # None /\ rows'[i].of = rows[i].of
    BY <1>3, ApplyRows
  <2>2. \A i \in Ids : i # job[r].id => rows'[i] = rows[i]
    BY <1>3, ApplyRows
  <2>3. Shape'
    <3>1. rows'[job[r].id].of # None <=> job[r].id \in Workspaces
      BY <1>1, <1>2, <1>3, ApplyRows DEF SentBy, Steady, Shape, Present
    <3>2. rows'[job[r].id].name # None <=> job[r].id \in Named
      BY <1>1, <1>2, <1>3, ApplyRows DEF SentBy
    <3> QED
      BY <2>2, <3>1, <3>2 DEF Steady, Shape, Present
  <2>4. \A i \in Ids : rows'[i] # None =>
          /\ i \in Bindings => rows'[i[1]] # None /\ rows'[i[2]] # None
          /\ i \in Workspaces => rows'[rows'[i].of] # None
    <3>1. TAKE i \in Ids
    <3>2. CASE rows[i] # None
      <4>1. /\ i \in Bindings => rows[i[1]] # None /\ rows[i[2]] # None
            /\ i \in Workspaces => rows[rows[i].of] # None /\ rows[i].of \in Ids
        BY <3>2, NameTyped, Kinds DEF Steady, References, Populated, Shape, Present
      <4> QED
        BY <3>2, <4>1, <2>1, Kinds
    <3>3. CASE rows[i] = None /\ rows'[i] # None
      <4>1. i = job[r].id /\ job[r].verb = "create" /\ rows'[i].of = job[r].of
        BY <3>3, <2>2, <1>3, ApplyRows
      <4>2. ParentsExist(i, job[r].of)
        BY <4>1 DEF Violates
      <4> QED
        BY <4>1, <4>2, <2>1, Kinds DEF ParentsExist, Present
    <3> QED
      BY <3>2, <3>3
  <2> QED
    BY <2>3, <2>4 DEF References, Populated
<1>4. CASE job[r].verb = "delete"
  <2> DEFINE D == {job[r].id} \cup Children(job[r].id)
  <2>1. \A i \in Ids : rows'[i] = IF i \in D THEN None ELSE rows[i]
    BY <1>4 DEF Apply, Written, Deleted
  <2>2. \A i \in Ids : rows'[i] # None => rows'[i] = rows[i] /\ i \notin D /\ Present(i)
    BY <2>1 DEF Present
  <2>3. Shape'
    BY <2>2 DEF Steady, Shape, Present
  <2>4. ASSUME NEW w \in Workspaces, w \in Children(job[r].id) PROVE FALSE
    <3>1. rows[w].of = job[r].id /\ Present(w)
      BY <2>4, Kinds DEF Children
    <3>2. job[r].id \in Tenants
      BY <3>1, <1>1, NameTyped, Kinds
    <3> QED
      BY <2>4, <3>2, <1>4 DEF Violates
  <2>5. ASSUME NEW i \in Bindings, rows'[i] # None PROVE rows'[i[1]] # None /\ rows'[i[2]] # None
    <3>1. Present(i) /\ i \notin D /\ i[1] \in Workspaces /\ i[2] \in Plugins
      BY <2>2, <2>5, Kinds
    <3>2. rows[i[1]] # None /\ rows[i[2]] # None
      BY <3>1, Kinds DEF Steady, References, Populated, Present
    <3>3. i # job[r].id /\ job[r].id \notin {i[1], i[2]}
      BY <3>1, Kinds DEF Children
    <3>4. i[1] \notin D
      BY <3>1, <3>3, <2>4
    <3>5. i[2] \notin D
      BY <3>1, <3>3, Kinds DEF Children
    <3> QED
      BY <3>1, <3>2, <3>4, <3>5, <2>1, Kinds
  <2>6. ASSUME NEW w \in Workspaces, rows'[w] # None PROVE rows'[rows'[w].of] # None
    <3>1. Present(w) /\ w \notin D /\ rows'[w] = rows[w] /\ w \in Ids
      BY <2>2, <2>6, Kinds
    <3>2. rows[w].of \in Tenants /\ rows[rows[w].of] # None
      BY <3>1, NameTyped, Kinds DEF Steady, References, Populated, Present, Shape
    <3>3. rows[w].of # job[r].id
      BY <3>1 DEF Children
    <3>4. rows[w].of \notin Children(job[r].id)
      BY <3>2, Kinds DEF Children
    <3> QED
      BY <3>1, <3>2, <3>3, <3>4, <2>1, Kinds
  <2> QED
    BY <2>3, <2>5, <2>6 DEF References, Populated
<1> QED
  BY <1>1, <1>3, <1>4 DEF Verbs

\* A commit adds its writer to what the requests in flight have seen.
LEMMA CommittedJobs ==
    ASSUME RegistryTypeOK, NEW w \in Writers, NEW q \in Requests
    PROVE  /\ Committed(w, job)[q] \in JobType
           /\ Committed(w, job)[q].pc = job[q].pc /\ Committed(w, job)[q].verb = job[q].verb
           /\ Committed(w, job)[q].id = job[q].id /\ Committed(w, job)[q].name = job[q].name
           /\ Committed(w, job)[q].of = job[q].of /\ Committed(w, job)[q].token = job[q].token
           /\ Committed(w, job)[q].replaced = job[q].replaced
           /\ Committed(w, job)[q].left = job[q].left
           /\ Committed(w, job)[q].triple = job[q].triple
           /\ Committed(w, job)[q].doomed = job[q].doomed
           /\ Committed(w, job)[q].listed = job[q].listed
           /\ Committed(w, job)[q].during =
                IF InFlight(q) THEN job[q].during \cup {w} ELSE job[q].during
<1>1. job[q] \in JobType
  BY DEF RegistryTypeOK
<1>2. Committed(w, job)[q] = IF InFlight(q) THEN [job[q] EXCEPT !.during = job[q].during \cup {w}] ELSE job[q]
  BY <1>1 DEF Committed, JobType
<1>3. job[q].during \cup {w} \in SUBSET Writers
  BY <1>1 DEF JobType
<1> QED
  BY <1>1, <1>2, <1>3 DEF JobType

\* What a commit does to its own request.
LEMMA ApplyJobs ==
    ASSUME RegistryTypeOK, Steady, NEW r \in Requests, Apply(r), ~Violates(r)
    PROVE  /\ job' \in [Requests -> JobType]
           /\ \A q \in Requests \ {r} : job'[q] = Committed(r, job)[q]
           /\ job'[r].pc \in {"mint", "ok"} /\ (job'[r].pc = "mint" => job[r].verb = "create")
           /\ job'[r].verb = job[r].verb /\ job'[r].id = job[r].id /\ job'[r].name = job[r].name
           /\ job'[r].of = job[r].of /\ job'[r].token = job[r].token
           /\ job'[r].during = job[r].during /\ job'[r].listed = job[r].listed
           /\ job'[r].replaced = IF Present(job[r].id) THEN rows[job[r].id].ver ELSE None
<1> DEFINE pc == IF job[r].verb = "create" /\ job[r].id \in Tenants THEN "mint" ELSE "ok"
           old == IF Present(job[r].id) THEN rows[job[r].id].ver ELSE None
           j == [job[r] EXCEPT !.pc = pc, !.replaced = old]
<1>1. job' = [Committed(r, job) EXCEPT ![r] = j]
  BY DEF Apply
<1>2. job[r] \in JobType /\ job[r].id \in Ids /\ pc \in {"mint", "ok"} /\ r \in Writers
  BY ApplyRows DEF RegistryTypeOK, Writers
<1>3. old \in Writers \cup {None}
  BY <1>2, NameTyped
<1>4. pc = "mint" => job[r].verb = "create"
  OBVIOUS
<1> HIDE DEF pc, old
<1>5. j \in JobType /\ j.pc = pc /\ j.replaced = old
  BY <1>2, <1>3 DEF JobType, JobPcs
<1>6. /\ j.verb = job[r].verb /\ j.id = job[r].id /\ j.name = job[r].name
      /\ j.of = job[r].of /\ j.token = job[r].token
      /\ j.during = job[r].during /\ j.listed = job[r].listed
  BY <1>2 DEF JobType
<1> HIDE DEF j
<1>7. Committed(r, job) \in [Requests -> JobType]
  <2>1. Committed(r, job) = [q \in Requests |-> Committed(r, job)[q]]
    BY DEF Committed
  <2>2. \A q \in Requests : Committed(r, job)[q] \in JobType
    BY <1>2, CommittedJobs
  <2> QED
    BY <2>1, <2>2
<1>8. job' \in [Requests -> JobType] /\ job'[r] = j /\ \A q \in Requests \ {r} : job'[q] = Committed(r, job)[q]
  BY <1>1, <1>5, <1>7
<1> QED
  BY <1>2, <1>4, <1>5, <1>6, <1>8 DEF old

LEMMA ApplyCommits ==
    ASSUME RegistryTypeOK, Steady, NEW r \in Requests, Apply(r), ~Violates(r)
    PROVE  Commits(r, Requests \ {r})
<1>1. \A i \in Ids : rows'[i] = rows[i] \/ rows'[i] = None \/ rows'[i].ver = r
  BY ApplyRows
<1>2. ASSUME NEW i \in Named
      PROVE  /\ rows[i] # None /\ rows'[i] # None => rows'[i].of = rows[i].of
             /\ rows[i] = None /\ rows'[i] # None => \A q \in Requests \ {r} : job[q].id # i
  <2>1. i \in Ids
    BY Kinds
  <2>2. CASE rows'[i] = rows[i] \/ rows'[i] = None
    BY <2>2
  <2>3. CASE i = job[r].id /\ job[r].verb = "update"
    BY <2>3, ApplyRows
  <2>4. CASE i = job[r].id /\ job[r].verb = "create"
    <3>1. Creating(r)
      BY <2>4, ApplyRows, Kinds DEF Creating, Steady, SentSound, SentBy
    <3> QED
      BY <3>1, <2>4, ApplyRows DEF Steady, Unused
  <2> QED
    BY <2>1, <2>2, <2>3, <2>4, ApplyRows DEF Verbs
<1>3. \A q \in Requests \ {r} : job'[q] = Committed(r, job)[q] /\ r \in Writers
  BY ApplyJobs DEF Writers
<1> QED
  BY <1>1, <1>2, <1>3, CommittedJobs DEF Commits

LEMMA ApplyKeepsSteady ==
    ASSUME RegistryTypeOK, Steady, NEW r \in Requests, Apply(r), ~Violates(r)
    PROVE  Steady'
<1> DEFINE Q == Requests \ {r}
<1>1. Commits(r, Q) /\ Q \subseteq Requests
  BY ApplyCommits
<1>2. Shape' /\ References'
  BY ApplyKeepsReferences
<1>3. ASSUME NEW q \in Q
      PROVE  /\ SentBy(q)' /\ KeptBy(q)' /\ LockedBy(q)' /\ CheckedBy(q)'
             /\ Creating(q)' => Creating(q) /\ ~Present(job[q].id)'
             /\ job'[q].pc = "ok" /\ job'[q].token # None =>
                \/ job'[q].replaced \in {job'[q].token} \cup job'[q].during
                \/ job'[q].verb = "delete" /\ job'[q].during # {}
  BY <1>1, <1>3, CommitKeepsOthers
<1>4. job'[r].pc \in {"mint", "ok"} /\ job[r].pc \in {"apply", "gate"} /\ SentBy(r)
  BY ApplyJobs, ApplyRows DEF Steady, SentSound
<1>5. SentBy(r)' /\ KeptBy(r)' /\ LockedBy(r)' /\ CheckedBy(r)' /\ ~Creating(r)'
  BY <1>4, ApplyJobs DEF SentBy, KeptBy, LockedBy, CheckedBy, Creating, InFlight
<1>6. SentSound' /\ Kept' /\ Locked' /\ Checked'
  BY <1>3, <1>5 DEF SentSound, Kept, Locked, Checked
<1>7. \A q \in Requests : job'[q].id = job[q].id /\ job[q].during \subseteq job'[q].during
  BY <1>1, ApplyJobs DEF Commits
<1>8. Unused'
  <2>1. ASSUME NEW q \in Requests, Creating(q)'
        PROVE  ~Present(job[q].id)' /\ \A o \in Requests \ {q} : job'[o].id # job'[q].id
    <3>1. Creating(q) /\ ~Present(job[q].id)'
      BY <2>1, <1>3, <1>5
    <3>2. \A o \in Requests \ {q} : job[o].id # job[q].id
      BY <3>1 DEF Steady, Unused
    <3> QED
      BY <3>1, <3>2, <1>7
  <2> QED
    BY <2>1 DEF Unused
<1>9. TokenGuardsUpdate'
  <2>1. ASSUME job'[r].pc = "ok", job'[r].token # None
        PROVE  \/ job'[r].replaced \in {job'[r].token} \cup job'[r].during
               \/ job'[r].verb = "delete" /\ job'[r].during # {}
    <3>1. LockedBy(r) /\ InFlight(r) /\ job[r].token # None
      BY <2>1, <1>4, ApplyJobs DEF Steady, Locked, InFlight
    <3>2. job[r].verb \in {"update", "delete"} /\ (job[r].verb = "update" => Present(job[r].id))
      BY <1>4, <3>1, ApplyRows DEF SentBy, Verbs, Present
    <3> QED
      BY <3>1, <3>2, ApplyJobs DEF LockedBy
  <2> QED
    BY <2>1, <1>3 DEF TokenGuardsUpdate
<1>10. Finished'
  <2>1. ASSUME NEW i \in Ids, rows'[i] # None, rows'[i].ver \in Requests
        PROVE  job'[rows'[i].ver].pc \in {"mint", "ok", "refused"}
    <3>1. CASE rows'[i].ver = r
      BY <3>1, <1>4
    <3>2. CASE rows'[i].ver # r
      <4>1. rows'[i] = rows[i] /\ rows[i].ver \in Q
        BY <2>1, <3>2, <1>1 DEF Commits
      <4>2. job'[rows[i].ver].pc = job[rows[i].ver].pc
        BY <4>1, <1>1 DEF Commits
      <4> QED
        BY <2>1, <4>1, <4>2 DEF Steady, Finished, Present
    <3> QED
      BY <3>1, <3>2
  <2> QED
    BY <2>1 DEF Finished, Present
<1>11. CaseFoldedUnique'
  <2> DEFINE Raced(i, k) ==
                 \/ {rows'[i].ver, rows'[k].ver} \cap Boots # {}
                 \/ \E q \in {rows'[i].ver, rows'[k].ver} \cap Requests :
                       job'[q].during \cap {rows'[i].ver, rows'[k].ver} # {}
  <2>1. ASSUME NEW i \in Named, NEW k \in Peers(i) \ {i}, rows'[i] # None, rows'[k] # None,
               rows'[i].of = rows'[k].of, Fold[rows'[i].name] = Fold[rows'[k].name]
        PROVE  Raced(i, k)
    <3>1. k \in Named /\ i \in Peers(k) /\ i \in Ids /\ k \in Ids
      BY <2>1, PeersOf, Kinds
    <3>2. ASSUME NEW m \in Named, NEW n \in Peers(m) \ {m}, m = job[r].id, job[r].verb # "delete",
                 rows'[n] # None, rows'[m].of = rows'[n].of, Fold[rows'[m].name] = Fold[rows'[n].name]
          PROVE  rows'[m].ver = r /\ rows'[n].ver \in job'[r].during
      <4>1. job[r].pc = "apply" /\ n \in Ids
        BY <1>4, <3>2, Kinds, PeersOf DEF SentBy
      <4>2. rows'[n] = rows[n] /\ rows'[m].ver = r /\ rows'[m].name = job[r].name
        BY <3>2, <4>1, ApplyRows
      <4>3. rows'[m].of = job[r].of
        <5>1. CASE job[r].verb = "create"
          BY <5>1, <3>2, ApplyRows
        <5>2. CASE job[r].verb = "update"
          BY <5>2, <3>2, <4>1, ApplyRows DEF Steady, Kept, KeptBy, InFlight, Present
        <5> QED
          BY <3>2, <5>1, <5>2, ApplyRows DEF Verbs
      <4>4. CheckedBy(r)
        BY DEF Steady, Checked
      <4> QED
        BY <3>2, <4>1, <4>2, <4>3, <4>4, ApplyJobs DEF CheckedBy, Present
    <3>3. CASE i = job[r].id /\ job[r].verb # "delete"
      BY <3>3, <3>2, <2>1
    <3>4. CASE k = job[r].id /\ job[r].verb # "delete"
      <4>1. i \in Peers(k) \ {k}
        BY <3>1, <2>1
      <4> QED
        BY <3>4, <3>2, <2>1, <3>1, <4>1
    <3>5. CASE rows'[i] = rows[i] /\ rows'[k] = rows[k]
      <4>1. \/ {rows[i].ver, rows[k].ver} \cap Boots # {}
            \/ \E q \in {rows[i].ver, rows[k].ver} \cap Requests :
                  job[q].during \cap {rows[i].ver, rows[k].ver} # {}
        BY <2>1, <3>5 DEF Steady, CaseFoldedUnique, Present
      <4> QED
        BY <4>1, <3>5, <1>7
    <3> QED
      BY <2>1, <3>1, <3>3, <3>4, <3>5, ApplyRows
  <2> QED
    BY <2>1 DEF CaseFoldedUnique, Present, Peers
<1> QED
  BY <1>2, <1>6, <1>8, <1>9, <1>10, <1>11 DEF Steady

-----------------------------------------------------------------------------
(* Bootstrap: the rows it found or made are the manifest's.                *)
Chosen(b, p, t, w, differs) ==
    /\ p \in Plugins /\ t \in Tenants /\ w \in Workspaces /\ differs \subseteq {p, <<w, p>>}
    /\ \A i \in {p, t, w} : Present(i) => rows[i].of = IF i = w THEN t ELSE None
    /\ \A i \in {p, t, w} : ~Present(i) => Fresh(i)
    /\ rows' = [i \in Ids |->
          IF i \in {p, t, w, <<w, p>>} /\ (~Present(i) \/ i \in differs)
          THEN Row(IF i \in Named THEN Manifest ELSE None,
                   IF i = w THEN t ELSE None, b)
          ELSE rows[i]]
    /\ job' = IF rows' = rows THEN job ELSE Committed(b, job)

Rewrites(b, p, t, w) ==
    \A i \in Ids :
        \/ rows'[i] = rows[i] /\ (i \in {p, t, w, <<w, p>>} => Present(i))
        \/ /\ i \in {p, t, w, <<w, p>>} /\ rows'[i] # None /\ rows'[i].ver = b
           /\ rows'[i].name = IF i \in Named THEN Manifest ELSE None
           /\ rows'[i].of = IF i = w THEN t ELSE None

LEMMA BootstrapChooses ==
    ASSUME NEW b \in Boots, Bootstrap(b)
    PROVE  /\ \E p, t, w, differs : Chosen(b, p, t, w, differs)
           /\ boots' = boots \cup {b} /\ sess' = sess
<1>1. PICK p \in Plugins, t \in Tenants, w \in Workspaces, differs \in SUBSET Ids :
        /\ FoundOrNew(Plugins, None, p)
        /\ FoundOrNew(Tenants, None, t)
        /\ FoundOrNew(Workspaces, t, w)
        /\ differs \subseteq {p, <<w, p>>}
        /\ rows' = [i \in Ids |->
              IF i \in {p, t, w, <<w, p>>} /\ (~Present(i) \/ i \in differs)
              THEN Row(IF i \in Named THEN Manifest ELSE None,
                       IF i = w THEN t ELSE None, b)
              ELSE rows[i]]
        /\ job' = IF rows' = rows THEN job ELSE Committed(b, job)
  BY DEF Bootstrap
<1>2. p # w /\ t # w /\ p # t
  BY RegistryAssumption
<1>3. /\ Present(p) => rows[p].of = None
      /\ Present(t) => rows[t].of = None
      /\ Present(w) => rows[w].of = t
      /\ ~Present(p) => Fresh(p)
      /\ ~Present(t) => Fresh(t)
      /\ ~Present(w) => Fresh(w)
  BY <1>1 DEF FoundOrNew, Fresh
<1>4. Chosen(b, p, t, w, differs)
  BY <1>1, <1>2, <1>3 DEF Chosen
<1> QED
  BY <1>4 DEF Bootstrap

LEMMA BootstrapRows ==
    ASSUME RegistryTypeOK, NEW b \in Boots, NEW p, NEW t, NEW w, NEW differs, Chosen(b, p, t, w, differs)
    PROVE  /\ rows' \in [Ids -> RowType \cup {None}]
           /\ {p, t, w, <<w, p>>} \subseteq Ids /\ <<w, p>> \in Bindings
           /\ {p, t, w} \subseteq Named /\ p # w /\ t # w /\ p # t
           /\ Rewrites(b, p, t, w)
<1>1. /\ p \in Plugins /\ t \in Tenants /\ w \in Workspaces
      /\ rows' = [i \in Ids |->
          IF i \in {p, t, w, <<w, p>>} /\ (~Present(i) \/ i \in differs)
          THEN Row(IF i \in Named THEN Manifest ELSE None,
                   IF i = w THEN t ELSE None, b)
          ELSE rows[i]]
  BY DEF Chosen
<1>2. <<w, p>> \in Bindings /\ {p, t, w} \subseteq Named /\ p # w /\ t # w /\ p # t
  BY <1>1, Kinds DEF Bindings
<1>3. {p, t, w, <<w, p>>} \subseteq Ids
  BY <1>2, Kinds
<1>4. ASSUME NEW i \in Ids
      PROVE  /\ rows'[i] \in RowType \cup {None}
             /\ \/ rows'[i] = rows[i] /\ (i \in {p, t, w, <<w, p>>} => Present(i))
                \/ /\ i \in {p, t, w, <<w, p>>} /\ rows'[i] # None /\ rows'[i].ver = b
                   /\ rows'[i].name = IF i \in Named THEN Manifest ELSE None
                   /\ rows'[i].of = IF i = w THEN t ELSE None
  <2> DEFINE n == IF i \in Named THEN Manifest ELSE None
             o == IF i = w THEN t ELSE None
  <2>1. n \in NameOrNone /\ o \in Tenants \cup {None} /\ b \in Writers
    BY <1>1, RegistryAssumption DEF NameOrNone, Writers
  <2>2. rows'[i] = IF i \in {p, t, w, <<w, p>>} /\ (~Present(i) \/ i \in differs)
                   THEN Row(n, o, b) ELSE rows[i]
    BY <1>1
  <2> HIDE DEF n, o
  <2>3. /\ Row(n, o, b) \in RowType /\ Row(n, o, b) # None
        /\ Row(n, o, b).name = n /\ Row(n, o, b).of = o /\ Row(n, o, b).ver = b
    BY <2>1, RowIsThere
  <2>4. rows[i] \in RowType \cup {None}
    BY DEF RegistryTypeOK
  <2> QED
    BY <2>2, <2>3, <2>4 DEF n, o
<1> QED
  BY <1>1, <1>2, <1>3, <1>4 DEF Rewrites

LEMMA BootstrapKeepsReferences ==
    ASSUME RegistryTypeOK, Steady, NEW b \in Boots, NEW p, NEW t, NEW w, NEW differs,
           Chosen(b, p, t, w, differs)
    PROVE  Shape' /\ References'
<1>0. Rewrites(b, p, t, w)
  BY BootstrapRows
<1>1. \A i \in Ids : \/ rows'[i] = rows[i] /\ (i \in {p, t, w, <<w, p>>} => Present(i))
                     \/ /\ i \in {p, t, w, <<w, p>>} /\ rows'[i] # None
                        /\ rows'[i].name = IF i \in Named THEN Manifest ELSE None
                        /\ rows'[i].of = IF i = w THEN t ELSE None
  BY <1>0 DEF Rewrites
<1>2. /\ {p, t, w, <<w, p>>} \subseteq Ids /\ <<w, p>> \in Bindings
      /\ p \in Plugins /\ t \in Tenants /\ w \in Workspaces /\ p # w /\ t # w /\ p # t
  BY BootstrapRows DEF Chosen
<1>3. Manifest # None
  BY RegistryAssumption
<1>4. Shape'
  <2>1. ASSUME NEW i \in {p, t, w, <<w, p>>} PROVE i = w <=> i \in Workspaces
    BY <1>2, Kinds
  <2>2. t # None
    BY <1>2, Kinds
  <2>3. ASSUME NEW i \in Ids, rows'[i] # None
        PROVE  /\ rows'[i].of # None <=> i \in Workspaces
               /\ rows'[i].name # None <=> i \in Named
    BY <1>1, <1>3, <2>1, <2>2, <2>3 DEF Steady, Shape, Present
  <2> QED
    BY <2>3 DEF Shape, Present
<1>5. \A i \in Ids : rows[i] # None => rows'[i] # None
  BY <1>1
<1>6. \A i \in {p, t, w, <<w, p>>} : rows'[i] # None
  BY <1>1, <1>2 DEF Present
<1>7. ASSUME NEW i \in Ids, rows'[i] # None
      PROVE  /\ i \in Bindings => rows'[i[1]] # None /\ rows'[i[2]] # None
             /\ i \in Workspaces => rows'[rows'[i].of] # None
  <2>1. CASE rows'[i] = rows[i]
    <3>1. /\ i \in Bindings => rows[i[1]] # None /\ rows[i[2]] # None
          /\ i \in Workspaces => rows[rows[i].of] # None /\ rows[i].of \in Ids
      BY <2>1, <1>7, NameTyped, Kinds DEF Steady, References, Populated, Shape, Present
    <3> QED
      BY <2>1, <3>1, <1>5, Kinds
  <2>2. CASE i \in {p, t, w, <<w, p>>} /\ rows'[i].of = IF i = w THEN t ELSE None
    <3>1. i \in Bindings => i = <<w, p>>
      BY <2>2, <1>2, Kinds
    <3>2. i \in Workspaces => i = w
      BY <2>2, <1>2, Kinds
    <3> QED
      BY <2>2, <3>1, <3>2, <1>6
  <2> QED
    BY <2>1, <2>2, <1>1
<1> QED
  BY <1>4, <1>7 DEF References, Populated

LEMMA BootstrapKeepsSteady ==
    ASSUME RegistryTypeOK, Steady, NEW b \in Boots, NEW p, NEW t, NEW w, NEW differs,
           Chosen(b, p, t, w, differs), rows' # rows
    PROVE  Steady'
<1>0. Rewrites(b, p, t, w)
  BY BootstrapRows
<1>1. job' = Committed(b, job) /\ b \in Writers /\ b \notin Requests
  BY RegistryAssumption DEF Chosen, Writers
<1>2. \A i \in Ids : \/ rows'[i] = rows[i]
                     \/ /\ i \in {p, t, w, <<w, p>>} /\ rows'[i] # None /\ rows'[i].ver = b
                        /\ rows'[i].of = IF i = w THEN t ELSE None
  BY <1>0 DEF Rewrites
<1>2a. <<w, p>> \in Bindings
  BY BootstrapRows
<1>3. Commits(b, Requests)
  <2>1. ASSUME NEW i \in Named, rows[i] # None, rows'[i] # None PROVE rows'[i].of = rows[i].of
    <3>1. i \in {p, t, w} \/ rows'[i] = rows[i]
      BY <1>2, <1>2a, Kinds
    <3> QED
      BY <3>1, <2>1, <1>2, Kinds DEF Chosen, Present
  <2>2. ASSUME NEW i \in Named, rows[i] = None, rows'[i] # None, NEW q \in Requests PROVE job[q].id # i
    <3>1. i \in {p, t, w}
      BY <2>2, <1>2, <1>2a, Kinds
    <3> QED
      BY <3>1, <2>2 DEF Chosen, Present, Fresh
  <2> QED
    BY <1>1, <1>2, <2>1, <2>2, CommittedJobs DEF Commits
<1>4. ASSUME NEW q \in Requests
      PROVE  /\ SentBy(q)' /\ KeptBy(q)' /\ LockedBy(q)' /\ CheckedBy(q)'
             /\ Creating(q)' => Creating(q) /\ ~Present(job[q].id)'
             /\ job'[q].pc = "ok" /\ job'[q].token # None =>
                \/ job'[q].replaced \in {job'[q].token} \cup job'[q].during
                \/ job'[q].verb = "delete" /\ job'[q].during # {}
  BY <1>3, <1>4, CommitKeepsOthers
<1>5. SentSound' /\ Kept' /\ Locked' /\ Checked' /\ TokenGuardsUpdate'
  BY <1>4 DEF SentSound, Kept, Locked, Checked, TokenGuardsUpdate
<1>6. \A q \in Requests : /\ job'[q].id = job[q].id /\ job[q].during \subseteq job'[q].during
                           /\ job'[q].pc = job[q].pc
  BY <1>3 DEF Commits
<1>7. Unused'
  <2>1. ASSUME NEW q \in Requests, Creating(q)'
        PROVE  ~Present(job[q].id)' /\ \A o \in Requests \ {q} : job'[o].id # job'[q].id
    <3>1. Creating(q) /\ ~Present(job[q].id)'
      BY <2>1, <1>4
    <3>2. \A o \in Requests \ {q} : job[o].id # job[q].id
      BY <3>1 DEF Steady, Unused
    <3> QED
      BY <3>1, <3>2, <1>6
  <2> QED
    BY <2>1 DEF Unused
<1>8. Finished'
  <2>1. ASSUME NEW i \in Ids, rows'[i] # None, rows'[i].ver \in Requests
        PROVE  job'[rows'[i].ver].pc \in {"mint", "ok", "refused"}
    <3>1. rows'[i] = rows[i]
      BY <2>1, <1>1, <1>2
    <3> QED
      BY <2>1, <3>1, <1>6 DEF Steady, Finished, Present
  <2> QED
    BY <2>1 DEF Finished, Present
<1>9. CaseFoldedUnique'
  <2>1. ASSUME NEW i \in Named, NEW k \in Peers(i) \ {i}, rows'[i] # None, rows'[k] # None,
               rows'[i].of = rows'[k].of, Fold[rows'[i].name] = Fold[rows'[k].name]
        PROVE  \/ {rows'[i].ver, rows'[k].ver} \cap Boots # {}
               \/ \E q \in {rows'[i].ver, rows'[k].ver} \cap Requests :
                     job'[q].during \cap {rows'[i].ver, rows'[k].ver} # {}
    <3>1. k \in Ids /\ i \in Ids
      BY <2>1, PeersOf, Kinds
    <3>2. CASE rows'[i].ver = b \/ rows'[k].ver = b
      BY <3>2
    <3>3. CASE rows'[i] = rows[i] /\ rows'[k] = rows[k]
      <4>1. \/ {rows[i].ver, rows[k].ver} \cap Boots # {}
            \/ \E q \in {rows[i].ver, rows[k].ver} \cap Requests :
                  job[q].during \cap {rows[i].ver, rows[k].ver} # {}
        BY <2>1, <3>3 DEF Steady, CaseFoldedUnique, Present
      <4> QED
        BY <4>1, <3>3, <1>6
    <3> QED
      BY <3>1, <3>2, <3>3, <1>2
  <2> QED
    BY <2>1 DEF CaseFoldedUnique, Present, Peers
<1> QED
  BY <1>5, <1>7, <1>8, <1>9, BootstrapKeepsReferences DEF Steady

-----------------------------------------------------------------------------
LEMMA IdleJob == NoJob \in JobType /\ NoSession \in SessionType
BY DEF NoJob, NoSession, JobType, SessionType, JobPcs, Triples, NameOrNone

\* What a request that is sent asks for.
LEMMA SendJobs ==
    ASSUME RegistryTypeOK, NEW r \in Requests, Send(r)
    PROVE  \E j \in JobType :
             /\ job' = [job EXCEPT ![r] = j] /\ job[r].pc = "idle" /\ j.pc = "load"
             /\ j.id \in Ids /\ j.verb \in Verbs
             /\ j.name # None <=> j.id \in Named /\ j.verb # "delete"
             /\ j.of # None <=> j.id \in Workspaces
             /\ j.verb = "create" => j.token = None /\ (j.id \in Bindings \/ Fresh(j.id))
             /\ j.verb # "create" => Present(j.id)
             /\ j.listed = {} /\ rows' = rows /\ boots' = boots /\ sess' = sess
<1>1. PICK verb \in Verbs, i \in Ids, n \in Names \cup {None},
           of \in Tenants \cup {None}, token \in Writers \cup {None} :
        /\ (n # None) <=> i \in Named /\ verb # "delete"
        /\ (of # None) <=> i \in Workspaces
        /\ CASE verb = "create" -> token = None /\ (i \in Bindings \/ Fresh(i))
             [] verb = "update" -> Present(i) /\ token = rows[i].ver
             [] verb = "delete" -> Present(i) /\ token \in {None, rows[i].ver}
        /\ job' = [job EXCEPT ![r] = [NoJob EXCEPT !.pc = "load",
                !.verb = verb, !.id = i, !.name = n, !.of = of, !.token = token]]
  BY DEF Send
<1> DEFINE j == [NoJob EXCEPT !.pc = "load", !.verb = verb, !.id = i, !.name = n, !.of = of, !.token = token]
<1>2. j \in JobType
  BY IdleJob DEF JobType, JobPcs, NameOrNone
<1>3. j.pc = "load" /\ j.verb = verb /\ j.id = i /\ j.name = n /\ j.of = of /\ j.token = token /\ j.listed = {}
  BY DEF NoJob
<1>4. /\ verb = "create" => token = None /\ (i \in Bindings \/ Fresh(i))
      /\ verb # "create" => Present(i)
  BY <1>1 DEF Verbs
<1>5. job[r].pc = "idle" /\ rows' = rows /\ boots' = boots /\ sess' = sess
  BY DEF Send
<1>6. job' = [job EXCEPT ![r] = j]
  BY <1>1
<1> HIDE DEF j
<1> QED
  BY <1>1, <1>2, <1>3, <1>4, <1>5, <1>6

LEMMA SendKeepsSteady ==
    ASSUME RegistryTypeOK, Steady, NEW r \in Requests, Send(r)
    PROVE  Steady'
<1>1. PICK j \in JobType :
             /\ job' = [job EXCEPT ![r] = j] /\ job[r].pc = "idle" /\ j.pc = "load"
             /\ j.id \in Ids /\ j.verb \in Verbs
             /\ j.name # None <=> j.id \in Named /\ j.verb # "delete"
             /\ j.of # None <=> j.id \in Workspaces
             /\ j.verb = "create" => j.token = None /\ (j.id \in Bindings \/ Fresh(j.id))
             /\ j.verb # "create" => Present(j.id)
             /\ j.listed = {} /\ rows' = rows
  BY SendJobs
<1>2. job'[r] = j /\ \A q \in Requests : q # r => job'[q] = job[q]
  BY <1>1 DEF RegistryTypeOK
<1>3. \A i : Present(i)' = Present(i)
  BY <1>1 DEF Present
<1>4. \A i \in Ids : Present(i) => rows[i].ver # r
  BY <1>1 DEF Steady, Finished
<1>5. Shape' /\ References'
  BY <1>1, <1>3 DEF Steady, Shape, References, Populated
<1>6. SentSound'
  BY <1>1, <1>2 DEF Steady, SentSound, SentBy
<1>7. ASSUME NEW q \in Requests PROVE KeptBy(q)' /\ LockedBy(q)' /\ CheckedBy(q)'
  <2>1. CASE q = r
    BY <2>1, <1>1, <1>2 DEF KeptBy, LockedBy, CheckedBy, InFlight
  <2>2. CASE q # r
    <3>1. KeptBy(q) /\ LockedBy(q) /\ CheckedBy(q) /\ job'[q] = job[q]
      BY <2>2, <1>2 DEF Steady, Kept, Locked, Checked
    <3> QED
      BY <3>1, <1>1, <1>3 DEF KeptBy, LockedBy, CheckedBy, InFlight, Peers, Present
  <2> QED
    BY <2>1, <2>2
<1>8. Kept' /\ Locked' /\ Checked'
  BY <1>7 DEF Kept, Locked, Checked
<1>9. Unused'
  <2>1. ASSUME NEW q \in Requests, Creating(q)', NEW o \in Requests \ {q}
        PROVE  rows'[job'[q].id] = None /\ job'[o].id # job'[q].id
    <3>1. CASE q = r
      <4>1. Fresh(j.id)
        BY <3>1, <2>1, <1>1, <1>2, Kinds DEF Creating
      <4> QED
        BY <4>1, <3>1, <2>1, <1>1, <1>2 DEF Fresh, Present
    <3>2. CASE q # r
      <4>1. Creating(q) /\ job'[q] = job[q]
        BY <3>2, <2>1, <1>2 DEF Creating
      <4>2. rows[job[q].id] = None /\ \A x \in Requests \ {q} : job[x].id # job[q].id
        BY <4>1 DEF Steady, Unused, Present
      <4>3. j.id # job[q].id
        <5>1. CASE j.verb # "create"
          BY <5>1, <4>2, <1>1 DEF Present
        <5>2. CASE j.verb = "create"
          BY <5>2, <4>1, <1>1, Kinds DEF Fresh, Creating
        <5> QED
          BY <5>1, <5>2
      <4> QED
        BY <4>1, <4>2, <4>3, <2>1, <1>1, <1>2
    <3> QED
      BY <3>1, <3>2
  <2>2. ASSUME NEW q \in Requests, Creating(q)' PROVE rows'[job'[q].id] = None
    <3>1. CASE q = r
      BY <3>1, <2>2, <1>1, <1>2, Kinds DEF Creating, Fresh, Present
    <3>2. CASE q # r
      BY <3>2, <2>2, <1>1, <1>2 DEF Steady, Unused, Creating, Present
    <3> QED
      BY <3>1, <3>2
  <2> QED
    BY <2>1, <2>2 DEF Unused, Present
<1>10. TokenGuardsUpdate'
  BY <1>1, <1>2 DEF Steady, TokenGuardsUpdate
<1>11. Finished'
  BY <1>1, <1>2, <1>3, <1>4 DEF Steady, Finished
<1>12. CaseFoldedUnique'
  <2>1. ASSUME NEW i \in Named, NEW k \in Peers(i) \ {i}, Present(i), Present(k),
               rows[i].of = rows[k].of, Fold[rows[i].name] = Fold[rows[k].name]
        PROVE  \/ {rows[i].ver, rows[k].ver} \cap Boots # {}
               \/ \E q \in {rows[i].ver, rows[k].ver} \cap Requests :
                     job'[q].during \cap {rows[i].ver, rows[k].ver} # {}
    <3>1. rows[i].ver # r /\ rows[k].ver # r
      BY <2>1, <1>4, PeersOf, Kinds
    <3> QED
      BY <2>1, <3>1, <1>2 DEF Steady, CaseFoldedUnique
  <2> QED
    BY <2>1, <1>1, <1>3 DEF CaseFoldedUnique, Peers
<1> QED
  BY <1>5, <1>6, <1>8, <1>9, <1>10, <1>11, <1>12 DEF Steady

\* Spawns and the ends of sessions leave requests and rows alone.
LEMMA SessionsKeepSteady ==
    ASSUME Steady, rows' = rows, job' = job
    PROVE  Steady'
<1>1. \A i : Present(i)' = Present(i)
  BY DEF Present
<1>2. Shape' /\ References' /\ Finished' /\ TokenGuardsUpdate' /\ CaseFoldedUnique'
  BY <1>1 DEF Steady, Shape, References, Populated, Finished, TokenGuardsUpdate, CaseFoldedUnique, Peers
<1>3. SentSound' /\ Unused'
  BY <1>1 DEF Steady, SentSound, SentBy, Unused, Creating, Present
<1>4. Kept' /\ Locked' /\ Checked'
  BY <1>1 DEF Steady, Kept, KeptBy, Locked, LockedBy, Checked, CheckedBy, InFlight, Peers, Present
<1> QED
  BY <1>2, <1>3, <1>4 DEF Steady

-----------------------------------------------------------------------------
(* The gate.  A step of a handler that neither lists nor deletes leaves    *)
(* the sessions the gate still has to end as they are.                     *)
LEMMA QuietKeepsSwept ==
    ASSUME RegistryTypeOK, Swept, NEW r \in Requests, NEW j, job' = [job EXCEPT ![r] = j], sess' = sess,
           j.listed = job[r].listed,
           \/ job[r].pc \notin {"list", "evict", "ack", "refused"}
           \/ j.pc = "refused"
           \/ j.pc \in {"evict", "ack"} /\ j.doomed = job[r].doomed /\ job[r].pc = "ack"
           \/ job[r].pc = "ack" /\ job[r].doomed = {}
    PROVE  Swept'
<1>1. job'[r] = j /\ \A q \in Requests : q # r => job'[q] = job[q]
  BY DEF RegistryTypeOK
<1> QED
  BY <1>1 DEF Swept, SweptBy

LEMMA HandlerKeepsSwept ==
    ASSUME RegistryTypeOK, Swept, NEW r \in Requests, Handles(r)
    PROVE  Swept' /\ sess' \in [Sessions -> SessionType]
<1>0. job[r] \in JobType /\ sess \in [Sessions -> SessionType]
  BY DEF RegistryTypeOK
<1>1. CASE Refused(r) /\ sess' = sess
  <2> DEFINE j == [job[r] EXCEPT !.pc = "refused", !.doomed = {}, !.cut = {}]
  <2>1. job' = [job EXCEPT ![r] = j] /\ j.listed = job[r].listed /\ j.pc = "refused"
    BY <1>0, <1>1 DEF Refused, Moved, JobType
  <2> HIDE DEF j
  <2> QED
    BY <1>0, <1>1, <2>1, QuietKeepsSwept
<1>2. CASE Load(r) /\ ~Refused(r)
  <2> DEFINE n == IF Present(job[r].id) THEN rows[job[r].id].name ELSE None
             j == [job[r] EXCEPT !.pc = "preflight", !.triple = <<None, n, None>>]
  <2>1. job' = [job EXCEPT ![r] = j] /\ job[r].pc = "load" /\ sess' = sess
    BY <1>2 DEF Load, Moved
  <2>2. j.listed = job[r].listed
    BY <1>0 DEF JobType
  <2> HIDE DEF j
  <2> QED
    BY <1>0, <2>1, <2>2, QuietKeepsSwept
<1>3. CASE Preflight(r) /\ ~Refused(r)
  <2>1. job[r].pc = "preflight" /\ sess' = sess
    BY <1>3 DEF Preflight
  <2>2. PICK j : job' = [job EXCEPT ![r] = j] /\ j.listed = job[r].listed
    <3>1. CASE job' = [job EXCEPT ![r] = [job[r] EXCEPT !.pc = "apply"]]
      BY <3>1, <1>0 DEF JobType
    <3>2. CASE CascadedBindings(r)
      <4>1. job' = [job EXCEPT ![r] = [job[r] EXCEPT !.pc = "gate", !.left = Children(job[r].id),
                                                  !.triple[1] = rows[job[r].of].name]]
        BY <3>2, <1>3 DEF CascadedBindings, Moved
      <4> DEFINE k == [job[r] EXCEPT !.pc = "gate", !.left = Children(job[r].id),
                                     !.triple[1] = rows[job[r].of].name]
      <4>2. k.listed = job[r].listed
        BY <1>0 DEF JobType
      <4>3. job' = [job EXCEPT ![r] = k]
        BY <4>1
      <4> HIDE DEF k
      <4> QED
        BY <4>2, <4>3
    <3>3. CASE GateBinding(r)
      <4>1. job' = [job EXCEPT ![r] = [job[r] EXCEPT !.pc = "gate", !.left = {job[r].id}]]
        BY <3>3 DEF GateBinding, Moved
      <4> QED
        BY <4>1, <1>0 DEF JobType
    <3> QED
      BY <3>1, <3>2, <3>3, <1>3 DEF Preflight, NameFree, NoDependents, NotBound, Moved
  <2> QED
    BY <1>0, <2>1, <2>2, QuietKeepsSwept
<1>4. CASE MintInvitation(r)
  <2> DEFINE j == [job[r] EXCEPT !.pc = "ok"]
  <2>1. job' = [job EXCEPT ![r] = j] /\ job[r].pc = "mint" /\ sess' = sess /\ j.listed = job[r].listed
    BY <1>4, <1>0 DEF MintInvitation, Moved, JobType
  <2> HIDE DEF j
  <2> QED
    BY <1>0, <2>1, QuietKeepsSwept
<1>5. CASE ResolveTriple(r) /\ ~Refused(r)
  <2>1. PICK b \in job[r].left :
           job' = [job EXCEPT ![r] = [job[r] EXCEPT !.pc = "list", !.left = @ \ {b},
                   !.triple = Triple(r, b), !.listed = @ \cup {<<b, Triple(r, b)>>}]]
    BY <1>5 DEF ResolveTriple, Moved
  <2>2. job[r].pc = "gate" /\ sess' = sess
    BY <1>5 DEF ResolveTriple
  <2>3. /\ job'[r].pc = "list" /\ job'[r].triple = Triple(r, b)
        /\ job'[r].listed = job[r].listed \cup {<<b, Triple(r, b)>>}
        /\ \A q \in Requests : q # r => job'[q] = job[q]
    BY <2>1, <1>0 DEF RegistryTypeOK, JobType
  <2>4. ASSUME NEW s \in Sessions, NEW q \in Requests PROVE SweptBy(q, s)'
    <3>1. SweptBy(q, s)
      BY DEF Swept, SweptBy
    <3> QED
      BY <2>2, <2>3, <3>1 DEF SweptBy
  <2> QED
    BY <2>2, <2>4, <1>0 DEF Swept, SweptBy
<1>6. CASE ListSessions(r)
  <2> DEFINE live == {s \in Sessions : Recorded(s) /\ sess[s].names = job[r].triple}
  <2>1. job' = [job EXCEPT ![r] = [job[r] EXCEPT !.pc = IF live = {} THEN "gate" ELSE "evict",
                                                 !.doomed = live]]
    BY <1>6 DEF ListSessions, Moved
  <2>2. job[r].pc = "list" /\ sess' = sess
    BY <1>6 DEF ListSessions
  <2> HIDE DEF live
  <2>3. /\ job'[r].pc = (IF live = {} THEN "gate" ELSE "evict") /\ job'[r].doomed = live
        /\ job'[r].listed = job[r].listed
        /\ \A q \in Requests : q # r => job'[q] = job[q]
    BY <2>1, <1>0 DEF RegistryTypeOK, JobType
  <2>4. ASSUME NEW s \in Sessions, NEW q \in Requests PROVE SweptBy(q, s)'
    <3>1. SweptBy(q, s)
      BY DEF Swept, SweptBy
    <3>2. sess[s].st \in {"live", "stale"} /\ sess[s].names = job[r].triple => s \in live
      BY DEF live, Recorded
    <3> QED
      BY <2>2, <2>3, <3>1, <3>2 DEF SweptBy
  <2> QED
    BY <2>2, <2>4, <1>0 DEF Swept, SweptBy
<1>7. CASE DeleteSession(r)
  <2>1. PICK x \in job[r].doomed :
           /\ job' = [job EXCEPT ![r] = [job[r] EXCEPT !.pc = "ack", !.doomed = job[r].doomed \ {x},
                                           !.cut = IF Recorded(x) THEN {x} ELSE {}]]
           /\ sess' = [sess EXCEPT ![x].st = Unrecorded(sess[x].st)]
    BY <1>7 DEF DeleteSession, Moved
  <2>2. x \in Sessions /\ job[r].pc = "evict"
    BY <1>0, <1>7 DEF JobType, DeleteSession
  <2>3. /\ job'[r].pc = "ack" /\ job'[r].listed = job[r].listed
        /\ job'[r].doomed = job[r].doomed \ {x}
        /\ \A q \in Requests : q # r => job'[q] = job[q]
    BY <2>1, <1>0 DEF RegistryTypeOK, JobType
  <2>4. /\ sess' \in [Sessions -> SessionType] /\ sess'[x].st \notin {"live", "stale"}
        /\ \A s \in Sessions : s # x => sess'[s] = sess[s]
    <3>1. sess[x] \in SessionType
      BY <1>0, <2>2
    <3>2. Unrecorded(sess[x].st) \in {"free", "resolved", "orphan", "gone"}
      BY <3>1 DEF SessionType, Unrecorded
    <3> QED
      BY <2>1, <2>2, <1>0, <3>1, <3>2 DEF SessionType
  <2>5. ASSUME NEW s \in Sessions, NEW q \in Requests PROVE SweptBy(q, s)'
    <3>1. SweptBy(q, s)
      BY DEF Swept, SweptBy
    <3>2. CASE s = x
      BY <3>2, <2>4 DEF SweptBy
    <3>3. CASE s # x
      <4>1. CASE q # r
        BY <3>1, <3>3, <4>1, <2>3, <2>4 DEF SweptBy
      <4>2. CASE q = r
        BY <3>1, <3>3, <4>2, <2>2, <2>3, <2>4 DEF SweptBy
      <4> QED
        BY <4>1, <4>2
    <3> QED
      BY <3>2, <3>3
  <2> QED
    BY <2>4, <2>5 DEF Swept, SweptBy
<1>9. CASE SessionDeleted(r)
  <2> DEFINE j == [job[r] EXCEPT !.cut = {}, !.pc = IF job[r].doomed = {} THEN "gate" ELSE "evict"]
  <2>1. job' = [job EXCEPT ![r] = j] /\ job[r].pc = "ack" /\ sess' = sess
    BY <1>9 DEF SessionDeleted, NextDelete, Moved
  <2>2. /\ j.listed = job[r].listed /\ j.doomed = job[r].doomed
        /\ job[r].doomed = {} \/ j.pc = "evict"
    BY <1>0 DEF JobType
  <2> HIDE DEF j
  <2> QED
    BY <1>0, <2>1, <2>2, QuietKeepsSwept
<1>10. CASE DeleteRolledBack(r)
  <2>1. /\ job'[r].pc = "refused" /\ \A q \in Requests : q # r => job'[q] = job[q]
    BY <1>10, <1>0 DEF DeleteRolledBack, Refused, Moved, RegistryTypeOK, JobType
  <2>2. ASSUME NEW s \in Sessions
        PROVE  \/ sess'[s] = sess[s]
               \/ /\ sess'[s] \in SessionType
                  /\ sess'[s].of = sess[s].of /\ sess'[s].names = sess[s].names
                  /\ PassedBy(s) \ {r} \subseteq sess'[s].missed
    <3> DEFINE st == IF sess[s].st = "orphan" THEN "live" ELSE "stale"
               m == sess[s].missed \cup (PassedBy(s) \ {r})
               y == [sess[s] EXCEPT !.st = st, !.missed = m]
    <3>1. sess'[s] = sess[s] \/ sess'[s] = y
      BY <1>10 DEF DeleteRolledBack, PutBack
    <3>2. /\ sess[s] \in SessionType /\ PassedBy(s) \ {r} \in SUBSET Requests
          /\ st \in {"live", "stale"}
      BY <1>0 DEF PassedBy
    <3>3. m \in SUBSET Requests
      BY <3>2 DEF SessionType
    <3>4. /\ y \in SessionType /\ y.of = sess[s].of /\ y.names = sess[s].names
          /\ y.missed = m
      <4> HIDE DEF st, m
      <4> QED
        BY <3>2, <3>3 DEF SessionType
    <3>5. PassedBy(s) \ {r} \subseteq m
      OBVIOUS
    <3> HIDE DEF y, m
    <3> QED
      BY <3>1, <3>4, <3>5
  <2>3. ASSUME NEW s \in Sessions PROVE sess'[s] \in SessionType
    BY <2>2, <1>0
  <2>4. sess' \in [Sessions -> SessionType]
    BY <1>10, <2>3 DEF DeleteRolledBack, PutBack
  <2>5. ASSUME NEW s \in Sessions, NEW q \in Requests PROVE SweptBy(q, s)'
    <3>1. SweptBy(q, s)
      BY DEF Swept, SweptBy
    <3>2. CASE q = r
      BY <3>2, <2>1 DEF SweptBy
    <3>3. CASE q # r /\ sess'[s] = sess[s]
      BY <3>1, <3>3, <2>1 DEF SweptBy
    <3>4. CASE q # r /\ sess'[s] # sess[s]
      <4>1. job'[q] = job[q] /\ sess'[s].of = sess[s].of /\ sess'[s].names = sess[s].names
        BY <3>4, <2>1, <2>2
      <4>2. q \notin sess'[s].missed => q \notin PassedBy(s)
        BY <3>4, <2>2
      <4> QED
        BY <4>1, <4>2 DEF SweptBy, PassedBy
    <3> QED
      BY <3>2, <3>3, <3>4
  <2> QED
    BY <2>4, <2>5 DEF Swept, SweptBy
<1>8. \/ Refused(r) /\ sess' = sess
      \/ Load(r) /\ ~Refused(r)
      \/ Preflight(r) /\ ~Refused(r)
      \/ MintInvitation(r)
      \/ ResolveTriple(r) /\ ~Refused(r)
      \/ ListSessions(r)
      \/ DeleteSession(r) \/ SessionDeleted(r) \/ DeleteRolledBack(r)
  <2>1. ASSUME Load(r) \/ Preflight(r) \/ ResolveTriple(r) \/ Fails(r) \/ (Apply(r) /\ Violates(r))
        PROVE  sess' = sess
    BY <2>1 DEF Load, Preflight, ResolveTriple, Fails, Apply
  <2>2. Fails(r) \/ (Apply(r) /\ Violates(r)) => Refused(r)
    BY DEF Fails, Apply
  <2> QED
    BY <2>1, <2>2 DEF Handles
<1> QED
  BY <1>1, <1>2, <1>3, <1>4, <1>5, <1>6, <1>7, <1>8, <1>9, <1>10

\* A commit changes neither what was listed nor who is to be deleted.
LEMMA CommitKeepsSwept ==
    ASSUME RegistryTypeOK, Swept, NEW w \in Writers, sess' = sess,
           NEW Q, Q \subseteq Requests, \A q \in Q : job'[q] = Committed(w, job)[q],
           \A r \in Requests \ Q : job'[r].listed = job[r].listed /\ job[r].pc \in {"apply", "gate"}
    PROVE  Swept'
<1>1. \A q \in Q : /\ job'[q].pc = job[q].pc /\ job'[q].listed = job[q].listed
                    /\ job'[q].triple = job[q].triple /\ job'[q].doomed = job[q].doomed
  <2>1. TAKE q \in Q
  <2>2. q \in Requests /\ job'[q] = Committed(w, job)[q]
    OBVIOUS
  <2>3. /\ Committed(w, job)[q].pc = job[q].pc /\ Committed(w, job)[q].listed = job[q].listed
        /\ Committed(w, job)[q].triple = job[q].triple
        /\ Committed(w, job)[q].doomed = job[q].doomed
    BY <2>2, CommittedJobs
  <2> QED
    BY <2>2, <2>3
<1>2. ASSUME NEW s \in Sessions, NEW q \in Requests PROVE SweptBy(q, s)'
  <2>1. SweptBy(q, s)
    BY DEF Swept, SweptBy
  <2>2. CASE q \in Q
    BY <2>1, <2>2, <1>1 DEF SweptBy
  <2>3. CASE q \notin Q
    BY <2>1, <2>3 DEF SweptBy
  <2> QED
    BY <2>2, <2>3
<1> QED
  BY <1>2 DEF Swept, SweptBy

\* A session announced after its list was taken is one the gate has missed.
LEMMA SpawnKeepsSwept ==
    ASSUME RegistryTypeOK, Swept, NEW s \in Sessions, Resolve(s) \/ Announce(s) \/ Gone(s)
    PROVE  Swept' /\ sess' \in [Sessions -> SessionType]
<1>0. sess \in [Sessions -> SessionType] /\ sess[s] \in SessionType /\ job' = job
  BY DEF RegistryTypeOK, Resolve, Announce, Gone
<1>1. CASE Resolve(s)
  <2>1. PICK names \in Routable \X Routable \X Routable, b \in Bindings :
           sess' = [sess EXCEPT ![s] = [st |-> "resolved", of |-> b, names |-> names,
                      missed |-> {}, saw |-> {r \in Requests : job[r].pc = "ok"}]]
    BY <1>1 DEF Resolve
  <2>2. names \in Triples
    <3>1. names = <<names[1], names[2], names[3]>> /\ names[1] \in Names /\ names[2] \in Names /\ names[3] \in Names
      BY RegistryAssumption
    <3> QED
      BY <3>1 DEF Triples, NameOrNone
  <2> DEFINE x == [st |-> "resolved", of |-> b, names |-> names,
                   missed |-> {}, saw |-> {r \in Requests : job[r].pc = "ok"}]
  <2>3. x \in SessionType /\ x.st = "resolved"
    BY <2>2 DEF SessionType
  <2>4. sess' = [sess EXCEPT ![s] = x]
    BY <2>1
  <2> HIDE DEF x
  <2> QED
    BY <1>0, <2>3, <2>4 DEF Swept, SweptBy
<1>2. CASE Announce(s)
  <2> DEFINE m == PassedBy(s)
  <2>1. sess' = [sess EXCEPT ![s].st = "live", ![s].missed = m]
    BY <1>2 DEF Announce
  <2>2. \A r \in Requests : r \notin m /\ <<sess[s].of, sess[s].names>> \in job[r].listed
                             => \/ job[r].pc = "list" /\ job[r].triple = sess[s].names
                                \/ job[r].pc \in {"evict", "ack"} /\ s \in job[r].doomed
    BY DEF PassedBy
  <2>3. m \in SUBSET Requests
    BY DEF PassedBy
  <2> HIDE DEF m
  <2>4. /\ sess' \in [Sessions -> SessionType]
        /\ sess'[s].missed = m /\ sess'[s].of = sess[s].of /\ sess'[s].names = sess[s].names
        /\ \A o \in Sessions : o # s => sess'[o] = sess[o]
    BY <1>0, <2>1, <2>3 DEF SessionType
  <2>5. ASSUME NEW o \in Sessions, NEW q \in Requests PROVE SweptBy(q, o)'
    <3>1. SweptBy(q, o)
      BY DEF Swept, SweptBy
    <3> QED
      BY <3>1, <2>2, <2>4, <1>0 DEF SweptBy
  <2> QED
    BY <2>4, <2>5 DEF Swept, SweptBy
<1>3. CASE Gone(s)
  <2>1. PICK st \in {"gone"} \cup IF Recorded(s) THEN {"stale"} ELSE {} :
           sess' = [sess EXCEPT ![s].st = st]
    BY <1>3 DEF Gone
  <2>2. st = "gone" \/ (st = "stale" /\ sess[s].st \in {"live", "stale"})
    BY <2>1 DEF Recorded
  <2>3. /\ sess' \in [Sessions -> SessionType] /\ sess'[s].st = st
        /\ sess'[s].of = sess[s].of /\ sess'[s].names = sess[s].names
        /\ sess'[s].saw = sess[s].saw /\ sess'[s].missed = sess[s].missed
        /\ \A o \in Sessions : o # s => sess'[o] = sess[o]
    BY <1>0, <2>1, <2>2 DEF SessionType
  <2>4. ASSUME NEW o \in Sessions, NEW q \in Requests PROVE SweptBy(q, o)'
    <3>1. SweptBy(q, o)
      BY DEF Swept, SweptBy
    <3> QED
      BY <3>1, <2>2, <2>3, <1>0 DEF SweptBy
  <2> QED
    BY <2>3, <2>4 DEF Swept, SweptBy
<1> QED
  BY <1>1, <1>2, <1>3

-----------------------------------------------------------------------------
LEMMA RegistryStarts == Init => RInv
<1> SUFFICES ASSUME Init PROVE RInv
  OBVIOUS
<1>1. /\ rows \in [Ids -> {None} \cup {Row(n, of, Seed) :
                      n \in {Manifest, None}, of \in Tenants \cup {None}}]
      /\ \A i \in Ids : rows[i] # None =>
             /\ rows[i].of # None <=> i \in Workspaces
             /\ rows[i].name # None <=> i \in Named
      /\ \A S \in {Tenants, Workspaces, Plugins} :
             \A i, k \in S : rows[i] # None /\ rows[k] # None => i = k
      /\ Populated(rows)
      /\ job = [r \in Requests |-> NoJob] /\ boots = {} /\ sess = [s \in Sessions |-> NoSession]
  BY DEF Init
<1>2. \A n \in {Manifest, None}, of \in Tenants \cup {None} :
         Row(n, of, Seed) \in RowType /\ Row(n, of, Seed).ver = Seed
  BY RowIsThere, RegistryAssumption DEF NameOrNone, Writers
<1>3. rows \in [Ids -> RowType \cup {None}] /\ \A i \in Ids : rows[i] # None => rows[i].ver = Seed
  BY <1>1, <1>2
<1>4. RegistryTypeOK
  BY <1>1, <1>3, IdleJob DEF RegistryTypeOK
<1>5. Shape /\ References
  BY <1>1 DEF Shape, References, Present
<1>6. \A r \in Requests : job[r] = NoJob /\ job[r].pc = "idle" /\ job[r].listed = {}
  BY <1>1 DEF NoJob
<1>7. SentSound /\ Unused /\ Kept /\ Locked /\ TokenGuardsUpdate /\ Checked
  BY <1>6 DEF SentSound, SentBy, Unused, Creating, Kept, KeptBy, Locked, LockedBy,
              TokenGuardsUpdate, Checked, CheckedBy, InFlight
<1>8. Finished
  BY <1>3, RegistryAssumption DEF Finished, Present
<1>9. CaseFoldedUnique
  <2>1. ASSUME NEW i \in Named, NEW k \in Peers(i) \ {i}, Present(i), Present(k) PROVE FALSE
    BY <2>1, <1>1, PeersOf DEF Present
  <2> QED
    BY <2>1 DEF CaseFoldedUnique
<1>10. Swept
  BY <1>6 DEF Swept, SweptBy
<1> QED
  BY <1>4, <1>5, <1>7, <1>8, <1>9, <1>10 DEF RInv, Steady

LEMMA RegistryStep == RInv /\ [Next]_vars => RInv'
<1> SUFFICES ASSUME RInv, [Next]_vars PROVE RInv'
  OBVIOUS
<1>0. RegistryTypeOK /\ Steady /\ Swept
  BY DEF RInv
<1>1. ASSUME NEW r \in Requests, Handles(r) PROVE RInv'
  <2>1. PICK j : MovesOn(r, j)
    BY <1>0, <1>1, HandlerMovesOn DEF Steady
  <2>2. Steady'
    BY <1>0, <2>1, MovingKeepsSteady
  <2>3. Swept' /\ sess' \in [Sessions -> SessionType]
    BY <1>0, <1>1, HandlerKeepsSwept
  <2>4. RegistryTypeOK'
    BY <1>0, <2>1, <2>3 DEF RegistryTypeOK, MovesOn
  <2> QED
    BY <2>2, <2>3, <2>4 DEF RInv
<1>2. ASSUME NEW r \in Requests, Apply(r), ~Violates(r) PROVE RInv'
  <2>1. Steady'
    BY <1>0, <1>2, ApplyKeepsSteady
  <2>2. boots' = boots /\ sess' = sess
    BY <1>2 DEF Apply
  <2>3. RegistryTypeOK'
    BY <1>0, <1>2, <2>2, ApplyRows, ApplyJobs DEF RegistryTypeOK
  <2>4. Swept'
    <3> DEFINE Q == Requests \ {r}
    <3>1. \A q \in Q : job'[q] = Committed(r, job)[q]
      BY <1>0, <1>2, ApplyJobs
    <3>2. \A q \in Requests \ Q : job'[q].listed = job[q].listed /\ job[q].pc \in {"apply", "gate"}
      BY <1>0, <1>2, ApplyJobs, ApplyRows
    <3>3. r \in Writers /\ Q \subseteq Requests
      BY DEF Writers
    <3> HIDE DEF Q
    <3> QED
      BY <1>0, <2>2, <3>1, <3>2, <3>3, CommitKeepsSwept
  <2> QED
    BY <2>1, <2>3, <2>4 DEF RInv
<1>3. ASSUME NEW r \in Requests, Send(r) PROVE RInv'
  <2>1. PICK j \in JobType :
            /\ job' = [job EXCEPT ![r] = j] /\ job[r].pc = "idle"
            /\ j.listed = {} /\ rows' = rows /\ boots' = boots /\ sess' = sess
    BY <1>0, <1>3, SendJobs
  <2>2. Steady'
    BY <1>0, <1>3, SendKeepsSteady
  <2>3. RegistryTypeOK'
    BY <1>0, <2>1 DEF RegistryTypeOK
  <2>4. Swept'
    <3>1. job'[r] = j /\ \A q \in Requests : q # r => job'[q] = job[q]
      BY <2>1, <1>0 DEF RegistryTypeOK
    <3> QED
      BY <3>1, <2>1, <1>0 DEF Swept, SweptBy
  <2> QED
    BY <2>2, <2>3, <2>4 DEF RInv
<1>4. ASSUME NEW b \in Boots, Bootstrap(b) PROVE RInv'
  <2>1. PICK p, t, w, differs : Chosen(b, p, t, w, differs)
    BY <1>4, BootstrapChooses
  <2>2. boots' = boots \cup {b} /\ sess' = sess
    BY <1>4, BootstrapChooses
  <2>3. CASE rows' = rows
    <3>1. job' = job
      BY <2>1, <2>3 DEF Chosen
    <3>2. Steady'
      BY <1>0, <2>3, <3>1, SessionsKeepSteady
    <3>3. RegistryTypeOK' /\ Swept'
      BY <1>0, <2>2, <2>3, <3>1 DEF RegistryTypeOK, Swept, SweptBy
    <3> QED
      BY <3>2, <3>3 DEF RInv
  <2>4. CASE rows' # rows
    <3>1. Steady'
      BY <1>0, <2>1, <2>4, BootstrapKeepsSteady
    <3>2. job' = Committed(b, job) /\ b \in Writers
      BY <2>1, <2>4 DEF Chosen, Writers
    <3>3. job' \in [Requests -> JobType]
      <4>1. job' = [q \in Requests |-> job'[q]]
        BY <3>2 DEF Committed
      <4>2. \A q \in Requests : Committed(b, job)[q] \in JobType
        BY <1>0, <3>2, CommittedJobs
      <4> QED
        BY <3>2, <4>1, <4>2
    <3>4. rows' \in [Ids -> RowType \cup {None}]
      BY <1>0, <2>1, BootstrapRows
    <3>5. RegistryTypeOK'
      BY <1>0, <2>2, <3>3, <3>4 DEF RegistryTypeOK
    <3>6. Swept'
      <4> DEFINE Q == Requests
      <4>1. \A q \in Q : job'[q] = Committed(b, job)[q]
        BY <3>2
      <4>2. \A q \in Requests \ Q : job'[q].listed = job[q].listed /\ job[q].pc \in {"apply", "gate"}
        OBVIOUS
      <4>3. Q \subseteq Requests
        OBVIOUS
      <4> HIDE DEF Q
      <4> QED
        BY <1>0, <2>2, <3>2, <4>1, <4>2, <4>3, CommitKeepsSwept
    <3> QED
      BY <3>1, <3>5, <3>6 DEF RInv
  <2> QED
    BY <2>3, <2>4
<1>5. ASSUME NEW s \in Sessions, Resolve(s) \/ Announce(s) \/ Gone(s) PROVE RInv'
  <2>1. rows' = rows /\ job' = job /\ boots' = boots
    BY <1>5 DEF Resolve, Announce, Gone
  <2>2. Swept' /\ sess' \in [Sessions -> SessionType]
    BY <1>0, <1>5, SpawnKeepsSwept
  <2>3. Steady'
    BY <1>0, <2>1, SessionsKeepSteady
  <2> QED
    BY <1>0, <2>1, <2>2, <2>3 DEF RInv, RegistryTypeOK
<1>6. CASE UNCHANGED vars
  <2>1. rows' = rows /\ job' = job /\ boots' = boots /\ sess' = sess
    BY <1>6 DEF vars
  <2>2. Steady'
    BY <1>0, <2>1, SessionsKeepSteady
  <2> QED
    BY <1>0, <2>1, <2>2 DEF RInv, RegistryTypeOK, Swept, SweptBy
<1> QED
  BY <1>1, <1>2, <1>3, <1>4, <1>5, <1>6 DEF Next, Handles

LEMMA RegistryInvariant == Spec => []RInv
BY RegistryStarts, RegistryStep, PTL DEF Spec

\* Rows, requests and sessions keep their types, and every binding and every
\* workspace in the registry has the rows it refers to: no order of inserts,
\* cascades and bootstraps leaves one behind (src/api/src/write.rs and the
\* schema's foreign keys).
THEOREM RegistryTypeCorrect == Spec => [](RegistryTypeOK /\ References)
<1>1. RInv => RegistryTypeOK /\ References
  BY DEF RInv, Steady
<1> QED
  BY <1>1, RegistryInvariant, PTL

\* The token protects a write up to the window between check_lock and the
\* commit, for any number of writers (src/api/src/write.rs:26-33).
THEOREM TokenGuards == Spec => []TokenGuardsUpdate
<1>1. RInv => TokenGuardsUpdate
  BY DEF RInv, Steady
<1> QED
  BY <1>1, RegistryInvariant, PTL

\* Two names that fold to one in a scope show a race of two writers or a
\* bootstrap, for any names (src/api-core/src/names.rs:33-39).
THEOREM FoldedNamesRace == Spec => []CaseFoldedUnique
<1>1. RInv => CaseFoldedUnique
  BY DEF RInv, Steady
<1> QED
  BY <1>1, RegistryInvariant, PTL

\* When a binding write is acknowledged, control-plane has no record of an
\* earlier session of the binding under the names the gate asked for, but those
\* announced or put back after the gate had passed, however many bindings a
\* workspace takes with it (src/api/src/write.rs:776-828, 1293-1325).
THEOREM GateIsThorough == Spec => []GateClearsRecords
<1>1. RInv => GateClearsRecords
  BY DEF RInv, Swept, SweptBy, GateClearsRecords, Recorded
<1> QED
  BY <1>1, RegistryInvariant, PTL
=============================================================================
