---------------------------- MODULE ControlPlane ----------------------------
(***************************************************************************)
(* The control plane of one tenant (src/trpc_service/tenant/control.py)    *)
(* behind its HTTP routes (src/trpc_service/web/admin.py), and the two     *)
(* places that read what it writes: the route of an incoming message       *)
(* (src/trpc_service/runtime.py) and the cache of revisions in a worker    *)
(* (src/trpc_service/agent/registry.py).                                   *)
(*                                                                         *)
(* A request is looked up by its Idempotency-Key, waits for the row lock   *)
(* of the tenant, and is applied in the transaction that also stores its   *)
(* response: the lookup is one step, everything under the lock another.    *)
(* The reply may be lost, and a client sends the same request again; after *)
(* a version conflict it reads the ETag again and keeps its key.  Contents *)
(* of revisions and bindings are left out.                                 *)
(***************************************************************************)
EXTENDS Naturals

CONSTANTS
    Client,        \* administrators
    Key,           \* Idempotency-Keys: a client may use one for any request
    Message,       \* incoming messages, each of its own session
    Ops,           \* the operations the administrators use
    MaxRev,        \* bound: configuration revisions
    MaxLost,       \* bound: replies that are lost, and keys used for a second request
    Nothing        \* an absent row or value

ASSUME ControlAssumption ==
    /\ MaxRev \in Nat \ {0} /\ MaxLost \in Nat

VARIABLES
    ver,       \* tenants.control_version
    app,       \* agent_apps: active and candidate revision, and the percentage
    revs,      \* max(version) of config_revisions; no revision is ever deleted
    enabled,   \* channel_bindings.enabled of the one binding
    out,       \* the status of one outbound message
    idem,      \* admin_idempotency: whether a key has a row, and is still served
    client,    \* the requests under way
    applied,   \* how often a request with a key changed the tenant
    route,     \* the messages: what they were routed to and how far they are
    cache,     \* the revisions a worker holds
    lost       \* what MaxLost bounds

controlVars == <<ver, app, revs, enabled, out, idem, client, applied, route, cache, lost>>
tenant == <<ver, app, revs, enabled, out>>
runtime == <<route, cache>>

Percent == {0, 50, 100}
App == [active : 1..MaxRev, candidate : 0..MaxRev, percent : Percent]

\* The requests of the routes: what is in the path, and what is in the body.
ConfigRequests == [op : {"create_config"}, path : {0}, body : {0}]
ActivateRequests == [op : {"activate_config"}, path : 1..MaxRev, body : Percent]
RollbackRequests == [op : {"rollback_config"}, path : 1..MaxRev, body : {100}]
BindingRequests == [op : {"put_binding"}, path : {0}, body : {0, 1}]
ReplayRequests == [op : {"replay_outbound"}, path : {0}, body : {0, 1}]
Request ==
    {r \in ConfigRequests \cup ActivateRequests \cup RollbackRequests
             \cup BindingRequests \cup ReplayRequests : r.op \in Ops}

Idle == [pc |-> "idle", req |-> Nothing, key |-> Nothing, etag |-> 0, saw |-> Nothing]

ControlInit ==
    /\ ver = 1 /\ app = [active |-> 1, candidate |-> 0, percent |-> 0] /\ revs = 0
    /\ enabled = FALSE /\ out = "none"
    /\ idem = [k \in Key |-> "none"]
    /\ client = [c \in Client |-> Idle]
    /\ applied = [k \in Key |-> 0]
    /\ route = [m \in Message |-> [pc |-> "new", version |-> 0]]
    /\ cache = {}
    /\ lost = 0

\* What an administrator reads of the tenant; out is not the tenant's own.
Seen == <<app, revs, enabled>>

\* The response, whatever it says, ends the request.
Answer(c) == client' = [client EXCEPT ![c] = Idle]

-----------------------------------------------------------------------------
(* The administrators *)

Fresh(k) == idem[k] = "none" /\ \A d \in Client : client[d].key # k

\* GET tenant, and a request that will carry its ETag.
Begin(c, r, k) ==
    /\ client[c].pc \in {"idle", "conflict"}
    /\ client' = [client EXCEPT ![c] = [pc |-> "send", req |-> r, key |-> k, etag |-> ver,
                                        saw |-> Seen]]
    /\ IF Fresh(k) THEN UNCHANGED lost ELSE lost < MaxLost /\ lost' = lost + 1
    /\ UNCHANGED <<tenant, idem, applied, runtime>>

\* _cached, before the lock is taken: a response that is still served is the
\* answer, or the error that the key belongs to another request.
Lookup(c) ==
    /\ client[c].pc = "send"
    /\ IF idem[client[c].key] = "served"
       THEN Answer(c)
       ELSE client' = [client EXCEPT ![c].pc = "lock"]
    /\ UNCHANGED <<tenant, idem, applied, runtime, lost>>

\* The LookupError and ValueError exits of the operations, and the foreign key
\* of a binding: its app is created with the first revision.
Acceptable(r) ==
    /\ r.op = "put_binding" => revs > 0
    /\ r.op \in {"activate_config", "rollback_config"} => r.path \in 1..revs
    /\ r.op = "replay_outbound" => out = "failed" \/ (out = "ambiguous" /\ r.body = 1)

\* The row that activate_config leaves: all, none or some of the sessions.
Activated(v, percent) ==
    CASE percent = 100 -> [active |-> v, candidate |-> 0, percent |-> 0]
      [] percent = 0 -> [app EXCEPT !.candidate = 0, !.percent = 0]
      [] OTHER -> [app EXCEPT !.candidate = v, !.percent = percent]

\* What the operations change, without the version they bump.  The bound on
\* revisions is a guard of the transaction that would exceed it.
CreateConfigRevision ==
    /\ revs < MaxRev
    /\ revs' = revs + 1
    /\ UNCHANGED <<app, enabled, out>>

ActivateConfig(v, percent) ==
    /\ app' = Activated(v, percent)
    /\ UNCHANGED <<revs, enabled, out>>

PutBinding(on) ==
    /\ enabled' = on
    /\ UNCHANGED <<app, revs, out>>

ReplayOutbound ==
    /\ out' = "pending"
    /\ UNCHANGED <<app, revs, enabled>>

Change(r) ==
    \/ r.op = "create_config" /\ CreateConfigRevision
    \/ r.op \in {"activate_config", "rollback_config"} /\ ActivateConfig(r.path, r.body)
    \/ r.op = "put_binding" /\ PutBinding(r.body = 1)
    \/ r.op = "replay_outbound" /\ ReplayOutbound

\* A transaction that takes the lock and not the version.
ApplyUnversioned(c) ==
    LET r == client[c].req
        k == client[c].key
    IN  /\ client[c].pc = "lock"
        /\ IF ~Acceptable(r) \/ idem[k] # "none"
           THEN Answer(c) /\ UNCHANGED <<tenant, idem, applied>>
           ELSE /\ Change(r)
                /\ ver' = ver + 1
                /\ idem' = [idem EXCEPT ![k] = "served"]
                /\ applied' = [applied EXCEPT ![k] = @ + 1]
                /\ client' = [client EXCEPT ![c].pc = "reply"]
        /\ UNCHANGED <<runtime, lost>>

\* A transaction that commits before the response is stored.
ApplyUnstored(c) ==
    LET r == client[c].req
        k == client[c].key
    IN  /\ client[c].pc = "lock"
        /\ IF ver # client[c].etag
           THEN client' = [client EXCEPT ![c].pc = "conflict"] /\ UNCHANGED <<tenant, idem, applied>>
           ELSE IF ~Acceptable(r)
           THEN Answer(c) /\ UNCHANGED <<tenant, idem, applied>>
           ELSE /\ Change(r)
                /\ ver' = ver + 1
                /\ applied' = [applied EXCEPT ![k] = @ + 1]
                /\ client' = [client EXCEPT ![c].pc = "reply"]
                /\ UNCHANGED idem
        /\ UNCHANGED <<runtime, lost>>

\* Under the lock: the version is compared, the change made, the version
\* bumped and the response stored.  The primary key of the stored response
\* includes rows that have expired; a collision rolls everything back.
Apply(c) ==
    LET r == client[c].req
        k == client[c].key
    IN  /\ client[c].pc = "lock"
        /\ IF ver # client[c].etag
           THEN client' = [client EXCEPT ![c].pc = "conflict"] /\ UNCHANGED <<tenant, idem, applied>>
           ELSE IF ~Acceptable(r) \/ idem[k] # "none"
           THEN Answer(c) /\ UNCHANGED <<tenant, idem, applied>>
           ELSE /\ Change(r)
                /\ ver' = ver + 1
                /\ idem' = [idem EXCEPT ![k] = "served"]
                /\ applied' = [applied EXCEPT ![k] = @ + 1]
                /\ client' = [client EXCEPT ![c].pc = "reply"]
        /\ UNCHANGED <<runtime, lost>>

Reply(c) ==
    /\ client[c].pc = "reply"
    /\ Answer(c)
    /\ UNCHANGED <<tenant, idem, applied, runtime, lost>>

\* The client never sees the reply and sends the same request again.
LoseReply(c) ==
    /\ client[c].pc = "reply"
    /\ lost < MaxLost
    /\ lost' = lost + 1
    /\ client' = [client EXCEPT ![c].pc = "send"]
    /\ UNCHANGED <<tenant, idem, applied, runtime>>

\* After a conflict of versions the ETag is read again; the key is kept.
Reread(c) ==
    /\ client[c].pc = "conflict"
    /\ client' = [client EXCEPT ![c].pc = "send", ![c].etag = ver, ![c].saw = Seen]
    /\ UNCHANGED <<tenant, idem, applied, runtime, lost>>

\* A stored response is served for a day.
KeyExpires(k) ==
    /\ idem[k] = "served"
    /\ idem' = [idem EXCEPT ![k] = "expired"]
    /\ UNCHANGED <<tenant, client, applied, runtime, lost>>

-----------------------------------------------------------------------------
(* The readers *)

\* The dispatcher finishes the outbound that is pending.
Attempted(s) ==
    /\ out = "pending"
    /\ out' = s
    /\ UNCHANGED <<ver, app, revs, enabled, idem, client, applied, runtime, lost>>

\* select_config_version: the buckets below the percentage get the candidate.
Selected(bucket) ==
    IF app.candidate = 0 \/ app.percent = 0 THEN app.active
    ELSE IF bucket < app.percent THEN app.candidate ELSE app.active

\* prepare: the route is read, and the message pinned to a revision.
Prepare(m, bucket) ==
    /\ route[m].pc = "new" /\ enabled
    /\ route' = [route EXCEPT ![m] = [pc |-> "prepared", version |-> Selected(bucket)]]
    /\ UNCHANGED <<tenant, idem, client, applied, cache, lost>>

\* accept_prepared: the pinned revision must exist.
Accept(m) ==
    /\ route[m].pc = "prepared"
    /\ route' = [route EXCEPT ![m].pc = IF route[m].version \in 1..revs
                                        THEN "accepted" ELSE "refused"]
    /\ UNCHANGED <<tenant, idem, client, applied, cache, lost>>

\* RevisionRegistry.use: the turn holds the revision until it ends.
Use(m) ==
    /\ route[m].pc = "accepted"
    /\ route' = [route EXCEPT ![m].pc = "running"]
    /\ cache' = cache \cup {route[m].version}
    /\ UNCHANGED <<tenant, idem, client, applied, lost>>

\* The turn ends with its outbound message and drops its reference.  Only an
\* entry that retire marked is removed with the last one, and nothing calls it.
Finish(m) ==
    /\ route[m].pc = "running"
    /\ route' = [route EXCEPT ![m].pc = "done"]
    /\ out' = IF out = "none" THEN "pending" ELSE out
    /\ UNCHANGED <<ver, app, revs, enabled, idem, client, applied, cache, lost>>

AdminStep(c) == Lookup(c) \/ Apply(c) \/ Reply(c) \/ Reread(c)
MessageStep(m) == (\E b \in {0, 60} : Prepare(m, b)) \/ Accept(m) \/ Use(m) \/ Finish(m)

ControlNext ==
    \/ \E c \in Client : AdminStep(c) \/ LoseReply(c)
    \/ \E c \in Client, r \in Request, k \in Key : Begin(c, r, k)
    \/ \E k \in Key : KeyExpires(k)
    \/ \E s \in {"failed", "ambiguous", "delivered"} : Attempted(s)
    \/ \E m \in Message : MessageStep(m)

ControlSpec == ControlInit /\ [][ControlNext]_controlVars

-----------------------------------------------------------------------------
(* Properties *)

ClientState ==
    [pc : {"idle", "send", "lock", "conflict", "reply"}, req : Request \cup {Nothing},
     key : Key \cup {Nothing}, etag : Nat, saw : (App \X (0..MaxRev) \X BOOLEAN) \cup {Nothing}]

ControlTypeOK ==
    /\ ver \in Nat \ {0}
    /\ app \in App /\ (app.candidate = 0 <=> app.percent = 0)
    /\ revs \in 0..MaxRev /\ enabled \in BOOLEAN
    /\ out \in {"none", "pending", "failed", "ambiguous", "delivered"}
    /\ idem \in [Key -> {"none", "served", "expired"}]
    /\ client \in [Client -> ClientState]
    /\ applied \in [Key -> Nat]
    /\ route \in [Message -> [pc : {"new", "prepared", "accepted", "refused", "running", "done"},
                             version : 0..MaxRev]]
    /\ cache \subseteq 0..MaxRev
    /\ lost \in 0..MaxLost

\* A request changes the tenant at most once, however often its reply is lost,
\* its version refused and the request sent again, before and after its key
\* expires.
AppliedOnce == \A k \in Key : applied[k] <= 1

Changes(c) == client[c].pc = "lock" /\ client'[c].pc = "reply"

\* No update is lost: a request changes the tenant only while it is what the
\* administrator had read.
NoLostUpdate ==
    [][\A c \in Client : Changes(c) => client[c].saw = Seen]_controlVars

\* A message is never pinned to a revision that does not exist, whatever is
\* created, activated and rolled back between the route and the acceptance.
PinnedExists == \A m \in Message : route[m].pc # "refused"
=============================================================================
