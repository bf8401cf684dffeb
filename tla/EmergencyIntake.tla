--------------------------- MODULE EmergencyIntake ---------------------------
(***************************************************************************)
(* The callback gateway and the emergency stream behind it.  A callback is *)
(* acknowledged after PostgreSQL accepted the message or, when PostgreSQL  *)
(* fails, after an encrypted copy is in Redis; the drainers of the relay   *)
(* replicas replay the copies.  The provider may send a message again at   *)
(* any time.  Gateway and relays are restarted with a new key in any       *)
(* order.  Every failed call, crash or lost answer is one of MaxFaults.    *)
(***************************************************************************)
EXTENDS Naturals, FiniteSets

CONSTANTS Message, Invalid,  \* Invalid: messages that accept_inbound refuses
          Drainer,
          MaxSends,          \* callbacks per message
          Count,             \* entries per page
          CacheFor,          \* binding_cache_seconds, in ticks
          MaxFaults,
          Nothing            \* no callback

ASSUME IntakeAssumption ==
    /\ IsFiniteSet(Message) /\ Invalid \subseteq Message
    /\ {MaxSends, Count, CacheFor} \subseteq Nat \ {0} /\ MaxFaults \in Nat

VARIABLES call,     \* the callbacks
          enabled,  \* the binding and its tenant are active
          cached,   \* ticks until the gateway's cached route expires
          out,      \* ticks since the gateway could last learn that it is enabled
          inbox,    \* messages accepted by PostgreSQL
          entry,    \* the entry of a callback in the emergency stream
          gwKey,    \* the key the gateway writes with
          keys,     \* the keys of each drainer
          early,    \* the gateway got the new key before some relay had it
          drainer, faults

route == <<enabled, cached, out>>
rotation == <<gwKey, keys, early>>
vars == <<call, route, inbox, entry, rotation, drainer, faults>>

Call == Message \X (1 .. MaxSends)

Key == {1, 2}

\* An entry: where Redis has it, its place in the order of XADD, and its key.
NoEntry == [at |-> "none", id |-> 0, key |-> 1]

\* A drainer: the callbacks of its page that are left, and the one it replayed.
Idle == [pc |-> "idle", batch |-> {}, replayed |-> Nothing]

Stage == {"none", "resolving", "found", "unreached", "accepting", "buffering",
          "acked", "refused", "rejected"}
EntryState == [at : {"none", "new", "owned", "stale", "gone", "poisoned"}, id : Nat, key : Key]
DrainerState == [pc : {"idle", "draining", "acking"}, batch : SUBSET Call, replayed : Call \cup {Nothing}]

Init ==
    /\ call = [c \in Call |-> "none"]
    /\ enabled = TRUE /\ cached = 0 /\ out = 0
    /\ inbox = {} /\ entry = [c \in Call |-> NoEntry]
    /\ gwKey = 1 /\ keys = [d \in Drainer |-> {1}] /\ early = FALSE
    /\ drainer = [d \in Drainer |-> Idle]
    /\ faults = 0

Fault == faults < MaxFaults /\ faults' = faults + 1

AtStage(c, s) == call' = [call EXCEPT ![c] = s]

-----------------------------------------------------------------------------
(* The gateway *)

\* The provider calls, for the first time or again.
Send(c) ==
    /\ call[c] = "none" /\ (c[2] > 1 => call[<<c[1], c[2] - 1>>] # "none")
    /\ AtStage(c, "resolving")
    /\ UNCHANGED <<route, inbox, entry, rotation, drainer, faults>>

\* resolve_binding answers, or the database is not reached.
Lookup(c) ==
    /\ call[c] = "resolving"
    /\ \/ enabled /\ AtStage(c, "found") /\ UNCHANGED faults
       \/ ~enabled /\ AtStage(c, "rejected") /\ UNCHANGED faults
       \/ Fault /\ AtStage(c, "unreached")
    /\ UNCHANGED <<route, inbox, entry, rotation, drainer>>

\* FeishuGatewayService.binding goes on: a route that was found is cached from
\* now on, whatever happened to the binding since; one that was not is taken
\* from the cache until it expires.
Resolve(c) ==
    /\ \/ call[c] = "found" /\ cached' = CacheFor /\ AtStage(c, "accepting")
       \/ /\ call[c] = "unreached" /\ UNCHANGED cached
          /\ AtStage(c, IF cached > 0 THEN "accepting" ELSE "refused")
    /\ UNCHANGED <<enabled, out, inbox, entry, rotation, drainer, faults>>

\* accept_prepared: accepted and answered, not reached, or the answer is lost.
\* An invalid message fails with an error that is no database error.
Accept(c) ==
    /\ call[c] = "accepting"
    /\ \/ /\ c[1] \notin Invalid /\ AtStage(c, "acked")
          /\ inbox' = inbox \cup {c[1]} /\ UNCHANGED faults
       \/ /\ c[1] \in Invalid /\ AtStage(c, "refused") /\ UNCHANGED <<inbox, faults>>
       \/ /\ Fault /\ AtStage(c, "buffering")
          /\ inbox' \in {inbox, (inbox \cup {c[1]}) \ Invalid}
    /\ UNCHANGED <<route, entry, rotation, drainer>>

\* XADD gives the entry an id above that of every earlier one.
Added(c) == entry' = [entry EXCEPT ![c] =
    [at |-> "new", id |-> 1 + Cardinality({k \in Call : entry[k].at # "none"}), key |-> gwKey]]

BufferBestEffort(c) ==
    /\ call[c] = "buffering" /\ AtStage(c, "acked")
    /\ \/ Added(c) /\ UNCHANGED faults
       \/ Fault /\ UNCHANGED entry
    /\ UNCHANGED <<route, inbox, rotation, drainer>>

\* EmergencyQueue.enqueue; if Redis fails too, or its answer is lost, the
\* provider gets an error.
Buffer(c) ==
    /\ call[c] = "buffering"
    /\ \/ AtStage(c, "acked") /\ Added(c) /\ UNCHANGED faults
       \/ Fault /\ AtStage(c, "refused") /\ (Added(c) \/ UNCHANGED entry)
    /\ UNCHANGED <<route, inbox, rotation, drainer>>

Disable ==
    /\ enabled /\ enabled' = FALSE
    /\ UNCHANGED <<call, cached, out, inbox, entry, rotation, drainer, faults>>

\* The gateway may learn that the binding is enabled, or is about to.
Fresh == enabled \/ \E c \in Call : call[c] = "found"

TickKeepingRoute ==
    /\ out' = IF Fresh THEN 0 ELSE IF out = CacheFor THEN out ELSE out + 1
    /\ UNCHANGED <<call, enabled, cached, inbox, entry, rotation, drainer, faults>>

\* Time passes, for the expiry of the cached route.
Tick ==
    /\ cached' = IF cached = 0 THEN 0 ELSE cached - 1
    /\ out' = IF Fresh THEN 0 ELSE IF out = CacheFor THEN out ELSE out + 1
    /\ UNCHANGED <<call, enabled, inbox, entry, rotation, drainer, faults>>

-----------------------------------------------------------------------------
(* The drainers *)

\* Pages of entries in the given place: new ones from the first on, stale ones
\* from wherever the cursor of XAUTOCLAIM is.
Pages(at) ==
    LET found == {c \in Call : entry[c].at = at}
        Page(i) == {c \in found : /\ i <= entry[c].id
                                  /\ Cardinality({k \in found : entry[k].id \in i .. entry[c].id}) <= Count}
    IN  IF at = "new" /\ found # {} THEN {Page(1)} ELSE {Page(entry[c].id) : c \in found}

\* Every configured key is tried.
Decrypt(d, c) == entry[c].key \in keys[d]

\* The page is taken over, and what cannot be decrypted is acknowledged and
\* deleted; if that fails it stays pending.
TakePage(d, page) ==
    /\ drainer' = [drainer EXCEPT ![d] =
           [pc |-> "draining", batch |-> {c \in page : Decrypt(d, c)}, replayed |-> Nothing]]
    /\ LET poison == {c \in page : ~Decrypt(d, c)}
           Moved(kept) == [c \in Call |-> IF c \notin page THEN entry[c]
                                          ELSE [entry[c] EXCEPT !.at = IF c \in poison \ kept
                                                                       THEN "poisoned" ELSE "owned"]]
       IN  \/ entry' = Moved({}) /\ UNCHANGED faults
           \/ poison # {} /\ Fault /\ entry' = Moved(poison)

ConsumeNewOnly(d) ==
    /\ drainer[d].pc = "idle"
    /\ \E page \in Pages("new") : TakePage(d, page)
    /\ UNCHANGED <<call, route, inbox, rotation>>

\* EmergencyQueue.consume: stale pending entries come before new ones.
Consume(d) ==
    /\ drainer[d].pc = "idle"
    /\ \E page \in IF Pages("stale") # {} THEN Pages("stale") ELSE Pages("new") : TakePage(d, page)
    /\ UNCHANGED <<call, route, inbox, rotation>>

\* The next message of the batch is accepted, or refused for good.
Replay(d) ==
    /\ drainer[d].pc = "draining"
    /\ \E c \in drainer[d].batch :
          /\ \A k \in drainer[d].batch : entry[c].id <= entry[k].id
          /\ inbox' = inbox \cup ({c[1]} \ Invalid)
          /\ drainer' = [drainer EXCEPT ![d].pc = "acking", ![d].replayed = c]
    /\ UNCHANGED <<call, route, entry, rotation, faults>>

\* ack, or quarantine of a refused message: XACK and XDEL.
AckEntry(d) ==
    LET c == drainer[d].replayed
    IN  /\ drainer[d].pc = "acking"
        /\ entry' = [entry EXCEPT ![c].at = "gone"]
        /\ drainer' = [drainer EXCEPT ![d] =
               [pc |-> "draining", batch |-> drainer[d].batch \ {c}, replayed |-> Nothing]]
        /\ UNCHANGED <<call, route, inbox, rotation, faults>>

\* A database or Redis error ends the batch, and so do a stop request and an
\* error that ends the process; the rest of the batch stays pending.
DrainFails(d) ==
    /\ drainer[d].pc \in {"draining", "acking"} /\ Fault
    /\ drainer' = [drainer EXCEPT ![d] = Idle]
    /\ UNCHANGED <<call, route, inbox, entry, rotation>>

DrainDone(d) ==
    /\ drainer[d].pc = "draining" /\ drainer[d].batch = {}
    /\ drainer' = [drainer EXCEPT ![d] = Idle]
    /\ UNCHANGED <<call, route, inbox, entry, rotation, faults>>

\* reclaim_after_ms has passed, although the owner may still be at it.
TurnStale(c) ==
    /\ entry[c].at = "owned"
    /\ \A d \in Drainer : c \in drainer[d].batch => faults < MaxFaults
    /\ entry' = [entry EXCEPT ![c].at = "stale"]
    /\ faults' = IF \E d \in Drainer : c \in drainer[d].batch THEN faults + 1 ELSE faults
    /\ UNCHANGED <<call, route, inbox, rotation, drainer>>

-----------------------------------------------------------------------------
(* Key rotation, as a rolling restart of the two roles *)

\* A relay is restarted with the new key beside the old one; what is left of
\* its batch stays pending.
RotateRelay(d) ==
    /\ keys[d] = {1} /\ drainer[d].pc # "acking"
    /\ keys' = [keys EXCEPT ![d] = Key]
    /\ drainer' = [drainer EXCEPT ![d] = Idle]
    /\ UNCHANGED <<call, route, inbox, entry, gwKey, early, faults>>

\* The gateway is restarted with the new key, whatever the relays have.
RotateGateway ==
    /\ gwKey = 1 /\ gwKey' = 2
    /\ early' = \E d \in Drainer : 2 \notin keys[d]
    /\ UNCHANGED <<call, route, inbox, entry, keys, drainer, faults>>

\* "Remove the old key after the stream is drained."
DropOldKey(d) ==
    /\ keys[d] = Key /\ gwKey = 2 /\ drainer[d].pc # "acking"
    /\ \A c \in Call : entry[c].at \in {"new", "owned", "stale"} => entry[c].key = 2
    /\ keys' = [keys EXCEPT ![d] = {2}]
    /\ drainer' = [drainer EXCEPT ![d] = Idle]
    /\ UNCHANGED <<call, route, inbox, entry, gwKey, early, faults>>

Next ==
    \/ \E c \in Call : Send(c)
    \/ \E c \in Call : Lookup(c)
    \/ \E c \in Call : Resolve(c)
    \/ \E c \in Call : Accept(c)
    \/ \E c \in Call : Buffer(c)
    \/ Disable
    \/ Tick
    \/ \E d \in Drainer : Consume(d)
    \/ \E d \in Drainer : Replay(d)
    \/ \E d \in Drainer : AckEntry(d)
    \/ \E d \in Drainer : DrainFails(d)
    \/ \E d \in Drainer : DrainDone(d)
    \/ \E c \in Call : TurnStale(c)
    \/ \E d \in Drainer : RotateRelay(d)
    \/ RotateGateway
    \/ \E d \in Drainer : DropOldKey(d)

Spec == Init /\ [][Next]_vars

\* A drainer polls for ever, an entry nobody finishes turns stale.
FairSpec ==
    /\ Spec
    /\ \A d \in Drainer : WF_vars(Consume(d)) /\ WF_vars(Replay(d) \/ AckEntry(d) \/ DrainDone(d))
    /\ \A c \in Call : WF_vars(TurnStale(c))

-----------------------------------------------------------------------------
(* Properties *)

IntakeTypeOK ==
    /\ call \in [Call -> Stage]
    /\ enabled \in BOOLEAN /\ cached \in 0 .. CacheFor /\ out \in 0 .. CacheFor
    /\ inbox \subseteq Message \ Invalid
    /\ entry \in [Call -> EntryState]
    /\ gwKey \in Key /\ keys \in [Drainer -> SUBSET Key] /\ early \in BOOLEAN
    /\ drainer \in [Drainer -> DrainerState]
    /\ faults \in Nat

\* A message whose callback was acknowledged is in PostgreSQL or has a copy in
\* the stream, whatever fails, is repeated or is taken over.  It goes in two
\* cases only: PostgreSQL refuses it for good, or its copy was deleted as poison
\* after a rotation that gave the gateway its new key before every relay had it.
AcknowledgedIsDurable ==
    \A c \in Call : call[c] = "acked" /\ c[1] \notin Invalid =>
        \/ c[1] \in inbox
        \/ \E k \in Call : k[1] = c[1] /\ entry[k].at \in {"new", "owned", "stale"}
        \/ early /\ \E k \in Call : k[1] = c[1] /\ entry[k].at = "poisoned"

\* Unless the gateway was early, every relay can read what the gateway writes
\* and what waits in the stream.
EarlyInv == early => gwKey = 2

KeyInv ==
    /\ EarlyInv
    /\ ~early => \A d \in Drainer : gwKey \in keys[d]
    /\ ~early => \A d \in Drainer, c \in Call :
          entry[c].at \in {"new", "owned", "stale"} => Decrypt(d, c)

\* A message is settled when PostgreSQL has it or refuses it.  An entry is
\* deleted, and about to be deleted, only then or as poison; an acknowledged
\* callback without an entry is one whose message is settled.
Settled(c) == c[1] \in inbox \cup Invalid

HandedInv ==
    /\ \A c \in Call : entry[c].at = "gone" => Settled(c)
    /\ \A c \in Call : entry[c].at = "poisoned" => early
    /\ \A c \in Call : call[c] = "acked" /\ entry[c].at = "none" => Settled(c)
    /\ \A d \in Drainer : drainer[d].pc = "acking" =>
          drainer[d].replayed \in Call /\ Settled(drainer[d].replayed)

\* The cached route expires before the gateway has been uninformed for CacheFor.
RouteInv ==
    /\ cached + out <= CacheFor
    /\ Fresh => out = 0

\* Why AcknowledgedIsDurable and DisabledStaysOut hold.
IntakeInv == IntakeTypeOK /\ KeyInv /\ HandedInv /\ RouteInv

\* A disabled binding lets callbacks pass for a bounded time: none is let through
\* on a lookup or on the cached route once CacheFor has passed since the binding
\* was enabled, or since the last answer that said so was still on its way.  No
\* use of the cache while PostgreSQL is down prolongs that.
DisabledStaysOut ==
    [][\A c \in Call : call[c] \in {"found", "unreached"} /\ call'[c] = "accepting"
          => out < CacheFor]_vars

\* "consumer group recovers and replays": the stream is drained in the end, as
\* long as the failures of the replays end.
StreamDrains == \A c \in Call : entry[c].at = "new" ~> entry[c].at \in {"gone", "poisoned"}
=============================================================================
