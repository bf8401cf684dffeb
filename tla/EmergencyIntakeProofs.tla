------------------------ MODULE EmergencyIntakeProofs ------------------------
(***************************************************************************)
(* What the emergency path of the callback gateway promises, for every     *)
(* number of messages, repeated callbacks, drainers and failures and for   *)
(* every order in which gateway and relays get a new key.                  *)
(*                                                                         *)
(* The argument for an acknowledged callback: an entry is deleted after    *)
(* the replay of its message, which PostgreSQL does not forget, or as      *)
(* poison; and unless the gateway got the new key before some relay, every *)
(* relay can decrypt whatever waits in the stream, so nothing is poison.   *)
(* The argument for a disabled binding: the cached route is younger than   *)
(* the last time the gateway could learn that the binding is enabled.      *)
(***************************************************************************)
EXTENDS EmergencyIntake, FiniteSetTheorems, TLAPS

\* The step of a callback moves that callback only.
LEMMA CallMoves ==
    ASSUME IntakeTypeOK, NEW c \in Call, NEW st \in Stage, AtStage(c, st)
    PROVE  /\ call' \in [Call -> Stage]
           /\ call'[c] = st /\ \A k \in Call : k # c => call'[k] = call[k]
BY DEF AtStage, IntakeTypeOK

\* A failed call is one more fault.
LEMMA FaultCounts ==
    ASSUME IntakeTypeOK, Fault \/ UNCHANGED faults
    PROVE  faults' \in Nat
BY DEF Fault, IntakeTypeOK

\* Nobody learns that the binding is enabled, unless it is.
LEMMA RouteKept ==
    ASSUME IntakeInv, UNCHANGED <<cached, out>>, Fresh' => Fresh
    PROVE  RouteInv'
BY DEF IntakeInv, RouteInv

\* Messages once accepted, and entries once handed over, stay settled: the part of
\* the invariant about the entries that a step of the gateway keeps.
LEMMA GatewayKeeps ==
    ASSUME IntakeInv, IntakeTypeOK', RouteInv', UNCHANGED <<entry, gwKey, keys, early, drainer>>,
           inbox \subseteq inbox',
           \A c \in Call : call'[c] = "acked" /\ entry[c].at = "none" =>
              call[c] = "acked" \/ c[1] \in inbox' \cup Invalid
    PROVE  IntakeInv'
<1>1. KeyInv'
      BY DEF IntakeInv, KeyInv, EarlyInv, Decrypt
<1>2. \A c \in Call : Settled(c) => c[1] \in inbox' \cup Invalid
      BY DEF Settled
<1>3. HandedInv'
      BY <1>2 DEF IntakeInv, HandedInv, Settled
<1> QED BY <1>1, <1>3 DEF IntakeInv

\* A new callback and the acceptance of its message.
LEMMA CallKeeps ==
    ASSUME IntakeInv, NEW c \in Call, Send(c) \/ Accept(c)
    PROVE  IntakeInv'
<1>0. IntakeTypeOK /\ c[1] \in Message
      BY DEF IntakeInv, Call
<1>1. /\ UNCHANGED <<enabled, cached, out, entry, gwKey, keys, early, drainer>>
      /\ Fault \/ UNCHANGED faults
      BY DEF Send, Accept, route, rotation
<1>2. inbox \subseteq inbox' /\ inbox' \subseteq Message \ Invalid
      <2>1. CASE Send(c)
            BY <1>0, <2>1 DEF Send, IntakeTypeOK
      <2>2. CASE Accept(c)
            BY <1>0, <2>2 DEF Accept, IntakeTypeOK
      <2> QED BY <2>1, <2>2
<1>3. PICK st \in {"resolving", "refused", "acked", "buffering"} :
         AtStage(c, st) /\ (st = "acked" => c[1] \in inbox')
      BY DEF Send, Accept
<1>4. /\ call' \in [Call -> Stage]
      /\ call'[c] = st /\ \A k \in Call : k # c => call'[k] = call[k]
      BY <1>0, <1>3, CallMoves DEF Stage
<1>5. IntakeTypeOK'
      BY <1>0, <1>1, <1>2, <1>4, FaultCounts DEF IntakeTypeOK
<1>6. RouteInv'
      <2>1. Fresh' => Fresh
            BY <1>1, <1>3, <1>4 DEF Fresh
      <2> QED BY <1>1, <2>1, RouteKept
<1> QED BY <1>1, <1>2, <1>3, <1>4, <1>5, <1>6, GatewayKeeps

\* The answer to a lookup: a route is found only while the binding is enabled.
LEMMA LookupKeeps ==
    ASSUME IntakeInv, NEW c \in Call, Lookup(c)
    PROVE  IntakeInv'
<1>0. IntakeTypeOK
      BY DEF IntakeInv
<1>1. /\ UNCHANGED <<enabled, cached, out, inbox, entry, gwKey, keys, early, drainer>>
      /\ Fault \/ UNCHANGED faults
      BY DEF Lookup, route, rotation
<1>2. PICK st \in {"found", "unreached", "rejected"} : AtStage(c, st) /\ (st = "found" => enabled)
      BY DEF Lookup
<1>3. /\ call' \in [Call -> Stage]
      /\ call'[c] = st /\ \A k \in Call : k # c => call'[k] = call[k]
      BY <1>0, <1>2, CallMoves DEF Stage
<1>4. IntakeTypeOK'
      BY <1>0, <1>1, <1>3, FaultCounts DEF IntakeTypeOK
<1>5. RouteInv'
      <2>1. Fresh' => Fresh
            BY <1>1, <1>2, <1>3 DEF Fresh
      <2> QED BY <1>1, <2>1, RouteKept
<1> QED BY <1>1, <1>2, <1>3, <1>4, <1>5, GatewayKeeps

\* A route is cached only while its answer is on its way, so the time without
\* news starts afterwards.
LEMMA ResolveKeeps ==
    ASSUME IntakeInv, NEW c \in Call, Resolve(c)
    PROVE  IntakeInv'
<1>0. IntakeTypeOK /\ CacheFor \in Nat \ {0}
      BY IntakeAssumption DEF IntakeInv
<1>1. UNCHANGED <<enabled, out, inbox, entry, gwKey, keys, early, drainer, faults>>
      BY DEF Resolve, rotation
<1>2. PICK st \in {"accepting", "refused"} : AtStage(c, st)
      BY DEF Resolve
<1>3. /\ call' \in [Call -> Stage]
      /\ call'[c] = st /\ \A k \in Call : k # c => call'[k] = call[k]
      BY <1>0, <1>2, CallMoves DEF Stage
<1>4. cached' = cached \/ (call[c] = "found" /\ cached' = CacheFor)
      BY DEF Resolve
<1>5. IntakeTypeOK'
      BY <1>0, <1>1, <1>3, <1>4 DEF IntakeTypeOK
<1>6. Fresh' => Fresh
      BY <1>1, <1>2, <1>3 DEF Fresh
<1>7. RouteInv'
      <2>1. CASE cached' = cached
            BY <1>1, <1>6, <2>1, RouteKept
      <2>2. CASE call[c] = "found" /\ cached' = CacheFor
            <3>1. out = 0
                  BY <2>2 DEF IntakeInv, RouteInv, Fresh
            <3> QED BY <1>0, <1>1, <2>2, <3>1 DEF RouteInv
      <2> QED BY <1>4, <2>1, <2>2
<1> QED BY <1>1, <1>2, <1>3, <1>5, <1>7, GatewayKeeps

\* The binding is disabled, or time passes: the cached route ages with the time
\* without news.
LEMMA RouteKeeps ==
    ASSUME IntakeInv, Disable \/ Tick
    PROVE  IntakeInv'
<1>0. IntakeTypeOK /\ CacheFor \in Nat \ {0}
      BY IntakeAssumption DEF IntakeInv
<1>1. UNCHANGED <<call, inbox, entry, gwKey, keys, early, drainer, faults>>
      BY DEF Disable, Tick, rotation
<1>2. CASE Disable
      <2>1. enabled' = FALSE /\ UNCHANGED <<cached, out>>
            BY <1>2 DEF Disable
      <2>2. IntakeTypeOK'
            BY <1>0, <1>1, <2>1 DEF IntakeTypeOK
      <2>3. RouteInv'
            <3>1. Fresh' => Fresh
                  BY <1>1, <2>1 DEF Fresh
            <3> QED BY <2>1, <3>1, RouteKept
      <2> QED BY <1>1, <2>2, <2>3, GatewayKeeps
<1>3. CASE Tick
      <2>1. /\ cached' = IF cached = 0 THEN 0 ELSE cached - 1
            /\ out' = IF Fresh THEN 0 ELSE IF out = CacheFor THEN out ELSE out + 1
            /\ enabled' = enabled
            BY <1>3 DEF Tick
      <2>2. cached \in 0 .. CacheFor /\ out \in 0 .. CacheFor /\ cached + out <= CacheFor
            BY DEF IntakeInv, IntakeTypeOK, RouteInv
      <2>3. /\ cached' \in 0 .. CacheFor /\ out' \in 0 .. CacheFor /\ cached' + out' <= CacheFor
            BY <1>0, <2>1, <2>2
      <2>4. Fresh' = Fresh
            BY <1>1, <2>1 DEF Fresh
      <2>5. RouteInv'
            BY <2>1, <2>3, <2>4 DEF RouteInv
      <2>6. IntakeTypeOK'
            BY <1>0, <1>1, <2>1, <2>3 DEF IntakeTypeOK
      <2> QED BY <1>1, <2>5, <2>6, GatewayKeeps
<1> QED BY <1>2, <1>3

\* The id of a new entry.
LEMMA NextId == Cardinality({k \in Call : entry[k].at # "none"}) \in Nat
<1>1. IsFiniteSet(Message) /\ 1 \in Int /\ MaxSends \in Int
      BY IntakeAssumption
<1>2. IsFiniteSet(1 .. MaxSends)
      BY <1>1, FS_Interval
<1>3. IsFiniteSet(Call)
      BY <1>1, <1>2, FS_Product DEF Call
<1>4. IsFiniteSet({k \in Call : entry[k].at # "none"})
      BY <1>3, FS_Subset
<1> QED BY <1>4, FS_CardinalityType

\* EmergencyQueue.enqueue: the copy is in the stream before the callback is
\* acknowledged, under a key the relays have unless the gateway was early.
LEMMA BufferKeeps ==
    ASSUME IntakeInv, NEW c \in Call, Buffer(c)
    PROVE  IntakeInv'
<1>0. IntakeTypeOK
      BY DEF IntakeInv
<1>1. /\ UNCHANGED <<enabled, cached, out, inbox, gwKey, keys, early, drainer>>
      /\ Fault \/ UNCHANGED faults
      BY DEF Buffer, route, rotation
<1>2. PICK st \in {"acked", "refused"} :
         AtStage(c, st) /\ (Added(c) \/ (st = "refused" /\ UNCHANGED entry))
      BY DEF Buffer
<1>3. /\ call' \in [Call -> Stage]
      /\ call'[c] = st /\ \A k \in Call : k # c => call'[k] = call[k]
      BY <1>0, <1>2, CallMoves DEF Stage
<1>4. RouteInv'
      <2>1. Fresh' => Fresh
            BY <1>1, <1>2, <1>3 DEF Fresh
      <2> QED BY <1>1, <2>1, RouteKept
<1>5. CASE st = "refused" /\ UNCHANGED entry
      <2>1. IntakeTypeOK'
            BY <1>0, <1>1, <1>3, <1>5, FaultCounts DEF IntakeTypeOK
      <2> QED BY <1>1, <1>3, <1>4, <1>5, <2>1, GatewayKeeps
<1>6. CASE Added(c)
      <2>1. PICK i \in Nat : entry' = [entry EXCEPT ![c] = [at |-> "new", id |-> i, key |-> gwKey]]
            <3>1. 1 + Cardinality({k \in Call : entry[k].at # "none"}) \in Nat
                  BY NextId
            <3> QED BY <1>6, <3>1 DEF Added
      <2>2. [at |-> "new", id |-> i, key |-> gwKey] \in EntryState
            BY <1>0 DEF EntryState, IntakeTypeOK
      <2>3. /\ entry' \in [Call -> EntryState] /\ entry'[c].at = "new" /\ entry'[c].key = gwKey
            /\ \A k \in Call : k # c => entry'[k] = entry[k]
            BY <1>0, <2>1, <2>2 DEF IntakeTypeOK
      <2>4. IntakeTypeOK'
            BY <1>0, <1>1, <1>3, <2>3, FaultCounts DEF IntakeTypeOK
      <2>5. KeyInv'
            BY <1>1, <2>3 DEF IntakeInv, KeyInv, EarlyInv, Decrypt
      <2>6. HandedInv'
            BY <1>1, <1>2, <1>3, <2>3 DEF IntakeInv, HandedInv, Settled
      <2> QED BY <1>4, <2>4, <2>5, <2>6 DEF IntakeInv
<1> QED BY <1>2, <1>5, <1>6

-----------------------------------------------------------------------------
(* The drainers *)

\* A step of a drainer that deletes only settled entries or poison, and adds none.
LEMMA DrainKeeps ==
    ASSUME IntakeInv, UNCHANGED <<call, enabled, cached, out, gwKey, keys, early>>,
           Fault \/ UNCHANGED faults,
           inbox \subseteq inbox', inbox' \subseteq Message \ Invalid,
           entry' \in [Call -> EntryState],
           \A c \in Call : /\ entry'[c].key = entry[c].key
                           /\ entry'[c].at = "none" => entry[c].at = "none"
                           /\ entry'[c].at \in {"new", "owned", "stale"} =>
                                 entry[c].at \in {"new", "owned", "stale"}
                           /\ entry'[c].at = "gone" => entry[c].at = "gone" \/ Settled(c)
                           /\ entry'[c].at = "poisoned" => entry[c].at = "poisoned" \/ early,
           drainer' \in [Drainer -> DrainerState],
           \A d \in Drainer : drainer'[d].pc = "acking" =>
              drainer'[d].replayed \in Call /\ drainer'[d].replayed[1] \in inbox' \cup Invalid
    PROVE  IntakeInv'
<1>1. IntakeTypeOK'
      BY FaultCounts DEF IntakeInv, IntakeTypeOK
<1>2. KeyInv'
      BY DEF IntakeInv, KeyInv, EarlyInv, Decrypt
<1>3. HandedInv'
      BY DEF IntakeInv, HandedInv, Settled
<1>4. RouteInv'
      <2>1. Fresh' => Fresh
            BY DEF Fresh
      <2> QED BY <2>1, RouteKept
<1> QED BY <1>1, <1>2, <1>3, <1>4 DEF IntakeInv

\* The drainer that acts is the only one that moves.
LEMMA DrainerMoves ==
    ASSUME IntakeTypeOK, NEW d \in Drainer, NEW x \in DrainerState,
           drainer' = [drainer EXCEPT ![d] = x]
    PROVE  /\ drainer' \in [Drainer -> DrainerState] /\ drainer'[d] = x
           /\ \A k \in Drainer : k # d => drainer'[k] = drainer[k]
BY DEF IntakeTypeOK

\* Pages hold entries that wait in the stream.
LEMMA PageWaits ==
    ASSUME NEW at \in {"new", "stale"}, NEW page \in Pages(at)
    PROVE  page \subseteq {c \in Call : entry[c].at = at}
BY DEF Pages

\* consume: what cannot be decrypted is deleted, which happens only after the
\* gateway was early.
LEMMA ConsumeKeeps ==
    ASSUME IntakeInv, NEW d \in Drainer, Consume(d)
    PROVE  IntakeInv'
<1>0. IntakeTypeOK /\ entry \in [Call -> EntryState]
      BY DEF IntakeInv, IntakeTypeOK
<1>1. PICK page : TakePage(d, page) /\ (page \in Pages("new") \/ page \in Pages("stale"))
      BY DEF Consume
<1>2. page \subseteq {c \in Call : entry[c].at \in {"new", "stale"}}
      BY <1>1, PageWaits
<1>3. \A c \in page : Decrypt(d, c) \/ early
      BY <1>2 DEF IntakeInv, KeyInv
<1>4. UNCHANGED <<call, enabled, cached, out, inbox, gwKey, keys, early>>
      BY DEF Consume, route, rotation
<1>5. PICK lost \in SUBSET {c \in page : ~Decrypt(d, c)} :
         /\ Fault \/ UNCHANGED faults
         /\ entry' = [c \in Call |-> IF c \notin page THEN entry[c]
                                      ELSE [entry[c] EXCEPT !.at = IF c \in lost
                                                                   THEN "poisoned" ELSE "owned"]]
      <2> DEFINE poison == {c \in page : ~Decrypt(d, c)}
                 Moved(kept) == [c \in Call |-> IF c \notin page THEN entry[c]
                                     ELSE [entry[c] EXCEPT !.at = IF c \in poison \ kept
                                                                  THEN "poisoned" ELSE "owned"]]
      <2>1. \/ entry' = Moved({}) /\ UNCHANGED faults
            \/ Fault /\ entry' = Moved(poison)
            BY <1>1 DEF TakePage
      <2>2. PICK kept \in {{}, poison} : entry' = Moved(kept) /\ (Fault \/ UNCHANGED faults)
            BY <2>1
      <2>3. poison \ kept \in SUBSET poison
            OBVIOUS
      <2> QED BY <2>2, <2>3
<1>6. \A c \in Call : \A at \in {"owned", "poisoned"} :
         /\ [entry[c] EXCEPT !.at = at] \in EntryState
         /\ [entry[c] EXCEPT !.at = at].key = entry[c].key
         /\ [entry[c] EXCEPT !.at = at].at = at
      BY <1>0, ZenonT(40) DEF EntryState
<1>7. /\ entry' \in [Call -> EntryState]
      /\ \A c \in Call : /\ entry'[c].key = entry[c].key
                         /\ \/ entry'[c].at = entry[c].at
                            \/ c \in page /\ entry'[c].at = "owned"
                            \/ c \in lost /\ entry'[c].at = "poisoned"
      BY <1>0, <1>5, <1>6
<1>8. \A c \in lost : early
      BY <1>3, <1>5
<1> DEFINE x == [pc |-> "draining", batch |-> {c \in page : Decrypt(d, c)}, replayed |-> Nothing]
<1>9. x \in DrainerState /\ x.pc = "draining"
      BY <1>2 DEF DrainerState
<1>10. drainer' = [drainer EXCEPT ![d] = x]
      BY <1>1 DEF TakePage
<1> HIDE DEF x
<1>11. /\ drainer' \in [Drainer -> DrainerState] /\ drainer'[d] = x
       /\ \A k \in Drainer : k # d => drainer'[k] = drainer[k]
      BY <1>0, <1>9, <1>10, DrainerMoves
<1>12. \A k \in Drainer : drainer'[k].pc = "acking" =>
          drainer'[k].replayed \in Call /\ drainer'[k].replayed[1] \in inbox' \cup Invalid
      BY <1>4, <1>9, <1>11 DEF IntakeInv, HandedInv, Settled
<1>13. inbox \subseteq inbox' /\ inbox' \subseteq Message \ Invalid
      BY <1>0, <1>4 DEF IntakeTypeOK
<1>14. \A c \in Call : /\ entry'[c].at = "none" => entry[c].at = "none"
                       /\ entry'[c].at \in {"new", "owned", "stale"} =>
                             entry[c].at \in {"new", "owned", "stale"}
                       /\ entry'[c].at = "gone" => entry[c].at = "gone"
                       /\ entry'[c].at = "poisoned" => entry[c].at = "poisoned" \/ early
      BY <1>2, <1>7, <1>8
<1> QED BY <1>4, <1>5, <1>7, <1>11, <1>12, <1>13, <1>14, DrainKeeps

\* The message is in PostgreSQL, or refused for good, before its entry is acked.
LEMMA ReplayKeeps ==
    ASSUME IntakeInv, NEW d \in Drainer, Replay(d)
    PROVE  IntakeInv'
<1>0. IntakeTypeOK /\ drainer[d] \in DrainerState
      BY DEF IntakeInv, IntakeTypeOK
<1>1. PICK c \in drainer[d].batch :
         /\ inbox' = inbox \cup ({c[1]} \ Invalid)
         /\ drainer' = [drainer EXCEPT ![d].pc = "acking", ![d].replayed = c]
      BY DEF Replay
<1>2. UNCHANGED <<call, enabled, cached, out, entry, gwKey, keys, early, faults>>
      BY DEF Replay, route, rotation
<1>3. c \in Call /\ c[1] \in Message
      BY <1>0 DEF DrainerState, Call
<1>4. inbox \subseteq inbox' /\ inbox' \subseteq Message \ Invalid /\ c[1] \in inbox' \cup Invalid
      BY <1>0, <1>1, <1>3 DEF IntakeTypeOK
<1> DEFINE x == [drainer[d] EXCEPT !.pc = "acking", !.replayed = c]
<1>5. x \in DrainerState
      BY <1>0, <1>3, ZenonT(40) DEF DrainerState
<1>6. x.replayed = c
      BY <1>0 DEF DrainerState
<1>7. drainer' = [drainer EXCEPT ![d] = x]
      BY <1>1
<1> HIDE DEF x
<1>8. /\ drainer' \in [Drainer -> DrainerState] /\ drainer'[d] = x
      /\ \A k \in Drainer : k # d => drainer'[k] = drainer[k]
      BY <1>0, <1>5, <1>7, DrainerMoves
<1>9. \A k \in Drainer : drainer'[k].pc = "acking" =>
         drainer'[k].replayed \in Call /\ drainer'[k].replayed[1] \in inbox' \cup Invalid
      BY <1>3, <1>4, <1>6, <1>8 DEF IntakeInv, HandedInv, Settled
<1>10. entry \in [Call -> EntryState]
      BY <1>0 DEF IntakeTypeOK
<1> QED BY <1>2, <1>4, <1>8, <1>9, <1>10, DrainKeeps

\* ack or quarantine deletes the entry of a message that is settled.
LEMMA AckKeeps ==
    ASSUME IntakeInv, NEW d \in Drainer, AckEntry(d)
    PROVE  IntakeInv'
<1> DEFINE c == drainer[d].replayed
<1>0. IntakeTypeOK /\ drainer[d] \in DrainerState /\ entry \in [Call -> EntryState]
      BY DEF IntakeInv, IntakeTypeOK
<1>1. /\ drainer[d].pc = "acking" /\ entry' = [entry EXCEPT ![c].at = "gone"]
      /\ drainer' = [drainer EXCEPT ![d] =
            [pc |-> "draining", batch |-> drainer[d].batch \ {c}, replayed |-> Nothing]]
      /\ UNCHANGED <<call, enabled, cached, out, inbox, gwKey, keys, early, faults>>
      BY DEF AckEntry, route, rotation
<1>2. c \in Call /\ Settled(c)
      BY <1>1 DEF IntakeInv, HandedInv
<1>3. /\ [entry[c] EXCEPT !.at = "gone"] \in EntryState
      /\ [entry[c] EXCEPT !.at = "gone"].key = entry[c].key
      /\ [entry[c] EXCEPT !.at = "gone"].at = "gone"
      BY <1>0, <1>2, ZenonT(40) DEF EntryState
<1>4. /\ entry' \in [Call -> EntryState]
      /\ \A k \in Call : /\ entry'[k].key = entry[k].key
                         /\ entry'[k].at = entry[k].at \/ (entry'[k].at = "gone" /\ Settled(k))
      BY <1>0, <1>1, <1>2, <1>3
<1> DEFINE x == [pc |-> "draining", batch |-> drainer[d].batch \ {c}, replayed |-> Nothing]
<1>5. x \in DrainerState /\ x.pc = "draining"
      BY <1>0 DEF DrainerState
<1>6. drainer' = [drainer EXCEPT ![d] = x]
      BY <1>1
<1> HIDE DEF x
<1>7. /\ drainer' \in [Drainer -> DrainerState] /\ drainer'[d] = x
      /\ \A k \in Drainer : k # d => drainer'[k] = drainer[k]
      BY <1>0, <1>5, <1>6, DrainerMoves
<1>8. \A k \in Drainer : drainer'[k].pc = "acking" =>
         drainer'[k].replayed \in Call /\ drainer'[k].replayed[1] \in inbox' \cup Invalid
      BY <1>1, <1>5, <1>7 DEF IntakeInv, HandedInv, Settled
<1>9. inbox \subseteq inbox' /\ inbox' \subseteq Message \ Invalid
      BY <1>0, <1>1 DEF IntakeTypeOK
<1> QED BY <1>1, <1>4, <1>7, <1>8, <1>9, DrainKeeps

\* A batch ends, failed or done: its entries stay where they are.
LEMMA BatchEndKeeps ==
    ASSUME IntakeInv, NEW d \in Drainer, DrainFails(d) \/ DrainDone(d)
    PROVE  IntakeInv'
<1>0. IntakeTypeOK /\ entry \in [Call -> EntryState]
      BY DEF IntakeInv, IntakeTypeOK
<1>1. /\ drainer' = [drainer EXCEPT ![d] = Idle] /\ (Fault \/ UNCHANGED faults)
      /\ UNCHANGED <<call, enabled, cached, out, inbox, entry, gwKey, keys, early>>
      BY DEF DrainFails, DrainDone, route, rotation
<1>2. Idle \in DrainerState /\ Idle.pc = "idle"
      BY DEF Idle, DrainerState
<1>3. /\ drainer' \in [Drainer -> DrainerState] /\ drainer'[d] = Idle
      /\ \A k \in Drainer : k # d => drainer'[k] = drainer[k]
      BY <1>0, <1>1, <1>2, DrainerMoves
<1>4. \A k \in Drainer : drainer'[k].pc = "acking" =>
         drainer'[k].replayed \in Call /\ drainer'[k].replayed[1] \in inbox' \cup Invalid
      BY <1>1, <1>2, <1>3 DEF IntakeInv, HandedInv, Settled
<1>5. inbox \subseteq inbox' /\ inbox' \subseteq Message \ Invalid
      BY <1>0, <1>1 DEF IntakeTypeOK
<1> QED BY <1>0, <1>1, <1>3, <1>4, <1>5, DrainKeeps

\* reclaim_after_ms has passed for an entry, finished with or not.
LEMMA StaleKeeps ==
    ASSUME IntakeInv, NEW c \in Call, TurnStale(c)
    PROVE  IntakeInv'
<1>0. IntakeTypeOK /\ entry \in [Call -> EntryState] /\ drainer \in [Drainer -> DrainerState]
      BY DEF IntakeInv, IntakeTypeOK
<1>1. /\ entry[c].at = "owned" /\ entry' = [entry EXCEPT ![c].at = "stale"]
      /\ Fault \/ UNCHANGED faults
      /\ UNCHANGED <<call, enabled, cached, out, inbox, gwKey, keys, early, drainer>>
      BY DEF TurnStale, Fault, route, rotation
<1>2. /\ [entry[c] EXCEPT !.at = "stale"] \in EntryState
      /\ [entry[c] EXCEPT !.at = "stale"].key = entry[c].key
      /\ [entry[c] EXCEPT !.at = "stale"].at = "stale"
      BY <1>0, ZenonT(40) DEF EntryState
<1>3. /\ entry' \in [Call -> EntryState]
      /\ \A k \in Call : /\ entry'[k].key = entry[k].key
                         /\ \/ entry'[k].at = entry[k].at
                            \/ entry[k].at = "owned" /\ entry'[k].at = "stale"
      BY <1>0, <1>1, <1>2
<1>4. \A k \in Drainer : drainer'[k].pc = "acking" =>
         drainer'[k].replayed \in Call /\ drainer'[k].replayed[1] \in inbox' \cup Invalid
      BY <1>1 DEF IntakeInv, HandedInv, Settled
<1>5. inbox \subseteq inbox' /\ inbox' \subseteq Message \ Invalid
      BY <1>0, <1>1 DEF IntakeTypeOK
<1> QED BY <1>0, <1>1, <1>3, <1>4, <1>5, DrainKeeps

-----------------------------------------------------------------------------
(* The keys *)

\* Rotation in any order: as long as no relay lacks the new key when the gateway
\* gets it, the relays can read every key in use.
LEMMA RotationKeeps ==
    ASSUME IntakeInv, \/ RotateGateway
                      \/ \E d \in Drainer : RotateRelay(d) \/ DropOldKey(d)
    PROVE  IntakeInv'
<1>0. IntakeTypeOK
      BY DEF IntakeInv
<1>1. UNCHANGED <<call, enabled, cached, out, inbox, entry, faults>>
      BY DEF RotateRelay, RotateGateway, DropOldKey, route
<1>2. RouteInv'
      <2>1. Fresh' => Fresh
            BY <1>1 DEF Fresh
      <2> QED BY <1>1, <2>1, RouteKept
<1>3. CASE RotateGateway
      <2>1. /\ gwKey = 1 /\ gwKey' = 2 /\ UNCHANGED <<keys, drainer>>
            /\ early' = \E d \in Drainer : 2 \notin keys[d]
            BY <1>3 DEF RotateGateway
      <2>2. IntakeTypeOK'
            BY <1>0, <1>1, <2>1 DEF IntakeTypeOK, Key
      <2>3. ~early' => \A d \in Drainer : 2 \in keys[d]
            BY <2>1
      <2>4. early => early'
            <3> QED BY <1>0, <2>1 DEF IntakeInv, KeyInv, EarlyInv
      <2>5. KeyInv'
            BY <1>1, <2>1, <2>3, <2>4 DEF IntakeInv, KeyInv, EarlyInv, Decrypt
      <2>6. HandedInv'
            BY <1>1, <2>1, <2>4 DEF IntakeInv, HandedInv, Settled
      <2> QED BY <1>2, <2>2, <2>5, <2>6 DEF IntakeInv
<1>4. ASSUME NEW d \in Drainer, RotateRelay(d) \/ DropOldKey(d)
      PROVE  IntakeInv'
      <2>1. /\ UNCHANGED <<gwKey, early>> /\ drainer' = [drainer EXCEPT ![d] = Idle]
            /\ \/ keys[d] = {1} /\ keys' = [keys EXCEPT ![d] = Key]
               \/ /\ gwKey = 2 /\ keys' = [keys EXCEPT ![d] = {2}]
                  /\ \A c \in Call : entry[c].at \in {"new", "owned", "stale"} => entry[c].key = 2
            BY <1>4 DEF RotateRelay, DropOldKey
      <2>2. Idle \in DrainerState /\ Idle.pc = "idle"
            BY DEF Idle, DrainerState
      <2>3. /\ drainer' \in [Drainer -> DrainerState] /\ drainer'[d] = Idle
            /\ \A k \in Drainer : k # d => drainer'[k] = drainer[k]
            BY <1>0, <2>1, <2>2, DrainerMoves
      <2>4. keys' \in [Drainer -> SUBSET Key] /\ \A k \in Drainer : k # d => keys'[k] = keys[k]
            BY <1>0, <2>1 DEF IntakeTypeOK, Key
      <2>5. IntakeTypeOK'
            BY <1>0, <1>1, <2>1, <2>3, <2>4 DEF IntakeTypeOK
      <2>6. KeyInv'
            <3>1. gwKey \in Key /\ keys \in [Drainer -> SUBSET Key] /\ entry \in [Call -> EntryState]
                  BY <1>0 DEF IntakeTypeOK
            <3>2. \A c \in Call : entry[c].key \in Key
                  BY <3>1 DEF EntryState
            <3>3. /\ gwKey \in keys[d] => gwKey \in keys'[d]
                  /\ \A c \in Call : entry[c].at \in {"new", "owned", "stale"} /\ entry[c].key \in keys[d]
                        => entry[c].key \in keys'[d]
                  BY <2>1, <3>1, <3>2
            <3> QED BY <1>1, <2>1, <2>4, <3>3 DEF IntakeInv, KeyInv, EarlyInv, Decrypt
      <2>7. HandedInv'
            BY <1>1, <2>1, <2>2, <2>3 DEF IntakeInv, HandedInv, Settled
      <2> QED BY <1>2, <2>5, <2>6, <2>7 DEF IntakeInv
<1> QED BY <1>3, <1>4

-----------------------------------------------------------------------------
(* The theorems *)

\* Nothing was sent, accepted or buffered yet.
LEMMA IntakeInitInv == Init => IntakeInv
<1> SUFFICES ASSUME Init PROVE IntakeInv
    OBVIOUS
<1>1. NoEntry \in EntryState /\ NoEntry.at = "none"
      BY DEF NoEntry, EntryState, Key
<1>2. Idle \in DrainerState /\ Idle.pc = "idle"
      BY DEF Idle, DrainerState
<1>3. CacheFor \in Nat \ {0}
      BY IntakeAssumption
<1>4. IntakeTypeOK
      <2>1. call \in [Call -> Stage] /\ keys \in [Drainer -> SUBSET Key]
            BY DEF Init, Stage, Key
      <2>2. entry \in [Call -> EntryState] /\ drainer \in [Drainer -> DrainerState]
            BY <1>1, <1>2 DEF Init
      <2>3. cached \in 0 .. CacheFor /\ out \in 0 .. CacheFor
            BY <1>3 DEF Init
      <2> QED BY <2>1, <2>2, <2>3 DEF Init, IntakeTypeOK, Key
<1>5. KeyInv
      BY <1>1 DEF Init, KeyInv, EarlyInv
<1>6. HandedInv
      BY <1>1, <1>2 DEF Init, HandedInv
<1>7. RouteInv
      BY <1>3 DEF Init, RouteInv
<1> QED BY <1>4, <1>5, <1>6, <1>7 DEF IntakeInv

\* Every step keeps the invariant.
LEMMA IntakeStep == IntakeInv /\ [Next]_vars => IntakeInv'
<1> SUFFICES ASSUME IntakeInv, [Next]_vars PROVE IntakeInv'
    OBVIOUS
<1>1. CASE UNCHANGED vars
      <2>1. IntakeTypeOK'
            BY <1>1 DEF vars, route, rotation, IntakeInv, IntakeTypeOK
      <2>2. RouteInv'
            <3>1. UNCHANGED <<cached, out>> /\ (Fresh' => Fresh)
                  BY <1>1 DEF vars, route, Fresh
            <3> QED BY <3>1, RouteKept
      <2> QED BY <1>1, <2>1, <2>2, GatewayKeeps DEF vars, rotation
<1> QED BY <1>1, CallKeeps, LookupKeeps, ResolveKeeps, RouteKeeps, BufferKeeps, ConsumeKeeps,
           ReplayKeeps, AckKeeps, BatchEndKeeps, StaleKeeps, RotationKeeps DEF Next

\* The inductive invariant holds in every reachable state.
THEOREM IntakeInvariance == Spec => []IntakeInv
<1> QED BY IntakeInitInv, IntakeStep, PTL DEF Spec

\* The callbacks, the entries of the stream and the drainers keep their types.
THEOREM IntakeTypeCorrect == Spec => []IntakeTypeOK
<1>1. IntakeInv => IntakeTypeOK
      BY DEF IntakeInv
<1> QED BY <1>1, IntakeInvariance, PTL

\* A callback is answered with success only when its message is in PostgreSQL,
\* waits in the emergency stream, or is one that PostgreSQL refuses: through any
\* number of repeated callbacks, lost answers, take-overs and restarts.  The only
\* other loss is a copy that a relay deletes because the gateway got the new key
\* before every relay had it.
THEOREM AcknowledgedForGood == Spec => []AcknowledgedIsDurable
<1>1. IntakeInv => AcknowledgedIsDurable
      <2> SUFFICES ASSUME IntakeInv, NEW c \in Call, call[c] = "acked", c[1] \notin Invalid,
                          c[1] \notin inbox
                   PROVE  \/ \E k \in Call : k[1] = c[1] /\ entry[k].at \in {"new", "owned", "stale"}
                          \/ early /\ \E k \in Call : k[1] = c[1] /\ entry[k].at = "poisoned"
          BY DEF AcknowledgedIsDurable
      <2>1. entry[c].at \in {"new", "owned", "stale", "poisoned"}
            BY DEF IntakeInv, HandedInv, Settled, IntakeTypeOK, EntryState
      <2>2. entry[c].at = "poisoned" => early
            BY DEF IntakeInv, HandedInv
      <2> QED BY <2>1, <2>2
<1> QED BY <1>1, IntakeInvariance, PTL

\* For a binding that is disabled the gateway lets no callback pass once CacheFor
\* has gone by since it could last learn that the binding is enabled, however
\* long PostgreSQL is down and however often the cached route is used.
THEOREM DisabledIsOut == Spec => DisabledStaysOut
<1> DEFINE Passes == \A c \in Call : call[c] \in {"found", "unreached"} /\ call'[c] = "accepting"
                                        => out < CacheFor
<1>1. ASSUME IntakeInv, NEW c \in Call, call[c] \in {"found", "unreached"}, Resolve(c),
             call'[c] = "accepting"
      PROVE  out < CacheFor
      <2>0. /\ CacheFor \in Nat \ {0} /\ out \in 0 .. CacheFor /\ cached \in 0 .. CacheFor
            /\ cached + out <= CacheFor
            BY <1>1, IntakeAssumption DEF IntakeInv, IntakeTypeOK, RouteInv
      <2>1. CASE call[c] = "found"
            <3>1. out = 0
                  BY <1>1, <2>1 DEF IntakeInv, RouteInv, Fresh
            <3> QED BY <2>0, <3>1
      <2>2. CASE call[c] = "unreached"
            <3>1. cached > 0
                  BY <1>1, <2>2 DEF Resolve, AtStage, IntakeInv, IntakeTypeOK
            <3> QED BY <2>0, <3>1
      <2> QED BY <1>1, <2>1, <2>2
<1>2. ASSUME IntakeInv, Next, NEW c \in Call, call[c] \in {"found", "unreached"}, call'[c] # call[c]
      PROVE  Resolve(c)
      <2>1. ASSUME NEW k \in Call, Send(k) \/ Lookup(k) \/ Accept(k) \/ Buffer(k)
            PROVE  call'[c] = call[c]
            <3>1. call[k] \notin {"found", "unreached"} /\ \E st : AtStage(k, st)
                  BY <2>1 DEF Send, Lookup, Accept, Buffer
            <3> QED BY <1>2, <3>1 DEF AtStage, IntakeInv, IntakeTypeOK
      <2>2. ASSUME NEW k \in Call, Resolve(k), k # c
            PROVE  call'[c] = call[c]
            <3>1. \E st : AtStage(k, st)
                  BY <2>2 DEF Resolve
            <3> QED BY <1>2, <2>2, <3>1 DEF AtStage, IntakeInv, IntakeTypeOK
      <2>3. ASSUME \/ Disable \/ Tick \/ RotateGateway
                   \/ \E k \in Call : TurnStale(k)
                   \/ \E d \in Drainer : Consume(d) \/ Replay(d) \/ AckEntry(d) \/ DrainFails(d)
                                           \/ DrainDone(d) \/ RotateRelay(d) \/ DropOldKey(d)
            PROVE  call' = call
            BY <2>3 DEF Disable, Tick, RotateGateway, TurnStale, Consume, Replay, AckEntry,
                        DrainFails, DrainDone, RotateRelay, DropOldKey
      <2> QED BY <1>2, <2>1, <2>2, <2>3 DEF Next
<1>3. IntakeInv /\ [Next]_vars => [Passes]_vars
      <2> SUFFICES ASSUME IntakeInv, Next PROVE Passes
          OBVIOUS
      <2> SUFFICES ASSUME NEW c \in Call, call[c] \in {"found", "unreached"}, call'[c] = "accepting"
                   PROVE  out < CacheFor
          OBVIOUS
      <2>1. Resolve(c)
            BY <1>2
      <2> QED BY <1>1, <2>1
<1> QED BY <1>3, IntakeInvariance, PTL DEF Spec, DisabledStaysOut
=============================================================================
