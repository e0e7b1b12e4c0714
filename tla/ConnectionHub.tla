--------------------------- MODULE ConnectionHub ---------------------------
(***************************************************************************)
(* The WebSocket sessions of one user and everything that ends them:       *)
(*   framework/streaming/hub.py             ConnectionHub                  *)
(*   framework/streaming/notifications.py   the cg.notify handler          *)
(*   infrastructure/streaming/redis_connection_registry.py  the Lua scripts *)
(*   api/v1/websocket/streaming.py          the endpoint's life cycle      *)
(*   api/health.py                          POST /health/drain             *)
(*                                                                         *)
(* Routing is a process's own; the cap is counted in Redis, one entry per  *)
(* connection, and an entry that is not renewed for Ttl stops counting.    *)
(* Entries carry their age, so that no clock runs away: a script that      *)
(* evicts takes out what is Ttl old.  A Redis call is short against a tick, *)
(* so time stands still while an admission or a renewal is under way.      *)
(***************************************************************************)
EXTENDS Naturals, Sequences, FiniteSets

CONSTANTS
  Process,     \* gunicorn workers, of every replica
  Session,     \* connection attempts
  Home,        \* [Session -> Process]: who accepted the socket
  Cap,         \* Limits.ws_connections_per_user
  Ttl,         \* entry_ttl_s
  RenewEvery,  \* renew_interval_s
  QueueSize,   \* session_queue_size
  MaxEvents,   \* [Process -> Nat], a bound: notifications it dispatches
  MaxFaults    \* bound: lost registry calls and dead processes

ASSUME HubAssumption ==
  /\ Home \in [Session -> Process] /\ IsFiniteSet(Session)
  /\ Cap \in Nat /\ QueueSize \in Nat \ {0} /\ MaxEvents \in [Process -> Nat] /\ MaxFaults \in Nat
  /\ Ttl \in Nat /\ RenewEvery \in Nat \ {0}
  \* hub.py, DEFAULT_ENTRY_TTL_S: room for the renewals that may be missed.
  /\ (MaxFaults + 1) * RenewEvery < Ttl

VARIABLES
  up,         \* SUBSET Process
  stage,      \* [Session -> where its endpoint stands]
  open,       \* SUBSET Session: sockets that are not closed
  routed,     \* SUBSET Session: _by_workspace
  boxes,      \* SUBSET Session: _outboxes
  queue,      \* [Session -> the payloads its outbox holds]
  sending,    \* [Session -> the payload inside send_json, 0 for none]
  wire,       \* [Session -> what its peer was sent]
  first,      \* [Session -> the event number at its registration]
  drained,    \* [Session -> how far its share of the drain is]
  draining,   \* SUBSET Process: app.state.draining
  kick,       \* [Process -> the sessions disconnect_user has still to close]
  age,        \* [Session -> its entry's age, Ttl + 1 when it has none]
  since,      \* [Process -> time since its last renewal]
  renewing,   \* [Process -> the slots of the renewal under way]
  pos,        \* [Process -> events its cg.notify group has dispatched]
  faults

local == <<open, routed, boxes, queue, sending, wire, first, drained, draining, kick>>
clocks == <<since, renewing>>
hubVars == <<up, stage, local, age, clocks, pos, faults>>

None == Ttl + 1
Fault == faults < MaxFaults /\ faults' = faults + 1
Goto(s, where) == stage' = [stage EXCEPT ![s] = where]
Here(p) == {s \in Session : Home[s] = p}

\* _slots.
Slots(p) == {s \in Here(p) : stage[s] = "live"}

HubInit ==
  /\ up = Process
  /\ stage = [s \in Session |-> "new"] /\ open = Session
  /\ routed = {} /\ boxes = {}
  /\ queue = [s \in Session |-> <<>>] /\ sending = [s \in Session |-> 0]
  /\ wire = [s \in Session |-> <<>>] /\ first = [s \in Session |-> 0]
  /\ drained = [s \in Session |-> "no"]
  /\ draining = {} /\ kick = [p \in Process |-> {}]
  /\ age = [s \in Session |-> None]
  /\ since = [p \in Process |-> 0] /\ renewing = [p \in Process |-> {}]
  /\ pos = [p \in Process |-> 0] /\ faults = 0

-----------------------------------------------------------------------------
(* RedisWsConnectionRegistry: one Lua script is one step.                  *)

\* ZREMRANGEBYSCORE -inf now-ttl.
Evicted == [s \in Session |-> IF age[s] >= Ttl THEN None ELSE age[s]]
Members(entry) == {s \in Session : entry[s] # None}

\* Mutant of TryAcquire: the count is read before the dead entries are evicted.
TryAcquireUncounted(s) ==
  age' = [Evicted EXCEPT ![s] = 0]

\* _ACQUIRE_LUA: evict, check, add.
TryAcquire(s) ==
  Cardinality(Members(Evicted)) < Cap /\ age' = [Evicted EXCEPT ![s] = 0]

\* _RENEW_LUA: evict, then ZADD XX GT.
Renew(held) ==
  age' = [s \in Session |-> IF s \in held /\ Evicted[s] # None THEN 0 ELSE Evicted[s]]

-----------------------------------------------------------------------------
(* Admission and teardown: _Connection.run, try_register, unregister.      *)

\* The handshake did not authenticate, or the client left before.
Rejected(s) ==
  /\ stage[s] = "new" /\ Home[s] \in up
  /\ Goto(s, "over") /\ open' = open \ {s}
  /\ UNCHANGED <<up, routed, boxes, queue, sending, wire, first, drained, draining,
                 kick, age, clocks, pos, faults>>

\* try_register's registry call, which may also fail: refused either way.
Acquire(s) ==
  /\ stage[s] = "new" /\ Home[s] \in up
  /\ \/ TryAcquire(s) /\ Goto(s, "admitted") /\ UNCHANGED <<open, faults>>
     \/ /\ Cardinality(Members(Evicted)) >= Cap /\ age' = Evicted
        /\ Goto(s, "over") /\ open' = open \ {s} /\ UNCHANGED faults
     \/ /\ Fault /\ age' \in {age, [Evicted EXCEPT ![s] = 0]}
        /\ age' # age => Cardinality(Members(Evicted)) < Cap
        /\ Goto(s, "over") /\ open' = open \ {s}
  /\ UNCHANGED <<up, routed, boxes, queue, sending, wire, first, drained, draining,
                 kick, clocks, pos>>

\* The answer arrives: routed, with a slot and an outbox.
Register(s) ==
  /\ stage[s] = "admitted"
  /\ Goto(s, "live")
  /\ routed' = routed \cup {s} /\ boxes' = boxes \cup {s}
  /\ first' = [first EXCEPT ![s] = pos[Home[s]]]
  /\ UNCHANGED <<up, open, queue, sending, wire, drained, draining, kick, age,
                 clocks, pos, faults>>

\* The socket is over: the client goes, the transport dies, or a close frame of
\* ours (an eviction's, a disconnect's, a drain's) goes out before its timeout.
SocketEnds(s) ==
  /\ stage[s] \in {"admitted", "live"} /\ s \in open
  /\ open' = open \ {s}
  /\ UNCHANGED <<up, stage, routed, boxes, queue, sending, wire, first, drained,
                 draining, kick, age, clocks, pos, faults>>

\* An ended session: what a drain or a disconnect still does to it has no
\* effect, and what it was sent is history.
Forget(gone) ==
  /\ queue' = [s \in Session |-> IF s \in gone THEN <<>> ELSE queue[s]]
  /\ sending' = [s \in Session |-> IF s \in gone THEN 0 ELSE sending[s]]
  /\ wire' = [s \in Session |-> IF s \in gone THEN <<>> ELSE wire[s]]
  /\ first' = [s \in Session |-> IF s \in gone THEN 0 ELSE first[s]]
  /\ drained' = [s \in Session |-> IF s \in gone THEN "no" ELSE drained[s]]
  /\ kick' = [p \in Process |-> kick[p] \ gone]

\* _close_outbox: the sender is cancelled inside its write, or between two.
CloseOutbox(s) ==
  /\ boxes' = boxes \ {s}
  /\ queue' = [queue EXCEPT ![s] = <<>>]
  /\ sending' = [sending EXCEPT ![s] = 0]
  /\ wire' \in {wire} \cup
       (IF s \in boxes /\ sending[s] # 0 /\ s \in open
          THEN {[wire EXCEPT ![s] = Append(@, sending[s])]} ELSE {})

\* Mutant of Unregister: "registered" means routed, so an evicted session
\* finds nothing to release.
UnregisterRouted(s) ==
  /\ stage[s] = "live" /\ s \notin open
  /\ routed' = routed \ {s}
  /\ Goto(s, IF s \in routed THEN "releasing" ELSE "over")
  /\ IF s \in routed THEN UNCHANGED <<boxes, queue, sending, wire>> ELSE CloseOutbox(s)
  /\ UNCHANGED <<up, open, first, drained, draining, kick, age, clocks, pos, faults>>

\* The endpoint's finally, once receive says that the socket is gone: routing
\* and the slot first, in one go; then the release, on the wire.
Unregister(s) ==
  /\ stage[s] = "live" /\ s \notin open
  /\ routed' = routed \ {s}
  /\ Goto(s, "releasing")
  /\ UNCHANGED <<up, open, boxes, queue, sending, wire, first, drained, draining,
                 kick, age, clocks, pos, faults>>

\* ZREM, or a failure that is logged; the outbox last.
Release(s) ==
  /\ stage[s] = "releasing"
  /\ \/ age' = [age EXCEPT ![s] = None] /\ UNCHANGED faults
     \/ Fault /\ UNCHANGED age
  /\ boxes' = boxes \ {s} /\ Forget({s}) /\ Goto(s, "over")
  /\ UNCHANGED <<up, open, routed, draining, clocks, pos>>

-----------------------------------------------------------------------------
(* Notifications.                                                          *)

Full(s) == s \in routed \cap boxes /\ Len(queue[s]) >= QueueSize

\* Mutant of Overflow: a full outbox drops the payload and stays.
OverflowDrops(p) ==
  /\ UNCHANGED <<routed, boxes, sending>>

\* _evict: out of the routing and without a sender before anything is awaited;
\* the close runs as a task of its own.
Overflow(p) ==
  LET slow == {s \in Here(p) : Full(s)}
  IN /\ routed' = routed \ slow /\ boxes' = boxes \ slow
     /\ sending' = [s \in Session |-> IF s \in slow THEN 0 ELSE sending[s]]

\* notify: no await between the first put_nowait and the last.  A sender that
\* is cancelled in its write may have written.
Notify(p) ==
  /\ p \in up /\ pos[p] < MaxEvents[p]
  /\ pos' = [pos EXCEPT ![p] = @ + 1]
  /\ Overflow(p)
  /\ LET to == {s \in Here(p) : s \in routed \cap boxes}
     IN /\ queue' = [s \in Session |-> IF s \in to /\ Len(queue[s]) < QueueSize
                                         THEN Append(queue[s], pos[p] + 1)
                                       ELSE IF s \in to /\ s \notin boxes' THEN <<>>
                                       ELSE queue[s]]
        /\ \E out \in SUBSET {s \in to : Full(s) /\ sending[s] # 0 /\ s \in open
                                          /\ s \notin boxes'} :
             wire' = [s \in Session |-> IF s \in out THEN Append(wire[s], sending[s])
                                        ELSE wire[s]]
  /\ UNCHANGED <<up, stage, open, first, drained, draining, kick, age, clocks, faults>>

\* _drain, the sender: takes the next payload.
Take(s) ==
  /\ s \in boxes /\ sending[s] = 0 /\ queue[s] # <<>>
  /\ sending' = [sending EXCEPT ![s] = Head(queue[s])]
  /\ queue' = [queue EXCEPT ![s] = Tail(@)]
  /\ UNCHANGED <<up, stage, open, routed, boxes, wire, first, drained, draining,
                 kick, age, clocks, pos, faults>>

\* send_json returns, or raises on a dead socket, which is logged.
Sent(s) ==
  /\ s \in boxes /\ sending[s] # 0
  /\ wire' = IF s \in open THEN [wire EXCEPT ![s] = Append(@, sending[s])] ELSE wire
  /\ sending' = [sending EXCEPT ![s] = 0]
  /\ UNCHANGED <<up, stage, open, routed, boxes, queue, first, drained, draining,
                 kick, age, clocks, pos, faults>>

-----------------------------------------------------------------------------
(* disconnect_user and the drain.                                          *)

\* The sessions routed now, one after the other.
Disconnect(p) ==
  /\ p \in up /\ kick[p] = {} /\ Slots(p) \cap routed # {}
  /\ kick' = [kick EXCEPT ![p] = Slots(p) \cap routed]
  /\ UNCHANGED <<up, stage, open, routed, boxes, queue, sending, wire, first,
                 drained, draining, age, clocks, pos, faults>>

KickOne(p) ==
  /\ \E s \in kick[p] : kick' = [kick EXCEPT ![p] = @ \ {s}] /\ CloseOutbox(s)
  /\ UNCHANGED <<up, stage, open, routed, first, drained, draining, age, clocks, pos, faults>>

\* POST /health/drain, once: a task for every session routed now.
Drain(p) ==
  /\ p \in up \ draining
  /\ draining' = draining \cup {p}
  /\ drained' = [s \in Session |-> IF s \in routed /\ Home[s] = p THEN "delay" ELSE drained[s]]
  /\ UNCHANGED <<up, stage, open, routed, boxes, queue, sending, wire, first, kick,
                 age, clocks, pos, faults>>

\* _drain_one: its delay, the flush, which ends or times out, and then as
\* _evict does.  What the close
\* achieves is SocketEnds.
DrainDelay(s) ==
  /\ drained[s] = "delay" /\ s \in boxes
  /\ drained' = [drained EXCEPT ![s] = "flush"]
  /\ UNCHANGED <<up, stage, open, routed, boxes, queue, sending, wire, first,
                 draining, kick, age, clocks, pos, faults>>

DrainCut(s) ==
  /\ \/ drained[s] = "delay" /\ s \notin boxes
     \/ drained[s] = "flush"
  /\ drained' = [drained EXCEPT ![s] = "done"]
  /\ routed' = routed \ {s} /\ CloseOutbox(s)
  /\ UNCHANGED <<up, stage, open, first, draining, kick, age, clocks, pos, faults>>

-----------------------------------------------------------------------------
(* Renewal, time and crashes.                                              *)

\* renew_once: a snapshot of the slots, then one call for all of them.
RenewStart(p) ==
  /\ p \in up /\ since[p] = RenewEvery /\ renewing[p] = {}
  /\ renewing' = [renewing EXCEPT ![p] = Slots(p)]
  /\ since' = [since EXCEPT ![p] = IF Slots(p) = {} THEN 0 ELSE @]
  /\ UNCHANGED <<up, stage, local, age, pos, faults>>

RenewEnd(p) ==
  /\ renewing[p] # {}
  /\ \/ Renew(renewing[p]) /\ UNCHANGED faults
     \/ Fault /\ UNCHANGED age
  /\ renewing' = [renewing EXCEPT ![p] = {}] /\ since' = [since EXCEPT ![p] = 0]
  /\ UNCHANGED <<up, stage, local, pos>>

Tick ==
  /\ \A p \in up : since[p] < RenewEvery
  /\ \A s \in Session : stage[s] # "admitted"
  /\ age' = [s \in Session |-> IF age[s] < Ttl THEN age[s] + 1 ELSE age[s]]
  /\ since' = [p \in Process |-> IF p \in up THEN since[p] + 1 ELSE 0]
  /\ UNCHANGED <<up, stage, local, renewing, pos, faults>>

\* The process dies with its sockets and its maps.
Crash(p) ==
  /\ p \in up /\ Fault /\ up' = up \ {p}
  /\ stage' = [s \in Session |-> IF Home[s] = p THEN "over" ELSE stage[s]]
  /\ open' = open \ Here(p) /\ routed' = routed \ Here(p) /\ boxes' = boxes \ Here(p)
  /\ Forget(Here(p)) /\ draining' = draining \ {p}
  /\ since' = [since EXCEPT ![p] = 0] /\ renewing' = [renewing EXCEPT ![p] = {}]
  /\ UNCHANGED <<age, pos>>

-----------------------------------------------------------------------------

HubNext ==
  \/ \E s \in Session :
       \/ Rejected(s) \/ Acquire(s) \/ Register(s) \/ SocketEnds(s)
       \/ Unregister(s) \/ Release(s) \/ Take(s) \/ Sent(s)
       \/ DrainDelay(s) \/ DrainCut(s)
  \/ \E p \in Process :
       \/ Notify(p) \/ Disconnect(p) \/ KickOne(p) \/ Drain(p)
       \/ RenewStart(p) \/ RenewEnd(p) \/ Crash(p)
  \/ Tick

HubSpec == HubInit /\ [][HubNext]_hubVars

-----------------------------------------------------------------------------
(* Properties.                                                             *)

\* The cap holds across processes: with renewals as punctual as the entry's
\* life allows for, a live socket is always counted, so a user never has more
\* than Cap of them.
LiveWithinCap ==
  /\ \A s \in Session : stage[s] \in {"admitted", "live"} => age[s] < Ttl
  /\ Cardinality({s \in Session : stage[s] \in {"admitted", "live"}}) <= Cap

\* What a peer gets is what happened since it registered, in order and without
\* a hole, until it gets nothing any more: nothing is dropped for a session
\* that is still served.
NoSilentGap ==
  \A s \in Session :
    /\ wire[s] = [i \in 1..Len(wire[s]) |-> first[s] + i]
    /\ s \in routed \cap boxes /\ s \in open =>
         Len(wire[s]) + (IF sending[s] # 0 THEN 1 ELSE 0) + Len(queue[s])
           = pos[Home[s]] - first[s]

\* However the session ended, its slot is released, not left to age out,
\* unless a registry call or the process was lost.
NothingLeaks ==
  faults = 0 => \A s \in Session : stage[s] = "over" => age[s] = None

-----------------------------------------------------------------------------
(* The invariants the proofs carry.                                        *)

\* The registry, the routing and the renewals; the outboxes.
HubTypes ==
  /\ up \subseteq Process /\ faults \in 0..MaxFaults
  /\ stage \in [Session -> {"new", "admitted", "live", "releasing", "over"}]
  /\ open \subseteq Session /\ routed \subseteq Session /\ boxes \subseteq Session
  /\ age \in [Session -> 0..None]
  /\ since \in [Process -> 0..RenewEvery] /\ renewing \in [Process -> SUBSET Session]

OutboxTypes ==
  /\ queue \in [Session -> Seq(Nat)] /\ sending \in [Session -> Nat]
  /\ wire \in [Session -> Seq(Nat)] /\ first \in [Session -> Nat]
  /\ pos \in [Process -> Nat] /\ kick \in [Process -> SUBSET Session]

\* Who counts: an attempt that has not asked does not, and those who do fit the cap.
Counted == {s \in Session : age[s] < Ttl}
EntriesFit ==
  /\ Cardinality(Counted) <= Cap
  /\ \A s \in Session : stage[s] = "new" => age[s] = None

Admitted(s) == stage[s] \in {"admitted", "live"}

\* An entry is no older than the time since its process last renewed and the renewals
\* that were lost.  Time stands still during an admission and a renewal, so what a
\* renewal under way does not cover is as young as that.
RenewedInTime ==
  /\ \A p \in Process : renewing[p] # {} => p \in up /\ since[p] = RenewEvery
  /\ \A s \in Session :
       /\ Admitted(s) => /\ Home[s] \in up
                         /\ age[s] <= faults * RenewEvery + since[Home[s]]
       /\ stage[s] = "admitted" => age[s] = 0
       /\ (stage[s] = "live" /\ renewing[Home[s]] # {} /\ s \notin renewing[Home[s]])
            => age[s] = 0

InHand(s) == IF sending[s] # 0 THEN 1 ELSE 0

\* What the sender holds and what its outbox holds continue what the peer was sent.
InOrder(s) ==
  /\ s \notin boxes => sending[s] = 0 /\ queue[s] = <<>>
  /\ stage[s] \in {"new", "admitted"} => wire[s] = <<>> /\ s \notin boxes \cup routed
  /\ s \in boxes \cap open =>
       /\ sending[s] # 0 => sending[s] = first[s] + Len(wire[s]) + 1
       /\ \A i \in 1..Len(queue[s]) : queue[s][i] = first[s] + Len(wire[s]) + InHand(s) + i

OutboxesInOrder == \A s \in Session : InOrder(s)

RegistryInv == HubTypes /\ EntriesFit /\ RenewedInTime /\ NothingLeaks
OutboxInv == OutboxTypes /\ OutboxesInOrder /\ NoSilentGap
============================================================================
