----------------------------- MODULE EventReplay -----------------------------
(***************************************************************************)
(* What brings back an event that Redis lost, and what must not happen     *)
(* twice because of it:                                                    *)
(*   ops/replay.py      published outbox rows put back on their stream     *)
(*   ops/dlq.py         dead letters put back or purged by hand            *)
(*   ops/retention.py   the ledger and the outbox forgetting old rows      *)
(* around one stream and its one durable group, which handles every type   *)
(* modelled (framework/events/topology.py).                                *)
(*                                                                         *)
(* The relay and the worker are here as far as these tools see them: an    *)
(* XADD and a published_at some time later, a pending list, a claim        *)
(* committed with its effect, an XACK.  Redis may lose its newest entries  *)
(* or everything, its groups included; a group that is missing is created  *)
(* again at the tail.  The replay reads the outbox, the ledger, the group, *)
(* its pending list, the stream and the dead letters one after the other,  *)
(* while everybody else goes on.                                           *)
(*                                                                         *)
(* A tick is a day or so: longer than any delivery is under way, and no    *)
(* run of the replay outlives MaxLinger of them.                           *)
(***************************************************************************)
EXTENDS Integers, FiniteSets

CONSTANTS
  Event,       \* event ids, in the order that breaks ties of created_at
  LedgerKeep,  \* PROCESSED_EVENTS_RETENTION
  OutboxKeep,  \* OUTBOX_RETENTION
  MaxLinger,   \* ticks a run of the replay may last
  MaxLen,      \* STREAM_MAXLEN, the backstop of every publish
  MaxClock, MaxEntries, MaxLosses, MaxRuns  \* bounds

ASSUME EventAssumption == Event \subseteq Nat /\ IsFiniteSet(Event)
\* The ledger remembers a claim for longer than a run of the replay lasts.
ASSUME KeepAssumption ==
  LedgerKeep \in Nat /\ OutboxKeep \in Nat /\ MaxLinger \in Nat /\ MaxLinger <= LedgerKeep
ASSUME BoundAssumption ==
  /\ MaxLen \in Nat \ {0} /\ MaxClock \in Nat /\ MaxEntries \in Nat
  /\ MaxLosses \in Nat /\ MaxRuns \in Nat

VARIABLES
  clock,
  row,      \* [Event -> [state, created, published]]: platform.outbox
  processed,   \* [Event -> processed_at or Never]: the group's claims
  redis,    \* the stream, its group and its dead letters
  nextId,   \* the next stream id
  busy,     \* SUBSET Event: the event a handler is at, if any
  tool,     \* the replay's run: where it is and what it has read
  effects,  \* [Event -> Nat]: history, committed effects
  settled,  \* SUBSET Event: history, acted upon or purged
  cut,      \* SUBSET Event: history, an owed copy was cut by somebody's backstop
  raced,    \* SUBSET Event: history, selected by a run a sweep overtook
  losses, runs

stores == <<row, processed>>
streamVars == <<redis, nextId>>
historyVars == <<effects, settled, cut, raced>>
replayVars == <<clock, stores, streamVars, busy, tool, historyVars, losses, runs>>

Never == -1
Flushed == [log |-> {}, made |-> FALSE, cursor |-> 0, pel |-> {}, dlq |-> {}]

NoRun ==
  [at |-> "idle", now |-> 0, rows |-> {}, wanted |-> {}, made |-> FALSE,
   cursor |-> 0, pel |-> {}, todo |-> {},
   swept |-> FALSE,      \* history: a ledger sweep since now
   disturbed |-> FALSE,  \* history: Redis lost something, or a dead letter moved
   crowded |-> FALSE]    \* history: somebody else published since XLEN

ReplayInit ==
  /\ clock = 0
  /\ row = [e \in Event |-> [state |-> "none", created |-> Never, published |-> Never]]
  /\ processed = [e \in Event |-> Never]
  /\ redis = [Flushed EXCEPT !.made = TRUE]
  /\ nextId = 1
  /\ busy = {}
  /\ tool = NoRun
  /\ effects = [e \in Event |-> 0]
  /\ settled = {} /\ cut = {} /\ raced = {}
  /\ losses = 0 /\ runs = 0

-----------------------------------------------------------------------------
(* Redis.                                                                  *)

Ids(S) == {x.id : x \in S}
Tail == IF redis.log = {} THEN 0
        ELSE CHOOSE i \in Ids(redis.log) : \A j \in Ids(redis.log) : j <= i

\* An entry its group will still be handed: past its cursor, or pending.
Owes(made, cursor, pel, x) == made /\ (x.id > cursor \/ x.id \in pel)

OwedIn(log, r) == {x.ev : x \in {y \in log : Owes(r.made, r.cursor, r.pel, y)}}
Owed == OwedIn(redis.log, redis)

\* XADD: the `head` oldest entries are cut when the publisher gives MAXLEN; with
\* ~ Redis may leave them.
Xadd(e, head) ==
  LET oldest == {x \in redis.log : Cardinality({y \in redis.log : y.id < x.id}) < head}
      log == (redis.log \ oldest) \cup {[id |-> nextId, ev |-> e]}
  IN
    /\ nextId <= MaxEntries
    /\ nextId' = nextId + 1
    /\ redis' = [redis EXCEPT !.log = log]

Excess == IF Cardinality(redis.log) < MaxLen THEN 0
          ELSE Cardinality(redis.log) + 1 - MaxLen

\* XGROUP CREATE .. $ MKSTREAM; BUSYGROUP when the group is there.
WithGroup ==
  IF redis.made THEN redis
  ELSE [redis EXCEPT !.made = TRUE, !.cursor = Tail, !.pel = {}]

\* History of the current run, if there is one.
Disturbed == IF tool.at = "idle" THEN tool ELSE [tool EXCEPT !.disturbed = TRUE]
Crowded(t) == IF t.at \in {"payloads", "publish"} THEN [t EXCEPT !.crowded = TRUE] ELSE t
Swept == IF tool.at = "claims" THEN [tool EXCEPT !.swept = TRUE] ELSE tool

\* Redis as a truncated append-only file gives it back.
UpTo(last) ==
  [redis EXCEPT !.log = {x \in @ : x.id <= last},
                !.cursor = IF @ > last THEN last ELSE @,
                !.pel = {i \in @ : i <= last}]

\* A restart that lost the last second, a flush, a lost volume.
Lose ==
  /\ losses < MaxLosses
  /\ losses' = losses + 1
  /\ redis' \in {Flushed} \cup {UpTo(i) : i \in Ids(redis.log)}
  /\ redis' # redis
  /\ tool' = Disturbed
  /\ UNCHANGED <<clock, stores, nextId, busy, historyVars, runs>>

-----------------------------------------------------------------------------
(* Producers and the relay.                                                *)

\* A unit of work commits its event.
Commit(e) ==
  /\ row[e].state = "none"
  /\ row' = [row EXCEPT ![e].state = "new", ![e].created = clock]
  /\ UNCHANGED <<clock, processed, streamVars, busy, tool, historyVars, losses, runs>>

Earlier(d, e) ==
  \/ row[d].created < row[e].created
  \/ row[d].created = row[e].created /\ d < e

First(S) == CHOOSE e \in S : \A d \in S : d # e => Earlier(e, d)

\* The relay XADDs the oldest row without published_at and marks it; OutboxRelay
\* has the steps between.
Publish ==
  LET unpublished == {e \in Event : row[e].state = "new"}
      e == First(unpublished)
  IN
    /\ unpublished # {}
    /\ \E head \in {0, Excess} :
         /\ Xadd(e, head)
         /\ cut' = cut \cup (Owed \ OwedIn(redis'.log, redis'))
    /\ row' = [row EXCEPT ![e].state = "published", ![e].published = clock]
    /\ tool' = Crowded(tool)
    /\ UNCHANGED <<clock, processed, busy, effects, settled, raced, losses, runs>>

-----------------------------------------------------------------------------
(* The worker.  A delivery that fails leaves its entry pending; a pending  *)
(* id whose entry is gone holds no event and is StreamConsumer's.          *)

\* setup, on boot or after a read that found no group.
EnsureGroup ==
  /\ ~redis.made
  /\ redis' = WithGroup
  /\ UNCHANGED <<clock, stores, nextId, busy, tool, historyVars, losses, runs>>

\* XREADGROUP: a pending entry again, or the next one past the cursor.
Read(x) ==
  /\ busy = {} /\ redis.made
  /\ \/ x.id \in redis.pel /\ UNCHANGED redis
     \/ /\ x.id > redis.cursor
        /\ \A y \in redis.log : y.id > redis.cursor => x.id <= y.id
        /\ redis' = [redis EXCEPT !.cursor = x.id, !.pel = @ \cup {x.id}]
  /\ busy' = {x.ev}
  /\ UNCHANGED <<clock, stores, nextId, tool, historyVars, losses, runs>>

\* The effect and its claim commit together, unless the claim exists.
Handle(e) ==
  /\ e \in busy
  /\ busy' = {}
  /\ IF processed[e] # Never
     THEN UNCHANGED <<processed, effects, settled>>
     ELSE /\ processed' = [processed EXCEPT ![e] = clock]
          /\ effects' = [effects EXCEPT ![e] = @ + 1]
          /\ settled' = settled \cup {e}
  /\ UNCHANGED <<clock, row, streamVars, tool, cut, raced, losses, runs>>

\* The handler fails, or the process dies.
Drop ==
  /\ busy # {}
  /\ busy' = {}
  /\ UNCHANGED <<clock, stores, streamVars, tool, historyVars, losses, runs>>

\* XACK of a pending entry that has been handled.
Ack(x) ==
  /\ x.id \in redis.pel /\ x.ev \notin busy /\ processed[x.ev] # Never
  /\ redis' = [redis EXCEPT !.pel = @ \ {x.id}]
  /\ UNCHANGED <<clock, stores, nextId, busy, tool, historyVars, losses, runs>>

\* The last delivery fails: XADD .dlq and XACK in one MULTI.
DeadLetter(x) ==
  /\ x.id \in redis.pel /\ x.ev \in busy /\ processed[x.ev] = Never
  /\ redis' = [redis EXCEPT !.pel = @ \ {x.id}, !.dlq = @ \cup {x.ev}]
  /\ busy' = {}
  /\ UNCHANGED <<clock, stores, nextId, tool, historyVars, losses, runs>>

-----------------------------------------------------------------------------
(* ops/dlq.py.                                                             *)

\* Copy a dead letter back onto its stream, where it stays a dead letter too; the
\* operator gets to it while the ledger remembers what has happened since.
Requeue(e) ==
  /\ clock - row[e].created <= LedgerKeep
  /\ Xadd(e, 0)
  /\ tool' = Crowded(Disturbed)
  /\ UNCHANGED <<clock, stores, busy, historyVars, losses, runs>>

\* XDEL: the operator's word that the event is dealt with.
Purge(e) ==
  /\ redis' = [redis EXCEPT !.dlq = @ \ {e}]
  /\ settled' = settled \cup {e}
  /\ UNCHANGED <<clock, stores, nextId, busy, tool, effects, cut, raced, losses, runs>>

-----------------------------------------------------------------------------
(* ops/retention.py, each table in a transaction of its own.               *)

SweepLedger ==
  LET old == {e \in Event : processed[e] # Never /\ processed[e] < clock - LedgerKeep} IN
  /\ old # {}
  /\ processed' = [e \in Event |-> IF e \in old THEN Never ELSE processed[e]]
  /\ tool' = Swept
  /\ UNCHANGED <<clock, row, streamVars, busy, historyVars, losses, runs>>

SweepOutbox ==
  LET old == {e \in Event : row[e].state = "published"
                            /\ row[e].published < clock - OutboxKeep} IN
  /\ old # {}
  /\ row' = [e \in Event |-> IF e \in old THEN [row[e] EXCEPT !.state = "swept"]
                             ELSE row[e]]
  /\ UNCHANGED <<clock, processed, streamVars, busy, tool, historyVars, losses, runs>>

-----------------------------------------------------------------------------
(* ops/replay.py: run_replay.                                              *)

Reading == UNCHANGED <<clock, stores, nextId, busy, effects, settled, cut, losses>>

\* Mutant of Start: the groups are left to the workers.
StartWithoutGroups ==
  /\ tool.at = "idle" /\ runs < MaxRuns
  /\ runs' = runs + 1
  /\ tool' = [NoRun EXCEPT !.at = "select"]
  /\ Reading /\ UNCHANGED <<redis, raced>>

\* ensure_groups, before anything is selected.
Start ==
  /\ tool.at = "idle" /\ runs < MaxRuns
  /\ runs' = runs + 1
  /\ redis' = WithGroup
  /\ tool' = [NoRun EXCEPT !.at = "select"]
  /\ Reading /\ UNCHANGED raced

\* now(), and _select_candidates: rows published since the operator's date, by
\* default the horizon.
Select(since) ==
  /\ tool.at = "select"
  /\ tool' = [tool EXCEPT
       !.at = "claims", !.now = clock,
       !.rows = {e \in Event : row[e].state = "published"
                               /\ row[e].published >= since /\ row[e].published < clock}]
  /\ Reading /\ UNCHANGED <<redis, raced, runs>>

\* _attach_claims: what the group has not claimed, a statement later.  Redis is
\* only asked about those.
AttachClaims ==
  LET missing == {e \in tool.rows : processed[e] = Never} IN
  /\ tool.at = "claims"
  /\ tool' = [tool EXCEPT !.at = IF missing = {} THEN "publish" ELSE "group",
                          !.swept = FALSE, !.wanted = missing]
  /\ raced' = IF tool.swept THEN raced \cup tool.rows ELSE raced
  /\ Reading /\ UNCHANGED <<redis, runs>>

\* _group_states, read_stream_snapshot: the group's cursor.
GroupState ==
  /\ tool.at = "group"
  /\ tool' = [tool EXCEPT !.at = "pending", !.made = redis.made,
                          !.cursor = redis.cursor]
  /\ Reading /\ UNCHANGED <<redis, raced, runs>>

\* Mutant of PendingState: only what lies past the cursor is looked at.
PendingOverlooked ==
  /\ tool.at = "pending"
  /\ tool' = [tool EXCEPT !.at = "scan"]
  /\ Reading /\ UNCHANGED <<redis, raced, runs>>

\* _group_states, XPENDING over the whole list.
PendingState ==
  /\ tool.at = "pending"
  /\ tool' = [tool EXCEPT !.at = "scan", !.pel = redis.pel]
  /\ Reading /\ UNCHANGED <<redis, raced, runs>>

\* _scan of the stream: copies the group still owes an effect to.
Scan ==
  /\ tool.at = "scan"
  /\ tool' = [tool EXCEPT !.at = "dlq", !.made = FALSE, !.cursor = 0, !.pel = {},
                          !.wanted = @ \ OwedIn(redis.log, tool)]
  /\ Reading /\ UNCHANGED <<redis, raced, runs>>

\* Mutant of Replayable: however old the row is.
ReplayableAnyAge(e) == e \in tool.wanted \ redis.dlq

\* classify: wanted, and neither owed nor dead-lettered nor older than the
\* ledger's memory.
Replayable(e) ==
  /\ e \in tool.wanted \ redis.dlq
  /\ row[e].created >= tool.now - LedgerKeep

\* _scan of the dead letters, and the verdicts.
ScanDlq ==
  /\ tool.at = "dlq"
  /\ LET todo == {e \in Event : Replayable(e)} IN
       tool' = [tool EXCEPT !.at = IF todo = {} THEN "publish" ELSE "length",
                            !.wanted = {}, !.todo = todo]
  /\ Reading /\ UNCHANGED <<redis, raced, runs>>

\* XLEN: a replay that would pass the backstop is refused.
Length ==
  /\ tool.at = "length"
  /\ tool' = IF Cardinality(redis.log) + Cardinality(tool.todo) > MaxLen THEN NoRun
             ELSE [tool EXCEPT !.at = "payloads"]
  /\ Reading /\ UNCHANGED <<redis, raced, runs>>

\* _payloads of the rows that are still there.
Payloads ==
  /\ tool.at = "payloads"
  /\ tool' = [tool EXCEPT !.at = "publish",
                          !.todo = {e \in @ : row[e].state = "published"}]
  /\ Reading /\ UNCHANGED <<redis, raced, runs>>

\* publish_plan: the next row, in the relay's order.
Republish ==
  LET e == First(tool.todo) IN
  /\ tool.at = "publish" /\ tool.todo # {}
  /\ \E head \in {0, Excess} :
       /\ Xadd(e, head)
       /\ cut' = IF tool.crowded
                 THEN cut \cup (Owed \ OwedIn(redis'.log, redis')) ELSE cut
  /\ tool' = [tool EXCEPT !.todo = @ \ {e}]
  /\ UNCHANGED <<clock, stores, busy, effects, settled, raced, losses, runs>>

\* A publish fails, with or without its entry on the stream: the run stops.
RepublishFails ==
  /\ tool.at = "publish" /\ tool.todo # {}
  /\ UNCHANGED streamVars \/ Xadd(First(tool.todo), 0)
  /\ tool' = NoRun
  /\ UNCHANGED <<clock, stores, busy, historyVars, losses, runs>>

Done == tool.at = "publish" /\ tool.todo = {}

Finish ==
  /\ Done
  /\ tool' = NoRun
  /\ UNCHANGED <<clock, stores, streamVars, busy, historyVars, losses, runs>>

-----------------------------------------------------------------------------

\* A day passes: what was owed is done, and no run is older than MaxLinger.
DayPasses ==
  /\ clock < MaxClock
  /\ Owed = {} /\ busy = {}
  /\ tool.at \notin {"idle", "select"} => clock - tool.now < MaxLinger
  /\ clock' = clock + 1
  /\ UNCHANGED <<stores, streamVars, busy, tool, historyVars, losses, runs>>

WorkerStep ==
  \/ EnsureGroup \/ Drop
  \/ \E e \in busy : Handle(e)
  \/ \E x \in redis.log : Read(x) \/ Ack(x) \/ DeadLetter(x)

ReplayStep ==
  \/ Start \/ AttachClaims \/ GroupState \/ PendingState \/ Scan \/ ScanDlq
  \/ Length \/ Payloads \/ Republish \/ RepublishFails \/ Finish
  \/ \E since \in 0..clock : Select(since)

ReplayNext ==
  \/ DayPasses \/ Lose \/ Publish \/ SweepLedger \/ SweepOutbox
  \/ WorkerStep \/ ReplayStep
  \/ \E e \in Event : Commit(e)
  \/ \E e \in redis.dlq : Requeue(e) \/ Purge(e)

ReplaySpec == ReplayInit /\ [][ReplayNext]_replayVars

-----------------------------------------------------------------------------
(* Properties.                                                             *)

\* replay.py, "sending it again is safe": whatever is lost, replayed, requeued
\* and forgotten, an event has its effect once, unless a sweep of the ledger
\* committed between a run's now() and its look at the claims.
SecondEffectNeedsARace == \A e \in Event : effects[e] <= 1 \/ e \in raced

\* A run that ends without an error leaves nothing behind: every row it selected
\* and the ledger can vouch for is settled, or the group will be handed it, or
\* it waits among the dead letters.  Redis must not have lost anything since the
\* run began, and what somebody else's publish pushed out is not the run's doing.
RunRecovers ==
  (Done /\ ~tool.disturbed) =>
    \A e \in tool.rows :
      \/ row[e].created < tool.now - LedgerKeep
      \/ row[e].state = "swept"
      \/ e \in settled \cup cut \cup Owed \cup redis.dlq

\* replay.py, "running it twice publishes nothing the second time": a run does
\* not send what the group is still owed, unless Redis fell back or a dead letter
\* was moved under it.
NoSecondCopy ==
  [][\A e \in Event :
       (tool.at = "publish" /\ e \in tool.todo \ tool'.todo /\ e \in Owed)
         => tool.disturbed]_replayVars

-----------------------------------------------------------------------------
(* The invariants the proofs carry.                                        *)

Times == Nat \cup {Never}
Phase == {"idle", "select", "claims", "group", "pending", "scan", "dlq", "length",
          "payloads", "publish"}

StoreTypes ==
  /\ clock \in Nat
  /\ row \in [Event -> [state : {"none", "new", "published", "swept"},
                        created : Times, published : Times]]
  /\ processed \in [Event -> Times] /\ effects \in [Event -> Nat]
  /\ busy \subseteq Event /\ settled \subseteq Event
  /\ \A e \in Event : row[e].state # "none" => row[e].created \in Nat /\ row[e].created <= clock

RunTypes ==
  tool \in [at : Phase, now : Nat, rows : SUBSET Event, wanted : SUBSET Event,
            made : BOOLEAN, cursor : Nat, pel : SUBSET Nat, todo : SUBSET Event,
            swept : BOOLEAN, disturbed : BOOLEAN, crowded : BOOLEAN]

\* Stream ids are unique and were given out; so was what the cursor points at.
StreamIds ==
  /\ redis \in [log : SUBSET [id : Nat, ev : Event], made : BOOLEAN, cursor : Nat,
                pel : SUBSET Nat, dlq : SUBSET Event]
  /\ IsFiniteSet(redis.log) /\ nextId \in Nat
  /\ \A x \in redis.log : x.id < nextId
  /\ \A x, y \in redis.log : x.id = y.id => x = y
  /\ redis.cursor < nextId

\* What a run has read so far, by where it stands.
RunPhases ==
  /\ tool.at \in {"idle", "select"} => tool.rows = {}
  /\ tool.at \notin {"group", "pending", "scan", "dlq"} => tool.wanted = {}
  /\ tool.at \notin {"length", "payloads", "publish"} => tool.todo = {}
  /\ tool.at \in {"idle", "select", "claims", "group", "pending"} => tool.pel = {}
  /\ tool.at \notin {"pending", "scan"} => ~tool.made
  /\ tool.wanted \cup tool.todo \subseteq tool.rows
  /\ tool.at \notin {"idle", "select"} =>
       tool.now <= clock /\ clock <= tool.now + MaxLinger

\* On the stream, in a handler, dead-lettered or selected: published once.
InFlight == Owed \cup busy
Sent == {e \in Event : row[e].state \in {"published", "swept"}}
SentOnce ==
  /\ InFlight \cup redis.dlq \cup tool.rows \subseteq Sent
  /\ \A e \in Event :
       /\ processed[e] # Never => /\ row[e].created <= processed[e] /\ processed[e] <= clock
                                  /\ effects[e] >= 1 /\ e \in settled
       /\ effects[e] >= 1 => e \in Sent

\* While a copy is in flight the claim is remembered, and what a run wants was claimed,
\* if at all, since the run began.
ClaimsAreFresh ==
  /\ \A e \in InFlight \ raced : processed[e] # Never => clock <= processed[e] + LedgerKeep
  /\ \A e \in tool.wanted \cup tool.todo : processed[e] # Never => tool.now <= processed[e]

\* An event whose claim was swept does not come back: it is too old for a requeue and
\* for a replay, except for a run that a sweep overtakes.
Forgotten == {e \in Event \ raced : effects[e] >= 1 /\ processed[e] = Never}
TooOld(e) == row[e].created < tool.now - LedgerKeep
ForgottenStayAway ==
  \A e \in Forgotten :
    /\ e \notin InFlight \cup tool.todo
    /\ row[e].created < clock - LedgerKeep
    /\ e \in tool.wanted => TooOld(e)
    /\ tool.at = "claims" /\ e \in tool.rows => tool.swept \/ TooOld(e)

Safe == settled \cup cut \cup Owed \cup redis.dlq

\* A run that nothing disturbed: the group is there, what it has read of the group and
\* the stream still holds, every row it selected is taken care of or on its list, and
\* nothing on the list is owed or would push an entry out.
RunIsSound ==
  (tool.at # "idle" /\ ~tool.disturbed) =>
    /\ redis.made
    /\ tool.at \in {"pending", "scan"} => tool.made /\ tool.cursor <= redis.cursor
    /\ tool.at = "scan" => \A i \in redis.pel : i \in tool.pel \/ i > tool.cursor
    /\ \A x \in redis.log : Owes(tool.made, tool.cursor, tool.pel, x) => x.ev \in Safe
    /\ tool.at # "claims" =>
         \A e \in tool.rows \ (tool.wanted \cup tool.todo) :
           TooOld(e) \/ row[e].state = "swept" \/ e \in Safe
    /\ tool.at \in {"dlq", "length", "payloads", "publish"} =>
         (tool.wanted \cup tool.todo) \cap Owed = {}
    /\ (tool.at \in {"payloads", "publish"} /\ tool.todo # {} /\ ~tool.crowded) =>
         Cardinality(redis.log) + Cardinality(tool.todo) <= MaxLen

ReplayTypes == StoreTypes /\ RunTypes /\ StreamIds /\ RunPhases

OnceInv ==
  /\ SentOnce /\ ClaimsAreFresh /\ ForgottenStayAway /\ SecondEffectNeedsARace
==============================================================================
