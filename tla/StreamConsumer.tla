---------------------------- MODULE StreamConsumer ----------------------------
(***************************************************************************)
(* One consumer group of one stream and the worker processes that read it: *)
(*   infrastructure/messaging/redis_streams.py       RedisStreamsConsumer  *)
(*   infrastructure/messaging/consumers/engine.py    StreamConsumer        *)
(*   infrastructure/messaging/consumers/sweeper.py   the stale sweep       *)
(*   infrastructure/persistence/processed_events.py  the DD-09 ledger      *)
(*   workers/lifecycle.py                            drain and deregister  *)
(*                                                                         *)
(* A process reads its own pending entries again (XREADGROUP 0), then new  *)
(* ones (XREADGROUP >), deals the batch into lanes by subject, runs one    *)
(* handler per lane at a time, and XACKs, leaves pending or dead-letters   *)
(* each entry.  A handler claims the event in the ledger inside its effect *)
(* transaction.  Between batches a process sweeps consumers it takes for   *)
(* dead: it claims their entries and deletes their name.  A name is        *)
(* <module>.<host>.<pid>, so a restarted process never reads under its     *)
(* predecessor's name.                                                     *)
(*                                                                         *)
(* Time advances in ticks.  An age counts ticks up to StaleIdle and stays  *)
(* there; a handler runs for at most HandlerTicks ticks; a Redis or        *)
(* database round trip is short against a tick.                            *)
(***************************************************************************)
EXTENDS LaneDealing

CONSTANTS
  Consumer,      \* consumer names, one per process incarnation
  Event,         \* event ids
  NumEntries,    \* entries the relay adds to the stream, numbered from 1
  EventOf,       \* [1..NumEntries -> Event]; not injective: duplicates
  SubjectOf,     \* [Event -> subject], the aggregate an event is about
  KindOf,        \* [1..NumEntries -> Kind]
  Cuttable,      \* entries the MAXLEN backstop may cut from the stream
  BatchCount,    \* COUNT of each of the two reads
  Concurrency,   \* lanes
  MaxDeliveries, \* max_retries_before_dlq
  HandlerTicks,  \* the longest run of one handler
  StaleIdle,     \* stale_idle_ms, the sweeper's death threshold
  MaxFaults,     \* bound: processes stopped, dying or killed, and a failed sweep more
  NoOne

Entry == 1..NumEntries
Kind == {"job", "other", "broken"}

ASSUME ConsumerAssumption == NoOne \notin Consumer /\ IsFiniteSet(Consumer)
ASSUME EntryAssumption ==
  /\ NumEntries \in Nat
  /\ EventOf \in [Entry -> Event]
  /\ KindOf \in [Entry -> Kind]
  /\ Cuttable \subseteq Entry
ASSUME BatchAssumption ==
  BatchCount \in Nat \ {0} /\ Concurrency \in Nat \ {0}
ASSUME LimitAssumption ==
  /\ MaxDeliveries \in Nat \ {0}
  /\ HandlerTicks \in Nat /\ StaleIdle \in Nat \ {0}
  /\ MaxFaults \in Nat

VARIABLES
  added,       \* entries XADDed so far
  gone,        \* SUBSET Entry: cut from the stream by the backstop
  cursor,      \* the group's last delivered entry
  owner,       \* [Entry -> Consumer or NoOne]: the pending entries list
  deliveries,  \* [Entry -> Nat]: times_delivered, capped at MaxDeliveries
  age,         \* [Entry -> 0..StaleIdle]: ticks since delivered or claimed
  registered,  \* SUBSET Consumer: names Redis lists in the group
  idle,        \* [Consumer -> 0..StaleIdle]: ticks since it last spoke
  acked, dlq,  \* SUBSET Entry
  dropped,     \* SUBSET Entry: pending entries Redis discarded
  ledger,      \* SUBSET Event: committed processed_events rows
  effects,     \* [Event -> Nat]: committed effect transactions
  pc,          \* [Consumer -> process state]
  stopping,    \* SUBSET Consumer: request_stop was called
  batch,       \* [Consumer -> Seq(message)]
  stat,        \* [Consumer -> Seq(message state)]
  ran,         \* [Consumer -> Seq(Nat)]: ticks a handler has been running
  sweep,       \* [Consumer -> the state of its sweep]
  faults

redisVars == <<added, gone, cursor, owner, deliveries, age, registered, idle,
               acked, dlq, dropped>>
pelVars == <<owner, deliveries, age>>
nameVars == <<registered, idle>>
endVars == <<acked, dlq, dropped>>
dbVars == <<ledger, effects>>
procVars == <<pc, stopping, batch, stat, ran, sweep>>
vars == <<redisVars, dbVars, procVars, faults>>

NoSweep == [phase |-> "none", todo |-> {}, owing |-> {}, ghost |-> NoOne]

Init ==
  /\ added = 0 /\ gone = {} /\ cursor = 0
  /\ owner = [e \in Entry |-> NoOne]
  /\ deliveries = [e \in Entry |-> 0]
  /\ age = [e \in Entry |-> 0]
  /\ registered = {}
  /\ idle = [c \in Consumer |-> 0]
  /\ acked = {} /\ dlq = {} /\ dropped = {}
  /\ ledger = {}
  /\ effects = [v \in Event |-> 0]
  /\ pc = [c \in Consumer |-> "unborn"]
  /\ stopping = {}
  /\ batch = [c \in Consumer |-> <<>>]
  /\ stat = [c \in Consumer |-> <<>>]
  /\ ran = [c \in Consumer |-> <<>>]
  /\ sweep = [c \in Consumer |-> NoSweep]
  /\ faults = 0

Pending == {e \in Entry : owner[e] # NoOne}
PendingOf(c) == {e \in Entry : owner[e] = c}

\* The n smallest members of a set of entries: COUNT n.
Oldest(S, n) == {e \in S : Cardinality({f \in S : f < e}) < n}

\* A set of entries as a sequence in entry order.
InOrder(S) ==
  [i \in 1..Cardinality(S) |->
     CHOOSE e \in S : Cardinality({f \in S : f < e}) = i - 1]

Capped(n) == IF n < MaxDeliveries THEN n ELSE MaxDeliveries
Older(t) == IF t < StaleIdle THEN t + 1 ELSE StaleIdle

-----------------------------------------------------------------------------
(* The stream.                                                             *)

\* The relay XADDs one more entry, and the publisher's MAXLEN backstop may cut
\* entries from the head of the stream in the same command.
Add ==
  /\ added < NumEntries
  /\ added' = added + 1
  /\ \E head \in {0} \cup (Cuttable \cap 1..added) :
       gone' = gone \cup 1..head
  /\ UNCHANGED <<cursor, pelVars, nameVars, endVars, dbVars, procVars, faults>>

-----------------------------------------------------------------------------
(* RedisStreamsConsumer.read and StreamConsumer.run.                       *)

Live(c) == pc[c] \notin {"unborn", "gone"}

\* The process boots and joins the loop; the group itself already exists.
Boot(c) ==
  /\ pc[c] = "unborn"
  /\ pc' = [pc EXCEPT ![c] = "ready"]
  /\ UNCHANGED <<redisVars, dbVars, stopping, batch, stat, ran, sweep, faults>>

Unread == {e \in (cursor + 1)..added : e \notin gone}

\* Something for c to read: its own pending entries or new ones.
HasWork(c) == PendingOf(c) # {} \/ Unread # {}

Touch(c) ==
  /\ registered' = registered \cup {c}
  /\ idle' = [idle EXCEPT ![c] = 0]

\* Mutant of ReadRecovered: pending entries are never read again.
ReadNothingBack(c) ==
  /\ pc[c] = "ready" /\ c \notin stopping
  /\ HasWork(c)
  /\ batch' = [batch EXCEPT ![c] = <<>>]
  /\ Touch(c)
  /\ pc' = [pc EXCEPT ![c] = "reading"]
  /\ UNCHANGED <<added, gone, cursor, pelVars, endVars, dbVars, stopping, stat,
                 ran, sweep, faults>>

\* XREADGROUP 0 COUNT n: own pending entries, oldest first, delivered once
\* more; an entry the stream dropped meanwhile comes back without fields.
ReadRecovered(c) ==
  /\ pc[c] = "ready" /\ c \notin stopping
  /\ HasWork(c)
  /\ LET got == Oldest(PendingOf(c), BatchCount) IN
       /\ deliveries' = [e \in Entry |-> IF e \in got THEN Capped(deliveries[e] + 1)
                                         ELSE deliveries[e]]
       /\ age' = [e \in Entry |-> IF e \in got THEN 0 ELSE age[e]]
       /\ batch' = [batch EXCEPT ![c] =
            [i \in 1..Cardinality(got) |->
               LET e == InOrder(got)[i] IN
                 [entry |-> e, n |-> deliveries'[e], trimmed |-> e \in gone]]]
  /\ Touch(c)
  /\ pc' = [pc EXCEPT ![c] = "reading"]
  /\ UNCHANGED <<added, gone, cursor, owner, endVars, dbVars, stopping, stat,
                 ran, sweep, faults>>

\* XREADGROUP > COUNT n: new entries, moved into c's pending list.
ReadFresh(c) ==
  /\ pc[c] = "reading"
  /\ LET got == Oldest(Unread, BatchCount)
         fresh == [i \in 1..Cardinality(got) |->
                     [entry |-> InOrder(got)[i], n |-> 1, trimmed |-> FALSE]]
         all == batch[c] \o fresh
     IN
       /\ cursor' = IF got = {} THEN cursor
                    ELSE CHOOSE e \in got : \A f \in got : f <= e
       /\ owner' = [e \in Entry |-> IF e \in got THEN c ELSE owner[e]]
       /\ deliveries' = [e \in Entry |-> IF e \in got THEN 1 ELSE deliveries[e]]
       /\ age' = [e \in Entry |-> IF e \in got THEN 0 ELSE age[e]]
       /\ batch' = [batch EXCEPT ![c] = all]
       /\ stat' = [stat EXCEPT ![c] = [i \in 1..Len(all) |-> "todo"]]
       /\ ran' = [ran EXCEPT ![c] = [i \in 1..Len(all) |-> 0]]
  /\ Touch(c)
  /\ pc' = [pc EXCEPT ![c] = "batch"]
  /\ UNCHANGED <<added, gone, endVars, dbVars, stopping, sweep, faults>>

-----------------------------------------------------------------------------
(* What _lanes partitions a batch by; LaneDealing says which lane results. *)

\* (stream, subject), or the entry itself when it carries no usable envelope.
EntityKey(c, i) ==
  LET m == batch[c][i] IN
    IF m.trimmed \/ KindOf[m.entry] = "broken"
    THEN <<"entry", m.entry>>
    ELSE <<"subject", SubjectOf[EventOf[m.entry]]>>

Keys(c) == [i \in 1..Len(batch[c]) |-> EntityKey(c, i)]

-----------------------------------------------------------------------------
(* StreamConsumer._dispatch, one message of a lane at a time.              *)

At(c, i, s) == pc[c] = "batch" /\ i \in 1..Len(stat[c]) /\ stat[c][i] = s
Move(c, i, s) == stat' = [stat EXCEPT ![c][i] = s]

\* Mutant of Due: a message does not wait for its lane.
DueAtOnce(c, i) == At(c, i, "todo")

\* The lane has finished everything before message i.
Due(c, i) ==
  /\ At(c, i, "todo")
  /\ \A j \in 1..Len(stat[c]) :
       Precedes(Keys(c), Concurrency, j, i) => stat[c][j] = "end"

\* The lane reaches message i: classify it, start its handler if it has one.
Dispatch(c, i) ==
  /\ Due(c, i)
  /\ LET m == batch[c][i] IN
       Move(c, i, IF m.trimmed \/ KindOf[m.entry] = "broken" THEN "dead"
                  ELSE IF KindOf[m.entry] = "other" THEN "ack" ELSE "run")
  /\ UNCHANGED <<redisVars, dbVars, pc, stopping, batch, ran, sweep, faults>>

EventAt(c, i) == EventOf[batch[c][i].entry]

\* Another process's open transaction holds the same ledger key.
KeyLocked(v) ==
  \E d \in Consumer : \E j \in 1..Len(stat[d]) :
    At(d, j, "txn") /\ EventAt(d, j) = v

\* Mutant of Claim: the ledger is read, not inserted into, so nothing waits.
ClaimByReading(c, i) ==
  /\ At(c, i, "run")
  /\ Move(c, i, IF EventAt(c, i) \in ledger THEN "ack" ELSE "txn")
  /\ UNCHANGED <<redisVars, dbVars, pc, stopping, batch, ran, sweep, faults>>

\* uow.begin .. ledger.claim: a committed row means a duplicate delivery, an
\* uncommitted one makes the INSERT wait.
Claim(c, i) ==
  /\ At(c, i, "run")
  /\ ~KeyLocked(EventAt(c, i))
  /\ Move(c, i, IF EventAt(c, i) \in ledger THEN "ack" ELSE "txn")
  /\ UNCHANGED <<redisVars, dbVars, pc, stopping, batch, ran, sweep, faults>>

\* finalize, the outbox append and COMMIT.
CommitEffect(c, i) ==
  /\ At(c, i, "txn")
  /\ ledger' = ledger \cup {EventAt(c, i)}
  /\ effects' = [effects EXCEPT ![EventAt(c, i)] = @ + 1]
  /\ Move(c, i, "ack")
  /\ UNCHANGED <<redisVars, pc, stopping, batch, ran, sweep, faults>>

\* Mutant of HandlerFails: a failure is logged and the entry acknowledged.
HandlerFailsQuietly(c, i, permanent) ==
  /\ At(c, i, "run") \/ At(c, i, "txn")
  /\ Move(c, i, "ack")
  /\ UNCHANGED <<redisVars, dbVars, pc, stopping, batch, ran, sweep, faults>>

\* The handler raises, an open transaction rolls back: dead-letter a permanent
\* failure and the last delivery, leave anything else pending.
HandlerFails(c, i, permanent) ==
  /\ At(c, i, "run") \/ At(c, i, "txn")
  /\ Move(c, i, IF permanent \/ batch[c][i].n >= MaxDeliveries
                THEN "dead" ELSE "end")
  /\ UNCHANGED <<redisVars, dbVars, pc, stopping, batch, ran, sweep, faults>>

\* XACK does not ask who owns the entry.
Ack(c, i) ==
  /\ At(c, i, "ack")
  /\ LET e == batch[c][i].entry IN
       /\ owner' = [owner EXCEPT ![e] = NoOne]
       /\ acked' = acked \cup {e}
  /\ Move(c, i, "end")
  /\ UNCHANGED <<added, gone, cursor, deliveries, age, nameVars, dlq, dropped,
                 dbVars, pc, stopping, batch, ran, sweep, faults>>

\* XADD <stream>.dlq and XACK in one MULTI.
DeadLetter(c, i) ==
  /\ At(c, i, "dead")
  /\ LET e == batch[c][i].entry IN
       /\ owner' = [owner EXCEPT ![e] = NoOne]
       /\ dlq' = dlq \cup {e}
  /\ Move(c, i, "end")
  /\ UNCHANGED <<added, gone, cursor, deliveries, age, nameVars, acked, dropped,
                 dbVars, pc, stopping, batch, ran, sweep, faults>>

\* What a process holds in memory when it is between batches.
Forget(c) ==
  /\ batch' = [batch EXCEPT ![c] = <<>>]
  /\ stat' = [stat EXCEPT ![c] = <<>>]
  /\ ran' = [ran EXCEPT ![c] = <<>>]
  /\ sweep' = [sweep EXCEPT ![c] = NoSweep]

\* The TaskGroup's barrier: run_once returns when every lane has finished.
EndBatch(c) ==
  /\ pc[c] = "batch"
  /\ \A i \in 1..Len(stat[c]) : stat[c][i] = "end"
  /\ pc' = [pc EXCEPT ![c] = "ready"]
  /\ Forget(c)
  /\ UNCHANGED <<redisVars, dbVars, stopping, faults>>

-----------------------------------------------------------------------------
(* sweep_stale_consumers, between two passes of the loop.                  *)

Ghosts(c) == {d \in registered \ {c} : idle[d] >= StaleIdle}

\* XINFO CONSUMERS: who looks dead, and which of them own entries.
SweepList(c) ==
  /\ pc[c] = "ready" /\ c \notin stopping
  /\ Ghosts(c) # {}
  /\ pc' = [pc EXCEPT ![c] = "sweep"]
  /\ sweep' = [sweep EXCEPT ![c] =
       [phase |-> "list", todo |-> Ghosts(c),
        owing |-> {d \in Ghosts(c) : PendingOf(d) # {}}, ghost |-> NoOne]]
  /\ UNCHANGED <<redisVars, dbVars, stopping, batch, stat, ran, faults>>

Sweeping(c, phase) == pc[c] = "sweep" /\ sweep[c].phase = phase

\* The next ghost of the listing.
SweepNext(c, d) ==
  /\ Sweeping(c, "list") /\ d \in sweep[c].todo
  /\ sweep' = [sweep EXCEPT ![c].ghost = d,
                            ![c].todo = @ \ {d},
                            ![c].phase = IF d \in sweep[c].owing THEN "reclaim"
                                         ELSE "delete"]
  /\ UNCHANGED <<redisVars, dbVars, pc, stopping, batch, stat, ran, faults>>

\* XAUTOCLAIM JUSTID over the whole group: every entry idle for StaleIdle
\* becomes c's, its delivery counter untouched; Redis discards the entries
\* the stream no longer holds.
SweepReclaim(c) ==
  /\ Sweeping(c, "reclaim")
  /\ LET claimed == {e \in Pending : age[e] >= StaleIdle} IN
       /\ owner' = [e \in Entry |-> IF e \notin claimed THEN owner[e]
                                    ELSE IF e \in gone THEN NoOne ELSE c]
       /\ age' = [e \in Entry |-> IF e \in claimed THEN 0 ELSE age[e]]
       /\ dropped' = dropped \cup (claimed \cap gone)
  /\ Touch(c)
  /\ sweep' = [sweep EXCEPT ![c].phase = "recheck"]
  /\ UNCHANGED <<added, gone, cursor, deliveries, acked, dlq, dbVars, pc,
                 stopping, batch, stat, ran, faults>>

\* _pending_of: whoever still owns something is left alone.
SweepRecheck(c) ==
  /\ Sweeping(c, "recheck")
  /\ sweep' = [sweep EXCEPT ![c].phase =
                 IF PendingOf(sweep[c].ghost) = {} THEN "delete" ELSE "list"]
  /\ UNCHANGED <<redisVars, dbVars, pc, stopping, batch, stat, ran, faults>>

\* XGROUP DELCONSUMER discards whatever the name owns by now.
DeleteConsumer(d) ==
  /\ owner' = [e \in Entry |-> IF owner[e] = d THEN NoOne ELSE owner[e]]
  /\ dropped' = dropped \cup PendingOf(d)
  /\ registered' = registered \ {d}

SweepDelete(c) ==
  /\ Sweeping(c, "delete")
  /\ DeleteConsumer(sweep[c].ghost)
  /\ sweep' = [sweep EXCEPT ![c].phase = "list"]
  /\ UNCHANGED <<added, gone, cursor, deliveries, age, idle, acked, dlq, dbVars,
                 pc, stopping, batch, stat, ran, faults>>

SweepEnd(c) ==
  /\ Sweeping(c, "list") /\ sweep[c].todo = {}
  /\ pc' = [pc EXCEPT ![c] = "ready"]
  /\ Forget(c)
  /\ UNCHANGED <<redisVars, dbVars, stopping, faults>>

-----------------------------------------------------------------------------
(* run_worker: signals, the drain, the exit.                               *)

Fault == faults < MaxFaults /\ faults' = faults + 1

\* A Redis error ends a sweep early; sweep_stale logs it and the loop goes on.
SweepFails(c) ==
  /\ pc[c] = "sweep"
  /\ faults <= MaxFaults /\ faults' = faults + 1
  /\ pc' = [pc EXCEPT ![c] = "ready"]
  /\ Forget(c)
  /\ UNCHANGED <<redisVars, dbVars, stopping>>

\* SIGTERM: request_stop; the loop leaves before its next read.
RequestStop(c) ==
  /\ Live(c) /\ pc[c] # "exit" /\ c \notin stopping
  /\ Fault
  /\ stopping' = stopping \cup {c}
  /\ UNCHANGED <<redisVars, dbVars, pc, batch, stat, ran, sweep>>

LeaveLoop(c) ==
  /\ pc[c] = "ready" /\ c \in stopping
  /\ pc' = [pc EXCEPT ![c] = "exit"]
  /\ UNCHANGED <<redisVars, dbVars, stopping, batch, stat, ran, sweep, faults>>

\* The drain deadline passes: the loop is cancelled where it stands and open
\* transactions roll back.
DrainTimeout(c) ==
  /\ c \in stopping /\ pc[c] \in {"reading", "batch", "sweep"}
  /\ pc' = [pc EXCEPT ![c] = "exit"]
  /\ Forget(c)
  /\ UNCHANGED <<redisVars, dbVars, stopping, faults>>

\* A Redis failure on a read, an XACK or a dead-letter escapes the lane, takes
\* its siblings with it and ends the loop.
LoopDies(c) ==
  /\ pc[c] \in {"reading", "batch"}
  /\ Fault
  /\ pc' = [pc EXCEPT ![c] = "exit"]
  /\ Forget(c)
  /\ UNCHANGED <<redisVars, dbVars, stopping>>

\* Mutant of Deregister: the name is deleted with what it still owns.
DeregisterAnyway(c) ==
  /\ pc[c] = "exit"
  /\ pc' = [pc EXCEPT ![c] = "gone"]
  /\ DeleteConsumer(c)
  /\ UNCHANGED <<added, gone, cursor, deliveries, age, idle, acked, dlq, dbVars,
                 stopping, batch, stat, ran, sweep, faults>>

\* deregister_consumer: refused while the name still owns entries, and a
\* failure to do it is only logged.
Deregister(c) ==
  /\ pc[c] = "exit"
  /\ pc' = [pc EXCEPT ![c] = "gone"]
  /\ \/ PendingOf(c) = {} /\ DeleteConsumer(c)
     \/ UNCHANGED <<owner, dropped, registered>>
  /\ UNCHANGED <<added, gone, cursor, deliveries, age, idle, acked, dlq, dbVars,
                 stopping, batch, stat, ran, sweep, faults>>

\* SIGKILL, OOM, a lost host.
Crash(c) ==
  /\ Live(c)
  /\ Fault
  /\ pc' = [pc EXCEPT ![c] = "gone"]
  /\ Forget(c)
  /\ UNCHANGED <<redisVars, dbVars, stopping>>

-----------------------------------------------------------------------------
(* Time.                                                                   *)

Running(c, i) == At(c, i, "run") \/ At(c, i, "txn")

\* Mutant of Tick: no deadline ends a handler.
TickOverruns ==
  /\ \A c \in Consumer :
       /\ pc[c] \notin {"reading", "sweep", "exit"}
       /\ pc[c] = "ready" => ~HasWork(c) /\ c \notin stopping
       /\ pc[c] = "batch" =>
            /\ \E i \in 1..Len(stat[c]) : Running(c, i)
            /\ \A i \in 1..Len(stat[c]) :
                 stat[c][i] \notin {"ack", "dead"} /\ ~Due(c, i)
  /\ idle' = [c \in Consumer |-> IF pc[c] = "ready" THEN 0 ELSE Older(idle[c])]
  /\ age' = [e \in Entry |-> IF owner[e] = NoOne THEN age[e] ELSE Older(age[e])]
  /\ ran' = [c \in Consumer |->
               [i \in 1..Len(stat[c]) |->
                  IF Running(c, i) /\ ran[c][i] < HandlerTicks
                    THEN ran[c][i] + 1 ELSE ran[c][i]]]
  /\ UNCHANGED <<added, gone, cursor, owner, deliveries, registered, endVars,
                 dbVars, pc, stopping, batch, stat, sweep, faults>>

\* Only handlers take time: a process between two calls is served first, and
\* an idle one keeps polling, so its idle clock never runs.
Tick ==
  /\ \A c \in Consumer :
       /\ pc[c] \notin {"reading", "sweep", "exit"}
       /\ pc[c] = "ready" => ~HasWork(c) /\ c \notin stopping
       /\ pc[c] = "batch" =>
            /\ \E i \in 1..Len(stat[c]) : Running(c, i)
            /\ \A i \in 1..Len(stat[c]) :
                 /\ stat[c][i] \notin {"ack", "dead"} /\ ~Due(c, i)
                 /\ Running(c, i) => ran[c][i] < HandlerTicks
  /\ idle' = [c \in Consumer |-> IF pc[c] = "ready" THEN 0 ELSE Older(idle[c])]
  /\ age' = [e \in Entry |-> IF owner[e] = NoOne THEN age[e] ELSE Older(age[e])]
  /\ ran' = [c \in Consumer |->
               [i \in 1..Len(stat[c]) |->
                  IF Running(c, i) THEN ran[c][i] + 1 ELSE ran[c][i]]]
  /\ UNCHANGED <<added, gone, cursor, owner, deliveries, registered, endVars,
                 dbVars, pc, stopping, batch, stat, sweep, faults>>

-----------------------------------------------------------------------------

Msg(c) == 1..Len(stat[c])

LaneStep(c) ==
  \E i \in Msg(c) :
    \/ Dispatch(c, i) \/ Claim(c, i) \/ CommitEffect(c, i)
    \/ Ack(c, i) \/ DeadLetter(c, i)
    \/ \E permanent \in BOOLEAN : HandlerFails(c, i, permanent)

SweepStep(c) ==
  \/ SweepReclaim(c) \/ SweepRecheck(c) \/ SweepDelete(c) \/ SweepEnd(c)
  \/ \E d \in Consumer : SweepNext(c, d)

LoopStep(c) ==
  \/ Boot(c) \/ ReadRecovered(c) \/ ReadFresh(c) \/ LaneStep(c) \/ EndBatch(c)
  \/ LeaveLoop(c) \/ Deregister(c) \/ SweepStep(c)

Disturbance(c) ==
  \/ RequestStop(c) \/ DrainTimeout(c) \/ LoopDies(c) \/ Crash(c)
  \/ SweepFails(c)

Next ==
  \/ Add \/ Tick
  \/ \E c \in Consumer : LoopStep(c) \/ SweepList(c) \/ Disturbance(c)

SafeSpec == Init /\ [][Next]_vars

\* The event loop runs every process, sweeps come due, time passes; nothing is
\* owed to the relay or to whoever stops a process.
Spec ==
  /\ SafeSpec
  /\ WF_vars(Tick)
  /\ \A c \in Consumer : WF_vars(LoopStep(c)) /\ WF_vars(SweepList(c))

-----------------------------------------------------------------------------
(* Properties.                                                             *)

MsgState == {"todo", "run", "txn", "ack", "dead", "end"}

\* Every variable keeps its type, the three per-message sequences of a process
\* stay in step once its batch is complete, and it has none between batches.
TypeOK ==
  /\ added \in 0..NumEntries /\ cursor \in 0..added /\ gone \subseteq 1..added
  /\ owner \in [Entry -> Consumer \cup {NoOne}]
  /\ deliveries \in [Entry -> 0..MaxDeliveries]
  /\ age \in [Entry -> 0..StaleIdle]
  /\ registered \subseteq Consumer
  /\ idle \in [Consumer -> 0..StaleIdle]
  /\ acked \subseteq Entry /\ dlq \subseteq Entry /\ dropped \subseteq Entry
  /\ ledger \subseteq Event
  /\ effects \in [Event -> Nat]
  /\ pc \in [Consumer -> {"unborn", "ready", "reading", "batch", "sweep", "exit",
                          "gone"}]
  /\ stopping \subseteq Consumer
  /\ stat \in [Consumer -> Seq(MsgState)]
  /\ ran \in [Consumer -> Seq(0..HandlerTicks)]
  /\ batch \in [Consumer -> Seq([entry : Entry, n : 1..MaxDeliveries, trimmed : BOOLEAN])]
  /\ sweep \in [Consumer -> [phase : {"none", "list", "reclaim", "recheck", "delete"},
                             todo : SUBSET Consumer, owing : SUBSET Consumer,
                             ghost : Consumer \cup {NoOne}]]
  /\ \A c \in Consumer :
       /\ Len(stat[c]) = Len(ran[c])
       /\ pc[c] = "batch" => Len(batch[c]) = Len(stat[c])
       /\ pc[c] # "batch" => stat[c] = <<>>
       /\ pc[c] \notin {"reading", "batch"} => batch[c] = <<>>
  /\ faults \in 0..(MaxFaults + 1)

\* The ledger makes delivery effectively once: whatever is redelivered, claimed
\* away, published twice or run by two processes at a time, an event's effect
\* transaction commits at most once.
EffectAtMostOnce == \A v \in Event : effects[v] <= 1

\* No event is acknowledged away: an acked entry that had a handler has its
\* effect committed.
AckedMeansEffect ==
  \A e \in acked : KindOf[e] = "job" => effects[EventOf[e]] = 1

\* Every entry the group's cursor has passed is still pending, was acked, is in
\* the dead-letter stream or was cut from the stream before it was read: no
\* sweep, crash or shutdown makes an entry unreachable.
NothingLost ==
  \A e \in 1..cursor : e \in Pending \cup acked \cup dlq \cup gone

\* Two messages about one aggregate never run together in one process, and the
\* earlier one goes first.
SubjectsInOrder ==
  \A c \in Consumer : \A i, j \in 1..Len(stat[c]) :
    (i < j /\ EntityKey(c, i) = EntityKey(c, j) /\ stat[c][j] # "todo")
      => stat[c][i] = "end"

\* Sweep rule 2, sweeper.py: the idle threshold "cannot mistake a working
\* sibling for a corpse", so nobody takes an entry from a process at work.
LiveKeepTheirEntries ==
  [][\A e \in Entry : LET c == owner[e] IN
       (c \in Consumer /\ pc[c] \in {"reading", "batch"} /\ pc'[c] = pc[c])
         => owner'[e] \in {c, NoOne}]_vars

\* Every entry that reaches the stream is acknowledged, dead-lettered or cut, as
\* long as there is a process left to read it.
EntriesSettle ==
  \A e \in Entry :
    (e <= added) ~> (e \in acked \cup dlq \cup gone \/ \A c \in Consumer : pc[c] = "gone")

-----------------------------------------------------------------------------
(* The invariants the proofs carry.                                        *)

EffectsFollowLedger == \A v \in Event : effects[v] = IF v \in ledger THEN 1 ELSE 0

\* A ledger key has one open transaction at a time, and none once it is committed.
OneTransaction ==
  \A c \in Consumer : \A i \in 1..Len(stat[c]) : stat[c][i] = "txn" =>
    /\ EventAt(c, i) \notin ledger
    /\ \A d \in Consumer : \A j \in 1..Len(stat[d]) :
         stat[d][j] = "txn" /\ EventAt(d, j) = EventAt(c, i) => d = c /\ j = i

\* What is or is about to be acknowledged has its ledger row.
AcksFollowLedger ==
  /\ \A c \in Consumer : \A i \in 1..Len(stat[c]) :
       stat[c][i] = "ack" /\ KindOf[batch[c][i].entry] = "job" => EventAt(c, i) \in ledger
  /\ \A e \in acked : KindOf[e] = "job" => EventOf[e] \in ledger

ConsumerInv ==
  TypeOK /\ EffectsFollowLedger /\ OneTransaction /\ AcksFollowLedger /\ SubjectsInOrder

\* The handlers of a whole batch, one after the other, end before the threshold.
ThresholdCoversABatch == (2 * BatchCount) * HandlerTicks < StaleIdle

\* The ticks the handlers of c's batch have taken, one pair for each.
Spent(c) ==
  {p \in (1..(2 * BatchCount)) \X (1..HandlerTicks) :
     p[1] <= Len(ran[c]) /\ p[2] <= ran[c][p[1]]}

\* A process is never silent for longer than its handlers have run.
SilenceIsWork ==
  /\ \A c \in Consumer : /\ pc[c] = "reading" => Len(batch[c]) <= BatchCount
                         /\ Len(batch[c]) <= 2 * BatchCount
  /\ \A c \in registered :
       /\ pc[c] # "unborn"
       /\ pc[c] = "batch" => idle[c] <= Cardinality(Spent(c))
       /\ pc[c] # "gone" => idle[c] <= (2 * BatchCount) * HandlerTicks

\* A sweep has only dead processes on its list, and deletes one that owns nothing.
SweepsTakeTheDead ==
  \A c \in Consumer : pc[c] = "sweep" =>
    /\ \A d \in sweep[c].todo :
         pc[d] = "gone" /\ (d \notin sweep[c].owing => PendingOf(d) = {})
    /\ sweep[c].phase # "list" => sweep[c].ghost \in Consumer /\ pc[sweep[c].ghost] = "gone"
    /\ sweep[c].phase = "delete" => PendingOf(sweep[c].ghost) = {}

DeliveryInv == ConsumerInv /\ SilenceIsWork /\ SweepsTakeTheDead /\ NothingLost

=============================================================================
