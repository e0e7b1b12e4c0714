----------------------------- MODULE OutboxRelay -----------------------------
(***************************************************************************)
(* The transactional outbox and the process that drains it:                *)
(*   infrastructure/persistence/rls.py       the producer's unit of work   *)
(*   infrastructure/persistence/outbox.py    platform.outbox, both sides   *)
(*   infrastructure/messaging/outbox.py      OutboxRelay.run_once/_forever *)
(*   workers/outbox_relay.py, bootstrap.py   boot, topology, shutdown      *)
(*                                                                         *)
(* Producers append events inside the transaction of the aggregate they    *)
(* change; created_at is the transaction's START time, so a row can become *)
(* visible after a younger row.  One relay process polls the unpublished   *)
(* rows oldest first, XADDs them one by one, stops at the first failure    *)
(* and stamps published_at on the prefix that made it.  Each of the three  *)
(* store calls is a transaction of its own and can fail; an XADD can fail  *)
(* before or after it took effect; the process can be cancelled or die     *)
(* between any two calls.                                                  *)
(*                                                                         *)
(* The stream here is the history of XADDs; StreamTrim models what is      *)
(* later cut from its head.                                                *)
(***************************************************************************)
EXTENDS Integers, Sequences, FiniteSets

CONSTANTS
  Event,        \* event ids, naturals: UUIDv7 ids are ordered by mint time
  Binding,      \* the (stream, group) pairs of STATIC_CONSUMER_TOPOLOGY
  BatchSize,    \* outbox_relay_batch_size
  PollInterval, \* outbox_poll_interval_ms
  MaxBackoff,   \* _MAX_BACKOFF_MS
  MaxFaults     \* bound: failed calls and process deaths in a behaviour

ASSUME EventAssumption == Event \subseteq Nat /\ IsFiniteSet(Event)
ASSUME BatchAssumption == BatchSize \in Nat \ {0}
ASSUME BackoffAssumption ==
  PollInterval \in Nat \ {0} /\ MaxBackoff \in Nat /\ PollInterval <= MaxBackoff
ASSUME FaultAssumption == MaxFaults \in Nat

VARIABLES
  txn, createdAt, committedAt, clock,   \* the producers' transactions
  published,    \* SUBSET Event: rows whose published_at is set
  attempts,     \* [Event -> Nat]: the rows' attempts column
  stream,       \* Seq(Event): the XADDs, oldest first
  groupAt,      \* [Binding -> Int]: Len(stream) when the group was created
  pc,           \* where the relay process is
  batch,        \* SUBSET Event: the entries run_once fetched
  done,         \* SUBSET Event: `succeeded`
  err,          \* the exception that is unwinding through run_once
  backoff,      \* backoff_ms
  cancelled,    \* asyncio cancellation was requested of this process
  faults

txnVars == <<txn, createdAt, committedAt, clock>>
rowVars == <<published, attempts>>
relayVars == <<pc, batch, done, err, backoff, cancelled>>
vars == <<txnVars, rowVars, stream, groupAt, relayVars, faults>>

None == -1

TxnState == {"none", "open", "committed", "aborted"}
RelayPc == {"down", "boot", "poll", "publish", "bump", "mark", "asleep"}
Exception == {"none", "app", "bug", "cancel"}

Init ==
  /\ txn = [e \in Event |-> "none"]
  /\ createdAt = [e \in Event |-> 0]
  /\ committedAt = [e \in Event |-> 0]
  /\ clock = 1
  /\ published = {}
  /\ attempts = [e \in Event |-> 0]
  /\ stream = <<>>
  /\ groupAt = [b \in Binding |-> None]
  /\ pc = "down"
  /\ batch = {} /\ done = {} /\ err = "none"
  /\ backoff = PollInterval
  /\ cancelled = FALSE
  /\ faults = 0

Log == {stream[i] : i \in 1..Len(stream)}

-----------------------------------------------------------------------------
(* Producers: uow.begin(ctx) .. SqlEventOutbox.append .. COMMIT/ROLLBACK.  *)

Begin(S) ==
  /\ S # {}
  /\ \A e \in S : txn[e] = "none"
  /\ txn' = [e \in Event |-> IF e \in S THEN "open" ELSE txn[e]]
  /\ createdAt' = [e \in Event |-> IF e \in S THEN clock ELSE createdAt[e]]
  /\ clock' = clock + 1
  /\ UNCHANGED <<committedAt, rowVars, stream, groupAt, relayVars, faults>>

SameTxn(e) == {f \in Event : txn[f] = "open" /\ createdAt[f] = createdAt[e]}

Commit(e) ==
  /\ txn[e] = "open"
  /\ txn' = [f \in Event |-> IF f \in SameTxn(e) THEN "committed" ELSE txn[f]]
  /\ committedAt' =
       [f \in Event |-> IF f \in SameTxn(e) THEN clock ELSE committedAt[f]]
  /\ clock' = clock + 1
  /\ UNCHANGED <<createdAt, rowVars, stream, groupAt, relayVars, faults>>

Rollback(e) ==
  /\ txn[e] = "open"
  /\ txn' = [f \in Event |-> IF f \in SameTxn(e) THEN "aborted" ELSE txn[f]]
  /\ UNCHANGED <<createdAt, committedAt, clock, rowVars, stream, groupAt,
                 relayVars, faults>>

-----------------------------------------------------------------------------
(* SqlOutboxRelayStore.                                                    *)

\* Mutant of Older: ORDER BY id alone.
OlderById(a, b) == a < b

\* ORDER BY created_at, id
Older(a, b) ==
  \/ createdAt[a] < createdAt[b]
  \/ createdAt[a] = createdAt[b] /\ a < b

Unpublished == {e \in Event : txn[e] = "committed" /\ e \notin published}

\* Mutant of FetchUnpublished: LIMIT applies before the rows are filtered.
FetchLimitFirst(limit) ==
  {e \in Unpublished :
     Cardinality({f \in Event : txn[f] = "committed" /\ Older(f, e)}) < limit}

\* WHERE published_at IS NULL ORDER BY created_at, id LIMIT limit
FetchUnpublished(limit) ==
  {e \in Unpublished :
     Cardinality({f \in Unpublished : Older(f, e)}) < limit}

-----------------------------------------------------------------------------
(* The relay process.                                                      *)

Fault == faults < MaxFaults /\ faults' = faults + 1

\* run(): build_relay_from_env, then ensure_topology group by group.
Start ==
  /\ pc = "down"
  /\ pc' = "boot"
  /\ UNCHANGED <<txnVars, rowVars, stream, groupAt, batch, done, err, backoff,
                 cancelled, faults>>

\* XGROUP CREATE .. $ MKSTREAM; BUSYGROUP leaves an existing group alone.
EnsureGroup(b) ==
  groupAt' = [groupAt EXCEPT ![b] = IF @ = None THEN Len(stream) ELSE @]

EnsureTopology(b) ==
  /\ pc = "boot"
  /\ groupAt[b] = None
  /\ EnsureGroup(b)
  /\ UNCHANGED <<txnVars, rowVars, stream, relayVars, faults>>

\* Every binding exists: run_forever starts with a fresh backoff.
BootDone ==
  /\ pc = "boot"
  /\ \A b \in Binding : groupAt[b] # None
  /\ pc' = "poll"
  /\ UNCHANGED <<txnVars, rowVars, stream, groupAt, batch, done, err, backoff,
                 cancelled, faults>>

\* A worker's own setup() ensures the same group, whenever it happens to boot.
WorkerSetup(b) ==
  /\ groupAt[b] = None
  /\ EnsureGroup(b)
  /\ UNCHANGED <<txnVars, rowVars, stream, relayVars, faults>>

\* What ends a process leaves nothing of its memory.
Down ==
  /\ pc' = "down"
  /\ batch' = {} /\ done' = {} /\ err' = "none"
  /\ backoff' = PollInterval
  /\ cancelled' = FALSE

\* run_forever after a clean run_once: reset the penalty, poll again at once
\* only when the page was full.
CleanCycle(n) ==
  /\ backoff' = PollInterval
  /\ pc' = IF n = BatchSize THEN "poll" ELSE "asleep"
  /\ batch' = {} /\ done' = {} /\ err' = "none"
  /\ UNCHANGED cancelled

\* run_forever after an AppError: sleep, then double the penalty.
FailedCycle ==
  /\ backoff' = IF 2 * backoff < MaxBackoff THEN 2 * backoff ELSE MaxBackoff
  /\ pc' = "asleep"
  /\ batch' = {} /\ done' = {} /\ err' = "none"
  /\ UNCHANGED cancelled

Fetch ==
  /\ pc = "poll" /\ ~cancelled
  /\ LET page == FetchUnpublished(BatchSize) IN
       IF page = {}
       THEN CleanCycle(0)
       ELSE /\ pc' = "publish"
            /\ batch' = page
            /\ UNCHANGED <<done, err, backoff, cancelled>>
  /\ UNCHANGED <<txnVars, rowVars, stream, groupAt, faults>>

FetchFails ==
  /\ pc = "poll" /\ ~cancelled
  /\ Fault
  /\ FailedCycle
  /\ UNCHANGED <<txnVars, rowVars, stream, groupAt>>

\* `for entry in entries`: the oldest entry not yet published this cycle.
Current(e) ==
  /\ e \in batch \ done
  /\ \A f \in (batch \ done) \ {e} : Older(e, f)

Publish(e) ==
  /\ pc = "publish" /\ ~cancelled
  /\ Current(e)
  /\ stream' = Append(stream, e)
  /\ done' = done \cup {e}
  /\ pc' = IF done' = batch THEN "mark" ELSE "publish"
  /\ UNCHANGED <<txnVars, rowVars, groupAt, batch, err, backoff, cancelled,
                 faults>>

\* Mutants of PublishFails: the `break` is missing, so the failed entry joins
\* `succeeded`; or it is skipped and the loop goes on with the next one.
PublishFailsMarks(e, landed, exc) ==
  /\ pc = "publish" /\ ~cancelled
  /\ Current(e)
  /\ Fault
  /\ stream' = IF landed THEN Append(stream, e) ELSE stream
  /\ done' = done \cup {e}
  /\ pc' = IF done' = batch THEN "mark" ELSE "publish"
  /\ UNCHANGED <<txnVars, rowVars, groupAt, batch, err, backoff, cancelled>>

PublishFailsSkips(e, landed, exc) ==
  /\ pc = "publish" /\ ~cancelled
  /\ Current(e)
  /\ Fault
  /\ stream' = IF landed THEN Append(stream, e) ELSE stream
  /\ batch' = batch \ {e}
  /\ pc' = IF batch' = done THEN "mark" ELSE "publish"
  /\ UNCHANGED <<txnVars, rowVars, groupAt, done, err, backoff, cancelled>>

\* The XADD raises; `landed` tells whether Redis had applied it already.
PublishFails(e, landed, exc) ==
  /\ pc = "publish" /\ ~cancelled
  /\ Current(e)
  /\ Fault
  /\ stream' = IF landed THEN Append(stream, e) ELSE stream
  /\ pc' = "bump"
  /\ err' = exc
  /\ UNCHANGED <<txnVars, rowVars, groupAt, batch, done, backoff, cancelled>>

BumpAttempts(e) ==
  /\ pc = "bump" /\ ~cancelled
  /\ Current(e)
  /\ attempts' = [attempts EXCEPT ![e] = @ + 1]
  /\ pc' = "mark"
  /\ UNCHANGED <<txnVars, published, stream, groupAt, batch, done, err, backoff,
                 cancelled, faults>>

\* The store's AppError replaces whatever exception was being handled.
BumpFails ==
  /\ pc = "bump" /\ ~cancelled
  /\ Fault
  /\ pc' = "mark"
  /\ err' = "app"
  /\ UNCHANGED <<txnVars, rowVars, stream, groupAt, batch, done, backoff,
                 cancelled>>

\* How run_once ends once `finally` is through, and what run_forever does.
EndOfCycle ==
  CASE err = "none" -> CleanCycle(Cardinality(done))
    [] err = "app" -> FailedCycle
    [] OTHER -> Down

\* Mutant of MarkPublished: nothing is stamped.
MarkNothing ==
  /\ pc = "mark"
  /\ EndOfCycle
  /\ UNCHANGED <<txnVars, rowVars, stream, groupAt, faults>>

MarkPublished ==
  /\ pc = "mark"
  /\ published' = published \cup done
  /\ EndOfCycle
  /\ UNCHANGED <<txnVars, attempts, stream, groupAt, faults>>

\* mark_published raises out of the `finally`: its AppError replaces the
\* exception in flight, a cancellation included.  With nothing to mark it
\* issues no statement and cannot fail.
\* `landed`: the COMMIT applied and only its answer was lost.
MarkFails(landed) ==
  /\ pc = "mark"
  /\ done # {}
  /\ Fault
  /\ published' = IF landed THEN published \cup done ELSE published
  /\ FailedCycle
  /\ UNCHANGED <<txnVars, attempts, stream, groupAt>>

Wake ==
  /\ pc = "asleep" /\ ~cancelled
  /\ pc' = "poll"
  /\ UNCHANGED <<txnVars, rowVars, stream, groupAt, batch, done, err, backoff,
                 cancelled, faults>>

\* The runtime cancels the main task; CancelledError is raised at the await
\* the task is suspended in and is delivered once.
Cancel ==
  /\ pc \notin {"down", "boot"} /\ ~cancelled /\ err # "cancel"
  /\ Fault
  /\ cancelled' = TRUE
  /\ UNCHANGED <<txnVars, rowVars, stream, groupAt, pc, batch, done, err,
                 backoff>>

\* Raised inside the loop body it still passes the `finally`; `landed` tells
\* whether the XADD the task was suspended in reached Redis.
CancelledInLoop(e, landed) ==
  /\ cancelled
  /\ pc \in {"publish", "bump"}
  /\ Current(e)
  /\ stream' = IF landed /\ pc = "publish" THEN Append(stream, e) ELSE stream
  /\ pc' = "mark"
  /\ err' = "cancel"
  /\ cancelled' = FALSE
  /\ UNCHANGED <<txnVars, rowVars, groupAt, batch, done, backoff, faults>>

\* Raised in the fetch, in a sleep or in mark_published itself it ends the
\* process; the mark may have been committed.
CancelledOutside(landed) ==
  /\ cancelled
  /\ pc \notin {"publish", "bump"}
  /\ published' = IF landed /\ pc = "mark" THEN published \cup done
                                           ELSE published
  /\ Down
  /\ UNCHANGED <<txnVars, attempts, stream, groupAt, faults>>

\* SIGKILL, OOM, a lost host: at any point, with nothing unwound.
Crash ==
  /\ pc # "down"
  /\ Fault
  /\ Down
  /\ UNCHANGED <<txnVars, rowVars, stream, groupAt>>

RelayStep ==
  \/ Start \/ BootDone \/ Fetch \/ MarkPublished \/ Wake
  \/ \E e \in Event : Publish(e) \/ BumpAttempts(e)
  \/ \E b \in Binding : EnsureTopology(b)
  \/ \E e \in Event, landed \in BOOLEAN : CancelledInLoop(e, landed)
  \/ \E landed \in BOOLEAN : CancelledOutside(landed)

RelayFault ==
  \/ FetchFails \/ BumpFails \/ Cancel \/ Crash
  \/ \E landed \in BOOLEAN : MarkFails(landed)
  \/ \E e \in Event, landed \in BOOLEAN, exc \in {"app", "bug"} :
       PublishFails(e, landed, exc)

ProducerStep ==
  \/ \E S \in SUBSET Event : Begin(S)
  \/ \E e \in Event : Commit(e) \/ Rollback(e)

Next ==
  \/ ProducerStep
  \/ RelayStep
  \/ RelayFault
  \/ \E b \in Binding : WorkerSetup(b)

SafeSpec == Init /\ [][Next]_vars

\* The relay's event loop keeps running it and Compose restarts it; producers
\* and faults owe nothing.
Spec == SafeSpec /\ WF_vars(RelayStep)
-----------------------------------------------------------------------------
(* Properties.                                                             *)

\* Every variable keeps its type, and the relay's memory is empty outside a
\* cycle.
TypeOK ==
  /\ txn \in [Event -> TxnState]
  /\ createdAt \in [Event -> Nat]
  /\ committedAt \in [Event -> Nat]
  /\ clock \in Nat \ {0}
  /\ published \in SUBSET Event
  /\ attempts \in [Event -> Nat]
  /\ stream \in Seq(Event)
  /\ groupAt \in [Binding -> Int]
  /\ pc \in RelayPc
  /\ batch \in SUBSET Event
  /\ done \in SUBSET batch
  /\ err \in Exception
  /\ backoff \in PollInterval..MaxBackoff
  /\ cancelled \in BOOLEAN
  /\ faults \in 0..MaxFaults
  /\ pc \in {"down", "boot", "poll", "asleep"} => batch = {} /\ err = "none"
  /\ pc \in {"publish", "bump"} => done # batch

\* A row is stamped published_at only if its event really is on the stream,
\* whatever failed on the way: no committed event is lost by the relay.
PublishedIsOnStream == published \subseteq Log

\* Only events whose transaction committed reach the stream: a rolled back
\* unit of work leaves no trace outside the database.
OnlyCommittedOnStream == \A e \in Log : txn[e] = "committed"

\* One fault explains at most one extra copy of an event; with no fault every
\* event is on the stream at most once.
Copies(e) == Cardinality({i \in 1..Len(stream) : stream[i] = e})
DuplicatesNeedFaults == \A e \in Event : Copies(e) <= 1 + faults

\* f was durable before e's transaction began.
Before(f, e) == txn[f] = "committed" /\ committedAt[f] < createdAt[e]

\* Head-of-line blocking keeps causes before their effects: an event first
\* appears on the stream after every event that was already committed when
\* its own transaction began, whatever failed and was retried in between.
CausesFirst ==
  \A i \in 1..Len(stream) : \A f \in Event :
    Before(f, stream[i]) => \E j \in 1..i : stream[j] = f

\* The relay implements the at-least-once promise: what it XADDs is what the
\* promise allows to be delivered, and every committed event reaches the stream
\* once the faults stop.
Promise == INSTANCE EventDelivery WITH delivered <- Log
ImplementsDelivery == Promise!Spec

\* The same without its liveness: every XADD is a Deliver the promise allows or
\* repeats an earlier one, and no other relay step shows outside.
ImplementsSafeDelivery == Promise!SafeSpec

-----------------------------------------------------------------------------
(* Why: the inductive invariant behind the safety properties.              *)

\* What the relay holds in memory is durable and, once `done`, on the stream.
CycleIsDurable ==
  /\ \A e \in batch : txn[e] = "committed"
  /\ done \subseteq Log

\* The server's clock lies ahead of every time stamp, and a transaction commits
\* after it began.
ClockAhead ==
  \A e \in Event :
    /\ createdAt[e] < clock
    /\ txn[e] = "committed" =>
         createdAt[e] < committedAt[e] /\ committedAt[e] < clock

\* The page a cycle works on is closed under causes: what was durable before a
\* fetched event began is in the page too, or was published in an earlier one.
PageIsClosed ==
  \A e \in batch, f \in Event :
    Before(f, e) => f \in batch \/ f \in published

\* A page holds rows that are not published yet; only its own cycle stamps them.
PageIsNew == batch \cap published = {}

\* A row that may be fetched again has a copy for every fault at most, so that the next
\* XADD stays within one more.  A requested cancellation is a fault already counted: the
\* XADD it interrupts may land, and the rows of `done` may go unmarked.
CopiesAreOwed ==
  \A e \in Event \ published :
    /\ e \notin done => Copies(e) + (IF cancelled THEN 1 ELSE 0) <= faults
    /\ e \in done /\ cancelled => Copies(e) <= faults

RelayInv ==
  TypeOK /\ PublishedIsOnStream /\ OnlyCommittedOnStream /\ CycleIsDurable
  /\ ClockAhead /\ PageIsClosed
=============================================================================
