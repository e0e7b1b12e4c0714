-------------------------- MODULE OutboxRelayProofs --------------------------
(***************************************************************************)
(* Safety of the outbox relay for every set of events, page size, backoff  *)
(* and number of faults.                                                   *)
(***************************************************************************)
EXTENDS OutboxRelay, FiniteSetTheorems, TLAPS

\* An XADD adds one event to the log and keeps the positions of the others.
LEMMA AppendLog ==
  ASSUME stream \in Seq(Event), NEW e \in Event, stream' = Append(stream, e)
  PROVE  /\ stream' \in Seq(Event)
         /\ Len(stream') = Len(stream) + 1
         /\ \A i \in 1..Len(stream) : stream'[i] = stream[i]
         /\ stream'[Len(stream) + 1] = e
         /\ Log' = Log \cup {e}
<1>1. /\ stream' \in Seq(Event)
      /\ Len(stream') = Len(stream) + 1 /\ Len(stream) \in Nat
      /\ \A i \in 1..Len(stream) : stream'[i] = stream[i]
      /\ stream'[Len(stream) + 1] = e
  OBVIOUS
<1>2. Log' = {stream'[i] : i \in 1..(Len(stream) + 1)}
  BY <1>1 DEF Log
<1>3. 1..(Len(stream) + 1) = (1..Len(stream)) \cup {Len(stream) + 1}
  BY <1>1
<1>4. ASSUME NEW x PROVE x \in Log' <=> x \in Log \cup {e}
  BY <1>1, <1>2, <1>3 DEF Log
<1> QED BY <1>1, <1>4

\* fetch_unpublished's page contains, with a row, every older unpublished row.
LEMMA PageIsDownwardClosed ==
  ASSUME TypeOK, NEW e \in FetchUnpublished(BatchSize),
         NEW f \in Unpublished, Older(f, e)
  PROVE  f \in FetchUnpublished(BatchSize)
<1> DEFINE below(x) == {g \in Unpublished : Older(g, x)}
<1>1. below(f) \subseteq below(e)
  <2> SUFFICES ASSUME NEW g \in Unpublished, Older(g, f) PROVE Older(g, e)
    OBVIOUS
  <2>1. /\ g \in Nat /\ f \in Nat /\ e \in Nat
        /\ createdAt[g] \in Nat /\ createdAt[f] \in Nat /\ createdAt[e] \in Nat
    BY EventAssumption DEF TypeOK, Unpublished, FetchUnpublished
  <2> QED BY <2>1 DEF Older
<1>2. IsFiniteSet(below(e))
  <2>1. below(e) \subseteq Event
    BY DEF Unpublished
  <2> QED BY <2>1, EventAssumption, FS_Subset
<1>3. IsFiniteSet(below(f)) /\ Cardinality(below(f)) <= Cardinality(below(e))
  BY <1>1, <1>2, FS_Subset
<1>4. Cardinality(below(f)) \in Nat /\ Cardinality(below(e)) \in Nat
  BY <1>2, <1>3, FS_CardinalityType
<1>5. Cardinality(below(e)) < BatchSize
  BY DEF FetchUnpublished
<1>6. Cardinality(below(f)) < BatchSize
  BY <1>3, <1>4, <1>5, BatchAssumption
<1> QED BY <1>6 DEF FetchUnpublished

\* The empty outbox satisfies the invariant.
LEMMA InitRelayInv == Init => RelayInv
<1> SUFFICES ASSUME Init PROVE RelayInv
  OBVIOUS
<1> USE DEF Init
<1>1. TypeOK
  <2>1. stream \in Seq(Event) /\ groupAt \in [Binding -> Int]
    BY DEF None
  <2>2. backoff \in PollInterval..MaxBackoff /\ faults \in 0..MaxFaults
    BY BackoffAssumption, FaultAssumption
  <2>3. /\ txn \in [Event -> TxnState]
        /\ createdAt \in [Event -> Nat] /\ committedAt \in [Event -> Nat]
        /\ clock \in Nat \ {0} /\ attempts \in [Event -> Nat]
    BY DEF TxnState
  <2> QED BY <2>1, <2>2, <2>3 DEF TypeOK, RelayPc, Exception
<1>2. Log = {}
  BY DEF Log
<1> QED
  BY <1>1, <1>2 DEF RelayInv, PublishedIsOnStream, OnlyCommittedOnStream,
     CycleIsDurable, ClockAhead, PageIsClosed

-----------------------------------------------------------------------------
(* One lemma per kind of step.                                             *)

\* What commits now is stamped at the clock, after everything that has begun,
\* so it becomes a cause of nothing that is already committed.
LEMMA ProducerKeepsCauses ==
  ASSUME RelayInv, ProducerStep, NEW e \in Event, NEW f \in Event,
         txn[e] = "committed", Before(f, e)'
  PROVE  Before(f, e)
<1>1. \A x \in Event : txn[x] = "committed" =>
        createdAt'[x] = createdAt[x] /\ committedAt'[x] = committedAt[x]
  BY DEF ProducerStep, Begin, Commit, Rollback, SameTxn, RelayInv, TypeOK
<1>2. CASE txn[f] = "committed"
  BY <1>1, <1>2 DEF Before
<1>3. CASE txn[f] # "committed"
  <2>1. committedAt'[f] = clock
    BY <1>3 DEF ProducerStep, Begin, Commit, Rollback, SameTxn, Before,
       RelayInv, TypeOK
  <2>2. createdAt'[e] = createdAt[e] /\ createdAt[e] < clock
    BY <1>1 DEF RelayInv, ClockAhead
  <2>3. createdAt[e] \in Nat /\ clock \in Nat
    BY DEF RelayInv, TypeOK
  <2> QED BY <2>1, <2>2, <2>3 DEF Before
<1> QED BY <1>2, <1>3

\* A producer's step moves transactions only: it opens some, or ends the open
\* ones of one unit of work.
LEMMA ProducerPreserves ==
  ASSUME RelayInv, ProducerStep PROVE RelayInv'
<1>1. UNCHANGED <<rowVars, stream, groupAt, relayVars, faults>> /\ Log' = Log
  BY DEF ProducerStep, Begin, Commit, Rollback, Log
<1>2. TypeOK'
  <2>1. /\ txn' \in [Event -> TxnState]
        /\ createdAt' \in [Event -> Nat] /\ committedAt' \in [Event -> Nat]
        /\ clock' \in Nat \ {0}
    <3> DEFINE TxnsTyped ==
          /\ txn' \in [Event -> TxnState]
          /\ createdAt' \in [Event -> Nat] /\ committedAt' \in [Event -> Nat]
          /\ clock' \in Nat \ {0}
    <3> USE DEF RelayInv, TypeOK, TxnState
    <3>1. ASSUME NEW S \in SUBSET Event, Begin(S) PROVE TxnsTyped
      BY <3>1 DEF Begin
    <3>2. ASSUME NEW e \in Event, Commit(e) PROVE TxnsTyped
      BY <3>2 DEF Commit
    <3>3. ASSUME NEW e \in Event, Rollback(e) PROVE TxnsTyped
      BY <3>3 DEF Rollback
    <3> QED BY <3>1, <3>2, <3>3 DEF ProducerStep
  <2> QED BY <1>1, <2>1 DEF RelayInv, TypeOK, rowVars, relayVars
<1>3. \A e \in Event : txn[e] = "committed" =>
        /\ txn'[e] = "committed"
        /\ createdAt'[e] = createdAt[e] /\ committedAt'[e] = committedAt[e]
  BY DEF ProducerStep, Begin, Commit, Rollback, SameTxn, RelayInv, TypeOK
<1>4. ClockAhead'
  <2> USE DEF RelayInv, TypeOK, ClockAhead, SameTxn
  <2>1. ASSUME NEW S \in SUBSET Event, Begin(S) PROVE ClockAhead'
    BY <2>1 DEF Begin
  <2>2. ASSUME NEW e \in Event, Commit(e) PROVE ClockAhead'
    BY <2>2 DEF Commit
  <2>3. ASSUME NEW e \in Event, Rollback(e) PROVE ClockAhead'
    BY <2>3 DEF Rollback
  <2> QED BY <2>1, <2>2, <2>3 DEF ProducerStep
<1>5. \A e, f \in Event : txn[e] = "committed" /\ Before(f, e)' => Before(f, e)
  BY ProducerKeepsCauses
<1>6. PublishedIsOnStream' /\ OnlyCommittedOnStream' /\ CycleIsDurable'
  <2>1. Log \subseteq Event /\ batch \subseteq Event
    BY DEF Log, RelayInv, TypeOK
  <2> QED
    BY <1>1, <1>3, <2>1 DEF RelayInv, PublishedIsOnStream,
       OnlyCommittedOnStream, CycleIsDurable, rowVars, relayVars
<1>7. PageIsClosed'
  <2>1. batch' = batch /\ published' = published /\ batch \subseteq Event
    BY <1>1 DEF rowVars, relayVars, RelayInv, TypeOK
  <2>2. \A e \in batch : txn[e] = "committed"
    BY DEF RelayInv, CycleIsDurable
  <2> QED BY <1>5, <2>1, <2>2 DEF RelayInv, PageIsClosed
<1> QED BY <1>2, <1>4, <1>6, <1>7 DEF RelayInv

\* A step that leaves the transactions alone, keeps or publishes more rows that
\* are on the stream, and keeps the page or forgets it.
LEMMA QuietPreserves ==
  ASSUME RelayInv, TypeOK', UNCHANGED txnVars,
         Log \subseteq Log', \A e \in Log' : e \in Log \/ e \in batch,
         published \subseteq published', published' \subseteq published \cup done,
         \/ batch' = batch
         \/ batch' = {},
         done' \subseteq Log'
  PROVE  RelayInv'
<1>1. PublishedIsOnStream' /\ OnlyCommittedOnStream' /\ CycleIsDurable'
  BY DEF RelayInv, PublishedIsOnStream, OnlyCommittedOnStream, CycleIsDurable,
     txnVars
<1>2. ClockAhead'
  BY DEF RelayInv, ClockAhead, txnVars
<1>3. PageIsClosed'
  BY DEF RelayInv, PageIsClosed, Before, txnVars
<1> QED BY <1>1, <1>2, <1>3 DEF RelayInv

\* However a cycle ends, the relay's memory is empty and its backoff is in range.
LEMMA CycleEnds ==
  ASSUME TypeOK, (\E n : CleanCycle(n)) \/ FailedCycle \/ Down
  PROVE  /\ pc' \in {"down", "poll", "asleep"}
         /\ batch' = {} /\ done' = {} /\ err' = "none"
         /\ backoff' \in PollInterval..MaxBackoff
         /\ cancelled' \in BOOLEAN
<1>1. backoff' \in PollInterval..MaxBackoff
  <2>1. backoff \in PollInterval..MaxBackoff
    BY DEF TypeOK
  <2> QED BY <2>1, BackoffAssumption DEF CleanCycle, FailedCycle, Down
<1>2. cancelled' \in BOOLEAN
  BY DEF TypeOK, CleanCycle, FailedCycle, Down
<1> QED BY <1>1, <1>2 DEF CleanCycle, FailedCycle, Down

\* Fetching a page changes only what the relay holds.
LEMMA FetchPreserves ==
  ASSUME RelayInv, Fetch PROVE RelayInv'
<1> DEFINE page == FetchUnpublished(BatchSize)
<1>1. page \subseteq Unpublished /\ Unpublished \subseteq Event
  BY DEF FetchUnpublished, Unpublished
<1>2. /\ UNCHANGED <<txnVars, rowVars, stream, groupAt, faults>>
      /\ Log' = Log
  BY DEF Fetch, Log
<1>3. CASE page = {}
  <2>1. TypeOK'
    BY <1>2, <1>3, BackoffAssumption DEF Fetch, CleanCycle, RelayInv, TypeOK,
       RelayPc, Exception, txnVars, rowVars
  <2> QED
    BY <1>2, <1>3, <2>1, QuietPreserves DEF Fetch, CleanCycle, rowVars
<1>4. CASE page # {}
  <2>1. /\ batch' = page /\ pc' = "publish" /\ done = {}
        /\ UNCHANGED <<done, err, backoff, cancelled>>
    BY <1>4 DEF Fetch, RelayInv, TypeOK
  <2>2. TypeOK'
    BY <1>1, <1>2, <1>4, <2>1 DEF RelayInv, TypeOK, RelayPc, Exception,
       txnVars, rowVars
  <2>3. ASSUME NEW e \in page, NEW f \in Event, Before(f, e)
        PROVE  f \in page \/ f \in published
    <3>1. Older(f, e)
      <4>1. createdAt[f] < committedAt[f] /\ committedAt[f] < createdAt[e]
        BY <2>3 DEF RelayInv, ClockAhead, Before
      <4>2. /\ createdAt[f] \in Nat /\ committedAt[f] \in Nat
            /\ createdAt[e] \in Nat
        BY <1>1 DEF RelayInv, TypeOK
      <4> QED BY <4>1, <4>2 DEF Older
    <3>2. CASE f \in Unpublished
      BY <3>1, <3>2, PageIsDownwardClosed DEF RelayInv
    <3>3. CASE f \notin Unpublished
      BY <2>3, <3>3 DEF Unpublished, Before
    <3> QED BY <3>2, <3>3
  <2>4. PageIsClosed'
    BY <1>2, <2>1, <2>3 DEF PageIsClosed, Before, txnVars, rowVars
  <2>5. PublishedIsOnStream' /\ OnlyCommittedOnStream' /\ CycleIsDurable'
    BY <1>1, <1>2, <2>1 DEF RelayInv, PublishedIsOnStream,
       OnlyCommittedOnStream, CycleIsDurable, Unpublished, txnVars, rowVars
  <2>6. ClockAhead'
    BY <1>2 DEF RelayInv, ClockAhead, txnVars
  <2> QED BY <2>2, <2>4, <2>5, <2>6 DEF RelayInv
<1> QED BY <1>3, <1>4

\* The steps that may XADD: a publish, one that raised, one that was cancelled.
LEMMA PublishPreserves ==
  ASSUME RelayInv, NEW e \in Event, NEW landed \in BOOLEAN,
         NEW exc \in {"app", "bug"},
         Publish(e) \/ PublishFails(e, landed, exc) \/ CancelledInLoop(e, landed)
  PROVE  RelayInv'
<1>1. /\ UNCHANGED <<txnVars, rowVars, groupAt, batch>>
      /\ e \in batch /\ done' \subseteq done \cup {e}
      /\ stream' = Append(stream, e) \/ stream' = stream
      /\ done' # done => stream' = Append(stream, e)
  BY DEF Publish, PublishFails, CancelledInLoop, Current
<1>2. /\ stream' \in Seq(Event)
      /\ Log' = Log \/ Log' = Log \cup {e}
      /\ done' # done => Log' = Log \cup {e}
  <2>1. CASE stream' = Append(stream, e)
    BY <2>1, AppendLog DEF RelayInv, TypeOK
  <2>2. CASE stream' = stream
    BY <1>1, <2>2 DEF RelayInv, TypeOK, Log
  <2> QED BY <1>1, <2>1, <2>2
<1>3. TypeOK'
  <2>1. /\ faults' \in 0..MaxFaults /\ cancelled' \in BOOLEAN
        /\ backoff' = backoff
    <3>1. faults' = faults \/ (faults < MaxFaults /\ faults' = faults + 1)
      BY DEF Publish, PublishFails, CancelledInLoop, Fault
    <3>2. faults' \in 0..MaxFaults
      BY <3>1, FaultAssumption DEF RelayInv, TypeOK
    <3>3. cancelled' \in BOOLEAN /\ backoff' = backoff
      BY DEF Publish, PublishFails, CancelledInLoop, RelayInv, TypeOK
    <3> QED BY <3>2, <3>3
  <2>2. /\ pc' \in {"publish", "bump", "mark"} /\ err' \in Exception
        /\ done' \in SUBSET batch
        /\ pc' \in {"publish", "bump"} => done' # batch
    BY DEF Publish, PublishFails, CancelledInLoop, Current, RelayInv, TypeOK,
       Exception
  <2> QED
    BY <1>1, <1>2, <2>1, <2>2 DEF RelayInv, TypeOK, RelayPc, txnVars, rowVars
<1>4. done' \subseteq Log'
  BY <1>1, <1>2 DEF RelayInv, CycleIsDurable
<1> QED
  BY <1>1, <1>2, <1>3, <1>4, QuietPreserves DEF rowVars

\* Every other step of the relay: nothing is added to the stream.
LEMMA RelayPreserves ==
  ASSUME RelayInv, RelayStep \/ RelayFault \/ \E b \in Binding : WorkerSetup(b)
  PROVE  RelayInv'
<1> USE DEF RelayInv, TypeOK, RelayPc, Exception, txnVars, rowVars, Log,
            CycleIsDurable
<1>1. CASE Start \/ BootDone \/ Wake
  <2>1. TypeOK'
    BY <1>1 DEF Start, BootDone, Wake
  <2> QED BY <1>1, <2>1, QuietPreserves DEF Start, BootDone, Wake
<1>2. CASE Fetch
  BY <1>2, FetchPreserves
<1>3. CASE MarkPublished
  <2>1. TypeOK'
    <3>1. (\E n : CleanCycle(n)) \/ FailedCycle \/ Down
      BY <1>3 DEF MarkPublished, EndOfCycle
    <3> QED BY <1>3, <3>1, CycleEnds DEF MarkPublished
  <2> QED
    BY <1>3, <2>1, QuietPreserves DEF MarkPublished, EndOfCycle, CleanCycle,
       FailedCycle, Down
<1>4. ASSUME NEW e \in Event, BumpAttempts(e) PROVE RelayInv'
  <2>1. TypeOK'
    BY <1>4 DEF BumpAttempts, Current
  <2>2. UNCHANGED <<txnVars, stream, published, batch, done>>
    BY <1>4 DEF BumpAttempts
  <2> QED BY <2>1, <2>2, QuietPreserves
<1>5. ASSUME NEW b \in Binding, EnsureTopology(b) \/ WorkerSetup(b)
      PROVE  RelayInv'
  <2>1. Len(stream) \in Int
    OBVIOUS
  <2>2. TypeOK'
    BY <1>5, <2>1 DEF EnsureTopology, WorkerSetup, EnsureGroup, relayVars
  <2> QED
    BY <1>5, <2>2, QuietPreserves DEF EnsureTopology, WorkerSetup, relayVars
<1>6. CASE FetchFails \/ BumpFails
  <2>1. TypeOK'
    <3>1. faults' \in 0..MaxFaults
      BY <1>6, FaultAssumption DEF FetchFails, BumpFails, Fault
    <3>2. CASE FetchFails
      BY <3>1, <3>2, CycleEnds DEF FetchFails
    <3>3. CASE BumpFails
      BY <3>1, <3>3 DEF BumpFails
    <3> QED BY <1>6, <3>2, <3>3
  <2> QED BY <1>6, <2>1, QuietPreserves DEF FetchFails, BumpFails, FailedCycle
<1>7. CASE Cancel \/ Crash
  <2>1. TypeOK'
    <3>1. faults' \in 0..MaxFaults
      BY <1>7, FaultAssumption DEF Cancel, Crash, Fault
    <3>2. CASE Cancel
      BY <3>1, <3>2 DEF Cancel
    <3>3. CASE Crash
      BY <3>1, <3>3, CycleEnds DEF Crash
    <3> QED BY <1>7, <3>2, <3>3
  <2> QED BY <1>7, <2>1, QuietPreserves DEF Cancel, Crash, Down
<1>8. ASSUME NEW landed \in BOOLEAN, MarkFails(landed) \/ CancelledOutside(landed)
      PROVE  RelayInv'
  <2>1. TypeOK'
    <3>1. faults' \in 0..MaxFaults
      <4>1. faults' = faults \/ (faults < MaxFaults /\ faults' = faults + 1)
        BY <1>8 DEF MarkFails, CancelledOutside, Fault
      <4> QED BY <4>1, FaultAssumption
    <3>2. FailedCycle \/ Down
      BY <1>8 DEF MarkFails, CancelledOutside
    <3>3. published' \in SUBSET Event
      BY <1>8 DEF MarkFails, CancelledOutside
    <3> QED
      BY <1>8, <3>1, <3>2, <3>3, CycleEnds DEF MarkFails, CancelledOutside
  <2> QED
    BY <1>8, <2>1, QuietPreserves DEF MarkFails, CancelledOutside, FailedCycle,
       Down
<1> QED
  BY <1>1, <1>2, <1>3, <1>4, <1>5, <1>6, <1>7, <1>8, PublishPreserves
     DEF RelayStep, RelayFault

\* Every step keeps the invariant.
LEMMA NextRelayInv == RelayInv /\ [Next]_vars => RelayInv'
<1> SUFFICES ASSUME RelayInv, [Next]_vars PROVE RelayInv'
  OBVIOUS
<1>1. CASE UNCHANGED vars
  BY <1>1 DEF vars, txnVars, rowVars, relayVars, RelayInv, TypeOK,
     PublishedIsOnStream, OnlyCommittedOnStream, CycleIsDurable, ClockAhead,
     PageIsClosed, Before, Log
<1> QED
  BY <1>1, ProducerPreserves, RelayPreserves DEF Next

-----------------------------------------------------------------------------
(* The theorems.                                                           *)

\* Every variable of the relay keeps its type.
THEOREM RelayTypes == SafeSpec => []TypeOK
<1>1. RelayInv => TypeOK
  BY DEF RelayInv
<1> QED BY InitRelayInv, NextRelayInv, <1>1, PTL DEF SafeSpec

\* published_at is only ever stamped on a row whose event is on the stream,
\* whatever fails, is cancelled or dies between the XADD and the stamp.
THEOREM RelayLosesNothing == SafeSpec => []PublishedIsOnStream
<1>1. RelayInv => PublishedIsOnStream
  BY DEF RelayInv
<1> QED BY InitRelayInv, NextRelayInv, <1>1, PTL DEF SafeSpec

\* An event of a unit of work that rolled back, or has not committed, is never
\* published.
THEOREM RelayPublishesCommitted == SafeSpec => []OnlyCommittedOnStream
<1>1. RelayInv => OnlyCommittedOnStream
  BY DEF RelayInv
<1> QED BY InitRelayInv, NextRelayInv, <1>1, PTL DEF SafeSpec

\* When an entry becomes current, everything durable before it is on the stream.
LEMMA CurrentIsReady ==
  ASSUME RelayInv, NEW e \in Event, Current(e), NEW f \in Event, Before(f, e)
  PROVE  f \in Log
<1>1. e \in batch /\ e \notin done
  BY DEF Current
<1>2. CASE f \in published
  BY <1>2 DEF RelayInv, PublishedIsOnStream
<1>3. CASE f \in batch
  <2>1. createdAt[f] < createdAt[e]
    <3>1. createdAt[f] < committedAt[f] /\ committedAt[f] < createdAt[e]
      BY DEF RelayInv, ClockAhead, Before
    <3>2. /\ createdAt[f] \in Nat /\ committedAt[f] \in Nat
          /\ createdAt[e] \in Nat
      BY DEF RelayInv, TypeOK
    <3> QED BY <3>1, <3>2
  <2>2. createdAt[f] \in Nat /\ createdAt[e] \in Nat
    BY DEF RelayInv, TypeOK
  <2>3. ~Older(e, f) /\ f # e
    BY <2>1, <2>2 DEF Older
  <2>4. f \in done
    BY <1>3, <2>3 DEF Current
  <2> QED BY <2>4 DEF RelayInv, CycleIsDurable
<1> QED BY <1>1, <1>2, <1>3 DEF RelayInv, PageIsClosed

\* What a step of the system may do to the stream: nothing, or add an event
\* that is current.
LEMMA StreamStep ==
  ASSUME RelayInv, [Next]_vars
  PROVE  \/ stream' = stream
         \/ /\ UNCHANGED txnVars
            /\ \E e \in Event : Current(e) /\ stream' = Append(stream, e)
<1>1. CASE UNCHANGED vars
  BY <1>1 DEF vars
<1>2. CASE ProducerStep
  BY <1>2 DEF ProducerStep, Begin, Commit, Rollback
<1>3. CASE RelayStep
  BY <1>3 DEF RelayStep, Start, BootDone, Fetch, Publish, BumpAttempts,
     MarkPublished, Wake, EnsureTopology, CancelledInLoop, CancelledOutside
<1>4. CASE RelayFault
  BY <1>4 DEF RelayFault, FetchFails, PublishFails, BumpFails, MarkFails,
     Cancel, Crash
<1>5. CASE \E b \in Binding : WorkerSetup(b)
  BY <1>5 DEF WorkerSetup
<1> QED BY <1>1, <1>2, <1>3, <1>4, <1>5 DEF Next

\* The relay and the workers never touch a producer's transaction.
LEMMA OnlyProducersMoveTransactions ==
  ASSUME [Next]_vars PROVE ProducerStep \/ UNCHANGED txnVars
<1>1. CASE RelayStep
  BY <1>1 DEF RelayStep, Start, BootDone, Fetch, Publish, BumpAttempts,
     MarkPublished, Wake, EnsureTopology, CancelledInLoop, CancelledOutside
<1>2. CASE RelayFault
  BY <1>2 DEF RelayFault, FetchFails, PublishFails, BumpFails, MarkFails,
     Cancel, Crash
<1>3. CASE (\E b \in Binding : WorkerSetup(b)) \/ UNCHANGED vars
  BY <1>3 DEF WorkerSetup, vars
<1> QED BY <1>1, <1>2, <1>3 DEF Next

\* No step gives an event already on the stream a new cause: what commits later
\* is stamped after it began.
LEMMA CausesAreFixed ==
  ASSUME RelayInv, [Next]_vars, NEW e \in Log, NEW f \in Event, Before(f, e)'
  PROVE  Before(f, e)
<1>1. e \in Event /\ txn[e] = "committed"
  <2>1. stream \in Seq(Event) /\ OnlyCommittedOnStream
    BY DEF RelayInv, TypeOK
  <2>2. e \in Event
    BY <2>1 DEF Log
  <2> QED BY <2>1, <2>2 DEF OnlyCommittedOnStream
<1>2. CASE ProducerStep
  BY <1>1, <1>2, ProducerKeepsCauses
<1>3. CASE UNCHANGED txnVars
  BY <1>3 DEF Before, txnVars
<1>4. ProducerStep \/ UNCHANGED txnVars
  BY OnlyProducersMoveTransactions
<1> QED BY <1>2, <1>3, <1>4

\* Head-of-line blocking keeps causes before effects: on the stream an event
\* comes after every event that was durable when its transaction began.
THEOREM RelayKeepsCausesFirst == SafeSpec => []CausesFirst
<1>1. Init => CausesFirst
  BY DEF Init, CausesFirst
<1>2. ASSUME RelayInv, CausesFirst, [Next]_vars PROVE CausesFirst'
  <2>1. stream \in Seq(Event) /\ Len(stream) \in Nat
    BY <1>2 DEF RelayInv, TypeOK
  <2>2. CASE stream' = stream
    <3> SUFFICES ASSUME NEW i \in 1..Len(stream), NEW f \in Event,
                        Before(f, stream[i])'
                 PROVE  \E j \in 1..i : stream[j] = f
      BY <2>2 DEF CausesFirst
    <3>1. PICK x \in Log : x = stream[i]
      BY DEF Log
    <3>2. Before(f, x)'
      BY <2>2, <3>1 DEF Before
    <3>3. Before(f, stream[i])
      BY <1>2, <3>1, <3>2, CausesAreFixed
    <3> QED BY <1>2, <3>3 DEF CausesFirst
  <2>3. ASSUME NEW e \in Event, Current(e), stream' = Append(stream, e),
               UNCHANGED txnVars
        PROVE  CausesFirst'
    <3>1. /\ Len(stream') = Len(stream) + 1
          /\ \A i \in 1..Len(stream) : stream'[i] = stream[i]
          /\ stream'[Len(stream) + 1] = e
      BY <2>1, <2>3, AppendLog
    <3>2. ASSUME NEW i \in 1..Len(stream'), NEW f \in Event,
                 Before(f, stream'[i])
          PROVE  \E j \in 1..i : stream'[j] = f
      <4>1. CASE i \in 1..Len(stream)
        <5>0. Before(f, stream[i])
          BY <3>1, <3>2, <4>1
        <5>1. PICK j \in 1..i : stream[j] = f
          BY <1>2, <4>1, <5>0 DEF CausesFirst
        <5> QED BY <2>1, <3>1, <4>1, <5>1
      <4>2. CASE i = Len(stream) + 1
        <5>1. f \in Log
          BY <1>2, <2>3, <3>1, <3>2, <4>2, CurrentIsReady
        <5>2. PICK j \in 1..Len(stream) : stream[j] = f
          BY <5>1 DEF Log
        <5> QED BY <2>1, <3>1, <4>2, <5>2
      <4> QED BY <2>1, <3>1, <4>1, <4>2
    <3> QED BY <2>3, <3>2 DEF CausesFirst, Before, txnVars
  <2> QED BY <1>2, <2>2, <2>3, StreamStep
<1> QED BY InitRelayInv, NextRelayInv, <1>1, <1>2, PTL DEF SafeSpec

\* The relay, with all its faults, implements the abstract promise: whatever it
\* does to the stream is a delivery EventDelivery allows, or invisible.
THEOREM RelayImplementsDelivery == SafeSpec => ImplementsSafeDelivery
<1>1. Init => Promise!Init
  BY DEF Init, Promise!Init, Log
<1>2. ASSUME RelayInv, [Next]_vars PROVE [Promise!Next]_Promise!vars
  <2>1. CASE ProducerStep
    <3>1. Log' = Log
      BY <2>1 DEF ProducerStep, Begin, Commit, Rollback, Log
    <3>2. ASSUME NEW S \in SUBSET Event, Begin(S) PROVE Promise!Begin(S)
      BY <3>1, <3>2 DEF Begin, Promise!Begin
    <3>3. ASSUME NEW e \in Event, Commit(e) PROVE Promise!Commit(e)
      BY <3>1, <3>3 DEF Commit, Promise!Commit, SameTxn, Promise!SameTxn
    <3>4. ASSUME NEW e \in Event, Rollback(e) PROVE Promise!Rollback(e)
      BY <3>1, <3>4 DEF Rollback, Promise!Rollback, SameTxn, Promise!SameTxn
    <3> QED BY <2>1, <3>2, <3>3, <3>4 DEF ProducerStep, Promise!Next
  <2>2. CASE stream' = stream /\ UNCHANGED txnVars
    BY <2>2 DEF Log, txnVars, Promise!vars
  <2>3. ASSUME NEW e \in Event, Current(e), stream' = Append(stream, e),
               UNCHANGED txnVars
        PROVE  Promise!Deliver(e)
    <3>1. Log' = Log \cup {e}
      BY <1>2, <2>3, AppendLog DEF RelayInv, TypeOK
    <3>2. txn[e] = "committed"
      BY <1>2, <2>3 DEF Current, RelayInv, CycleIsDurable
    <3>3. \A f \in Event : Promise!Before(f, e) => f \in Log
      BY <1>2, <2>3, CurrentIsReady DEF Before, Promise!Before
    <3> QED BY <2>3, <3>1, <3>2, <3>3 DEF Promise!Deliver, txnVars
  <2>4. ProducerStep \/ UNCHANGED txnVars
    BY <1>2, OnlyProducersMoveTransactions
  <2> QED BY <1>2, <2>1, <2>2, <2>3, <2>4, StreamStep DEF Promise!Next
<1> QED
  BY InitRelayInv, NextRelayInv, <1>1, <1>2, PTL
     DEF SafeSpec, ImplementsSafeDelivery, Promise!SafeSpec

-----------------------------------------------------------------------------
(* Duplicates.                                                             *)

\* An XADD adds one copy of its event and none of the others.
LEMMA AppendCopies ==
  ASSUME stream \in Seq(Event), NEW x \in Event
  PROVE  /\ Copies(x) \in Nat
         /\ \A e \in Event : stream' = Append(stream, e) =>
              Copies(x)' = Copies(x) + (IF x = e THEN 1 ELSE 0)
<1> DEFINE At == {i \in 1..Len(stream) : stream[i] = x}
<1>1. IsFiniteSet(At)
  <2>1. IsFiniteSet(1..Len(stream))
    BY FS_Interval
  <2> QED BY <2>1, FS_Subset
<1>2. Cardinality(At) \in Nat
  BY <1>1, FS_CardinalityType
<1>3. ASSUME NEW e \in Event, stream' = Append(stream, e)
      PROVE  Copies(x)' = Copies(x) + (IF x = e THEN 1 ELSE 0)
  <2> DEFINE New == {i \in 1..Len(stream') : stream'[i] = x}
  <2>1. /\ Len(stream') = Len(stream) + 1 /\ Len(stream) \in Nat
        /\ \A i \in 1..Len(stream) : stream'[i] = stream[i]
        /\ stream'[Len(stream) + 1] = e
    BY <1>3
  <2>2. New = IF x = e THEN At \cup {Len(stream) + 1} ELSE At
    BY <2>1
  <2>3. Len(stream) + 1 \notin At
    BY <2>1
  <2> HIDE DEF At, New
  <2>4. Cardinality(At \cup {Len(stream) + 1}) = Cardinality(At) + 1
    BY <1>1, <2>3, FS_AddElement
  <2>5. Cardinality(New) = Cardinality(At) + (IF x = e THEN 1 ELSE 0)
    BY <1>2, <2>2, <2>4
  <2> QED BY <2>5 DEF Copies, At, New
<1> QED BY <1>2, <1>3 DEF Copies

\* What bounds the copies of an event, step by step.
CopiesInv == PageIsNew /\ CopiesAreOwed /\ DuplicatesNeedFaults

\* A step without an XADD: what leaves `done` is published, or a fault pays for its return,
\* the one of the cancellation that ends or one that is counted now.
LEMMA QuietCopies ==
  ASSUME RelayInv, CopiesInv, UNCHANGED stream, PageIsNew', published \subseteq published',
         cancelled' \in BOOLEAN,
         \/ /\ faults' = faults /\ (cancelled' => cancelled)
            /\ \A e \in done : e \in published' \/ e \in done' \/ (cancelled /\ ~ cancelled')
         \/ /\ faults' = faults + 1 /\ (cancelled' /\ ~ cancelled => done' = done)
  PROVE  CopiesInv'
<1>0. stream \in Seq(Event) /\ faults \in Nat /\ cancelled \in BOOLEAN
  BY FaultAssumption DEF RelayInv, TypeOK
<1>1. ASSUME NEW e \in Event
      PROVE  /\ Copies(e)' <= 1 + faults'
             /\ e \notin published' /\ e \notin done' =>
                  Copies(e)' + (IF cancelled' THEN 1 ELSE 0) <= faults'
             /\ e \notin published' /\ e \in done' /\ cancelled' => Copies(e)' <= faults'
  <2>1. Copies(e) \in Nat /\ Copies(e)' = Copies(e)
    BY <1>0, AppendCopies DEF Copies
  <2>2. /\ Copies(e) <= 1 + faults
        /\ e \notin published /\ e \notin done =>
             Copies(e) + (IF cancelled THEN 1 ELSE 0) <= faults
        /\ e \notin published /\ e \in done /\ cancelled => Copies(e) <= faults
    BY DEF CopiesInv, CopiesAreOwed, DuplicatesNeedFaults
  <2> QED BY <1>0, <2>1, <2>2
<1> QED BY <1>1 DEF CopiesInv, CopiesAreOwed, DuplicatesNeedFaults

\* A step with an XADD of a row of the page: the row is in `done` afterwards, or a fault
\* pays for the copy, counted now or when the cancellation was requested.
LEMMA PublishCopies ==
  ASSUME RelayInv, CopiesInv, NEW e \in batch \ done, stream' = Append(stream, e),
         UNCHANGED <<published, batch>>, cancelled' = FALSE,
         \/ ~ cancelled /\ faults' = faults /\ done' = done \cup {e}
         \/ ~ cancelled /\ faults' = faults + 1 /\ done' = done
         \/ cancelled /\ faults' = faults /\ done' = done
  PROVE  CopiesInv'
<1>0. /\ stream \in Seq(Event) /\ faults \in Nat /\ cancelled \in BOOLEAN
      /\ e \in Event /\ e \notin published
  BY FaultAssumption DEF RelayInv, TypeOK, CopiesInv, PageIsNew
<1>1. ASSUME NEW x \in Event
      PROVE  /\ Copies(x)' <= 1 + faults'
             /\ x \notin published' /\ x \notin done' => Copies(x)' <= faults'
  <2>1. Copies(x) \in Nat /\ Copies(x)' = Copies(x) + (IF x = e THEN 1 ELSE 0)
    BY <1>0, AppendCopies
  <2>2. /\ Copies(x) <= 1 + faults
        /\ x \notin published /\ x \notin done =>
             Copies(x) + (IF cancelled THEN 1 ELSE 0) <= faults
        /\ x \notin published /\ x \in done /\ cancelled => Copies(x) <= faults
    BY DEF CopiesInv, CopiesAreOwed, DuplicatesNeedFaults
  <2>3. CASE x = e
    BY <1>0, <2>1, <2>2, <2>3
  <2>4. CASE x # e
    BY <1>0, <2>1, <2>2, <2>4
  <2> QED BY <2>3, <2>4
<1>2. ASSUME NEW x \in Event
      PROVE  Copies(x)' \in Nat
  BY <1>0, <1>2, AppendCopies
<1>3. faults' \in Nat
  BY <1>0
<1> QED BY <1>1, <1>2, <1>3 DEF CopiesInv, CopiesAreOwed, DuplicatesNeedFaults, PageIsNew

\* Every step keeps the bound.
LEMMA NextCopies == RelayInv /\ CopiesInv /\ [Next]_vars => CopiesInv'
<1> SUFFICES ASSUME RelayInv, CopiesInv, [Next]_vars PROVE CopiesInv'
  OBVIOUS
<1>0. /\ cancelled \in BOOLEAN /\ done \subseteq batch /\ batch \cap published = {}
      /\ faults \in Nat
      /\ pc \in {"down", "boot", "poll", "asleep"} => batch = {}
  BY FaultAssumption DEF RelayInv, TypeOK, CopiesInv, PageIsNew
<1>1. ASSUME UNCHANGED <<stream, faults, cancelled, published, batch, done>> PROVE CopiesInv'
  BY <1>0, <1>1, QuietCopies DEF PageIsNew
<1>2. CASE ProducerStep \/ (\E b \in Binding : WorkerSetup(b)) \/ UNCHANGED vars
  <2>1. UNCHANGED <<stream, faults, cancelled, published, batch, done>>
    BY <1>2 DEF ProducerStep, Begin, Commit, Rollback, WorkerSetup, vars, rowVars, relayVars
  <2> QED BY <1>1, <2>1
<1>3. CASE \/ Start \/ BootDone \/ Wake \/ \E e \in Event : BumpAttempts(e)
           \/ \E b \in Binding : EnsureTopology(b)
  <2>1. UNCHANGED <<stream, faults, cancelled, published, batch, done>>
    BY <1>3 DEF Start, BootDone, Wake, BumpAttempts, EnsureTopology, rowVars, relayVars
  <2> QED BY <1>1, <2>1
<1>4. CASE Fetch
  <2>1. /\ UNCHANGED <<stream, faults, cancelled, published>> /\ done = {}
        /\ batch' \cap published' = {}
    BY <1>0, <1>4 DEF Fetch, CleanCycle, rowVars, FetchUnpublished, Unpublished
  <2> QED BY <1>0, <2>1, QuietCopies DEF PageIsNew
<1>5. CASE MarkPublished
  <2>1. /\ UNCHANGED <<stream, faults>> /\ published' = published \cup done /\ batch' = {}
        /\ cancelled' \in BOOLEAN /\ (cancelled' => cancelled)
    BY <1>0, <1>5 DEF MarkPublished, EndOfCycle, CleanCycle, FailedCycle, Down
  <2> QED BY <1>0, <2>1, QuietCopies DEF PageIsNew
<1>6. ASSUME NEW landed \in BOOLEAN, MarkFails(landed) PROVE CopiesInv'
  <2>1. /\ UNCHANGED <<stream, cancelled>> /\ published \subseteq published' /\ batch' = {}
        /\ faults' = faults + 1
    BY <1>6 DEF MarkFails, FailedCycle, Fault
  <2> QED BY <1>0, <2>1, QuietCopies DEF PageIsNew
<1>7. ASSUME NEW landed \in BOOLEAN, CancelledOutside(landed) PROVE CopiesInv'
  <2>1. /\ UNCHANGED <<stream, faults>> /\ published \subseteq published' /\ batch' = {}
        /\ cancelled /\ cancelled' = FALSE
    BY <1>7 DEF CancelledOutside, Down
  <2> QED BY <1>0, <2>1, QuietCopies DEF PageIsNew
<1>8. CASE FetchFails \/ Crash
  <2>1. /\ UNCHANGED <<stream, published>> /\ faults' = faults + 1 /\ batch' = {}
        /\ cancelled' \in BOOLEAN /\ (cancelled' => cancelled)
    <3>1. CASE FetchFails
      BY <1>0, <3>1 DEF FetchFails, FailedCycle, Fault, rowVars
    <3>2. CASE Crash
      <4>1. cancelled' = FALSE
        BY <3>2 DEF Crash, Down
      <4> QED BY <3>2, <4>1 DEF Crash, Down, Fault, rowVars
    <3> QED BY <1>8, <3>1, <3>2
  <2> QED BY <1>0, <2>1, QuietCopies DEF PageIsNew
<1>9. CASE Cancel \/ BumpFails
  <2>1. /\ UNCHANGED <<stream, published, batch, done>> /\ faults' = faults + 1
        /\ cancelled' \in BOOLEAN
    BY <1>0, <1>9 DEF Cancel, BumpFails, Fault, rowVars
  <2> QED BY <1>0, <2>1, QuietCopies DEF PageIsNew
<1>10. ASSUME NEW e \in Event, Publish(e) PROVE CopiesInv'
  <2>1. /\ e \in batch \ done /\ stream' = Append(stream, e) /\ done' = done \cup {e}
        /\ UNCHANGED <<published, batch, faults>> /\ ~ cancelled /\ cancelled' = cancelled
    BY <1>10 DEF Publish, Current, rowVars
  <2> QED BY <1>0, <2>1, PublishCopies
<1>11. ASSUME NEW e \in Event, NEW landed \in BOOLEAN, NEW exc, PublishFails(e, landed, exc)
       PROVE  CopiesInv'
  <2>1. /\ e \in batch \ done /\ stream' = IF landed THEN Append(stream, e) ELSE stream
        /\ UNCHANGED <<published, batch, done>> /\ ~ cancelled /\ cancelled' = cancelled
        /\ faults' = faults + 1
    BY <1>11 DEF PublishFails, Current, Fault, rowVars
  <2>2. CASE landed
    BY <1>0, <2>1, <2>2, PublishCopies
  <2>3. CASE ~ landed
    BY <1>0, <2>1, <2>3, QuietCopies DEF PageIsNew
  <2> QED BY <2>2, <2>3
<1>12. ASSUME NEW e \in Event, NEW landed \in BOOLEAN, CancelledInLoop(e, landed)
       PROVE  CopiesInv'
  <2>1. /\ e \in batch \ done /\ (stream' = Append(stream, e) \/ stream' = stream)
        /\ UNCHANGED <<published, batch, done, faults>> /\ cancelled /\ cancelled' = FALSE
    BY <1>12 DEF CancelledInLoop, Current, rowVars
  <2>2. CASE stream' = Append(stream, e)
    BY <1>0, <2>1, <2>2, PublishCopies
  <2>3. CASE stream' = stream
    BY <1>0, <2>1, <2>3, QuietCopies DEF PageIsNew
  <2> QED BY <2>1, <2>2, <2>3
<1> QED
  BY <1>2, <1>3, <1>4, <1>5, <1>6, <1>7, <1>8, <1>9, <1>10, <1>11, <1>12
     DEF Next, RelayStep, RelayFault

\* A duplicate on the stream needs a fault: an event has at most one copy more than calls
\* failed, processes died and cancellations were requested.
THEOREM RelayDuplicatesNeedFaults == SafeSpec => []DuplicatesNeedFaults
<1>1. Init => CopiesInv
  <2> SUFFICES ASSUME Init PROVE CopiesInv
    OBVIOUS
  <2>1. ASSUME NEW e \in Event PROVE Copies(e) = 0
    <3>1. {i \in 1..Len(stream) : stream[i] = e} = {}
      BY DEF Init
    <3> QED BY <3>1, FS_EmptySet DEF Copies
  <2> QED BY <2>1 DEF Init, CopiesInv, PageIsNew, CopiesAreOwed, DuplicatesNeedFaults
<1>2. CopiesInv => DuplicatesNeedFaults
  BY DEF CopiesInv
<1> QED BY InitRelayInv, NextRelayInv, NextCopies, <1>1, <1>2, PTL DEF SafeSpec
=============================================================================
