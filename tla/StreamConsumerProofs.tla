------------------------ MODULE StreamConsumerProofs ------------------------
(***************************************************************************)
(* For every number of processes, entries and events, any batch size, any  *)
(* number of lanes, deliveries and faults: an event takes effect at most   *)
(* once, an acknowledged one has taken effect, and the messages about one  *)
(* aggregate run one after the other.  And for every death threshold that  *)
(* covers the handlers of one batch: no entry is lost.                     *)
(***************************************************************************)
EXTENDS StreamConsumer, FiniteSetTheorems, SequenceTheorems,
        WellFoundedInduction, TLAPS

-----------------------------------------------------------------------------
(* Sets of naturals: the least, the greatest, the oldest n, in order.      *)

\* Every non-empty set of naturals has a least member.
LEMMA LeastNatural ==
  ASSUME NEW T \in SUBSET Nat, T # {}
  PROVE  \E x \in T : \A y \in T : x <= y
<1> DEFINE R == OpToRel(<, Nat)
<1>1. IsWellFoundedOn(R, Nat)
  BY NatLessThanWellFounded
<1>2. \A x, y \in Nat : x < y => <<x, y>> \in R
  BY DEF OpToRel
<1> HIDE DEF R
<1>3. PICK x \in T : \A y \in T : ~(<<y, x>> \in R)
  BY <1>1, WFMin
<1>4. \A y \in T : ~(y < x)
  BY <1>2, <1>3
<1> QED BY <1>4

\* A non-empty bounded set of naturals has a greatest member.
LEMMA GreatestNatural ==
  ASSUME NEW T \in SUBSET Nat, T # {}, NEW n \in Nat, \A x \in T : x <= n
  PROVE  \E x \in T : \A y \in T : y <= x
<1> DEFINE U == {b \in Nat : \A x \in T : x <= b}
<1>1. n \in U
  OBVIOUS
<1>2. PICK b \in U : \A c \in U : b <= c
  <2>1. U \in SUBSET Nat /\ U # {}
    BY <1>1
  <2> HIDE DEF U
  <2> QED BY <2>1, LeastNatural
<1>3. b \in Nat /\ \A x \in T : x <= b
  BY <1>2
<1>4. CASE b \in T
  BY <1>3, <1>4
<1>5. CASE b \notin T
  <2>1. PICK x \in T : TRUE
    OBVIOUS
  <2>2. \A y \in T : y \in Nat /\ y < b
    BY <1>3, <1>5
  <2>3. b - 1 \in Nat /\ \A y \in T : y <= b - 1
    BY <1>3, <2>1, <2>2
  <2>4. b - 1 \in U
    BY <2>3
  <2>5. b <= b - 1
    BY <1>2, <2>4
  <2> QED BY <1>3, <2>5
<1> QED BY <1>4, <1>5

\* The members of S below e.
Below(S, e) == {f \in S : f < e}

\* A set of entries, and the part of it below an entry, are finite.
LEMMA BelowIsFinite ==
  ASSUME NEW S \in SUBSET Entry, NEW e
  PROVE  /\ IsFiniteSet(S) /\ Cardinality(S) \in Nat /\ S \subseteq Nat
         /\ IsFiniteSet(Below(S, e)) /\ Cardinality(Below(S, e)) \in Nat
         /\ \A f \in S : f <= NumEntries
<1>1. NumEntries \in Nat /\ Entry \subseteq Nat /\ IsFiniteSet(Entry)
      /\ \A f \in Entry : f <= NumEntries
  BY EntryAssumption, FS_Interval DEF Entry
<1>2. IsFiniteSet(S)
  BY <1>1, FS_Subset
<1>3. Below(S, e) \subseteq S
  BY DEF Below
<1>4. IsFiniteSet(Below(S, e))
  BY <1>2, <1>3, FS_Subset
<1> QED BY <1>1, <1>2, <1>4, FS_CardinalityType

\* COUNT n returns the oldest: whatever is older than one of them is one of them, and
\* there are at most n.
LEMMA OldestAreOldest ==
  ASSUME NEW S \in SUBSET Entry, NEW n \in Nat
  PROVE  /\ Oldest(S, n) \subseteq S
         /\ \A e \in Oldest(S, n) : \A f \in S : f < e => f \in Oldest(S, n)
         /\ Cardinality(Oldest(S, n)) \in Nat
         /\ Cardinality(Oldest(S, n)) <= n
<1> DEFINE O == Oldest(S, n)
<1>1. O = {e \in S : Cardinality(Below(S, e)) < n}
  BY DEF Oldest, Below
<1>2. O \subseteq S /\ O \subseteq Entry
  BY <1>1
<1>3. ASSUME NEW e \in O, NEW f \in S, f < e PROVE f \in O
  <2>0. e \in Nat /\ f \in Nat /\ S \subseteq Nat
    BY <1>2, BelowIsFinite
  <2>1. Below(S, f) \subseteq Below(S, e)
    <3>1. ASSUME NEW g \in S, g < f PROVE g < e
      <4>1. g \in Nat
        BY <2>0
      <4> QED BY <4>1, <2>0, <1>3, <3>1
    <3> QED BY <3>1 DEF Below
  <2>2. IsFiniteSet(Below(S, e)) /\ Cardinality(Below(S, e)) \in Nat
        /\ Cardinality(Below(S, f)) \in Nat
    BY BelowIsFinite
  <2>3. Cardinality(Below(S, f)) <= Cardinality(Below(S, e))
    BY <2>1, <2>2, FS_Subset
  <2>4. Cardinality(Below(S, e)) < n
    BY <1>1
  <2> QED BY <1>1, <2>2, <2>3, <2>4
<1> HIDE DEF O
<1>4. IsFiniteSet(O) /\ Cardinality(O) \in Nat
  BY <1>2, BelowIsFinite
<1>5. Cardinality(O) <= n
  <2>1. CASE O = {}
    BY <2>1, FS_EmptySet
  <2>2. CASE O # {}
    <3>1. O \in SUBSET Nat /\ NumEntries \in Nat /\ \A e \in O : e <= NumEntries
      BY <1>2, BelowIsFinite, EntryAssumption
    <3>2. PICK m \in O : \A e \in O : e <= m
      BY <2>2, <3>1, GreatestNatural
    <3>3. O \ {m} \subseteq Below(S, m)
      BY <1>2, <3>1, <3>2 DEF Below
    <3>4. IsFiniteSet(Below(S, m)) /\ Cardinality(Below(S, m)) \in Nat
          /\ Cardinality(Below(S, m)) < n
      BY <1>1, <3>2, BelowIsFinite DEF O
    <3>5. Cardinality(O \ {m}) <= Cardinality(Below(S, m))
      BY <3>3, <3>4, FS_Subset
    <3>6. Cardinality(O \ {m}) = Cardinality(O) - 1
      BY <1>4, <3>2, FS_RemoveElement
    <3> QED BY <1>4, <3>4, <3>5, <3>6
  <2> QED BY <2>1, <2>2
<1> QED BY <1>2, <1>3, <1>4, <1>5 DEF O

\* InOrder enumerates its set: every place from 1 to the number of members has one.
LEMMA InOrderEnumerates ==
  ASSUME NEW S \in SUBSET Entry
  PROVE  \A i \in 1..Cardinality(S) : InOrder(S)[i] \in S
<1> DEFINE N == Cardinality(S)
           Rank(e) == Cardinality(Below(S, e))
           Bad == {i \in 1..N : ~\E e \in S : Rank(e) = i - 1}
<1>0. /\ S \subseteq Nat /\ N \in Nat /\ IsFiniteSet(S)
      /\ \A e \in S : Rank(e) \in Nat /\ IsFiniteSet(Below(S, e))
  BY BelowIsFinite
<1>1. Bad = {}
  <2> SUFFICES ASSUME Bad # {} PROVE FALSE
    OBVIOUS
  <2>1. Bad \in SUBSET Nat
    BY <1>0
  <2>2. PICK i \in Bad : \A j \in Bad : i <= j
    <3> HIDE DEF Bad
    <3> QED BY <2>1, LeastNatural
  <2>3. i \in 1..N /\ ~\E e \in S : Rank(e) = i - 1
    BY <2>2
  <2>4. S # {}
    <3>1. N # 0
      BY <2>3, <1>0
    <3> QED BY <3>1, FS_EmptySet
  <2>5. CASE i = 1
    <3>1. PICK e \in S : \A f \in S : e <= f
      BY <1>0, <2>4, LeastNatural
    <3>2. Below(S, e) = {}
      <4>1. ASSUME NEW f \in S PROVE ~(f < e)
        <5>1. e \in Nat /\ f \in Nat /\ e <= f
          BY <1>0, <3>1
        <5> QED BY <5>1
      <4> QED BY <4>1 DEF Below
    <3>3. Rank(e) = 0
      BY <3>2, FS_EmptySet
    <3> QED BY <2>3, <2>5, <3>3
  <2>6. CASE i # 1
    <3>1. i - 1 \in 1..N /\ ~(i <= i - 1)
      BY <2>3, <2>6, <1>0
    <3>2. i - 1 \notin Bad
      BY <2>2, <3>1
    <3>3. PICK e \in S : Rank(e) = i - 2
      BY <3>1, <3>2
    <3> DEFINE L == Below(S, e) \cup {e}
               U == {f \in S : e < f}
    <3>4. IsFiniteSet(L) /\ Cardinality(L) = i - 1
      <4>1. e \notin Below(S, e) /\ IsFiniteSet(Below(S, e)) /\ Cardinality(Below(S, e)) = i - 2
        BY <1>0, <3>3 DEF Below
      <4>2. Cardinality(L) = (i - 2) + 1 /\ IsFiniteSet(L)
        BY <4>1, FS_AddElement
      <4> QED BY <4>2, <2>3
    <3>5. U # {}
      <4> SUFFICES ASSUME U = {} PROVE FALSE
        OBVIOUS
      <4>1. L = S
        <5>1. ASSUME NEW f \in S PROVE f < e \/ f = e
          <6>1. f \in Nat /\ e \in Nat /\ ~(e < f)
            BY <1>0
          <6> QED BY <6>1
        <5> QED BY <5>1 DEF Below
      <4>2. N = i - 1
        BY <3>4, <4>1
      <4> QED BY <4>2, <2>3, <1>0
    <3>6. PICK f \in U : \A g \in U : f <= g
      <4>1. U \in SUBSET Nat
        BY <1>0
      <4> HIDE DEF U
      <4> QED BY <3>5, <4>1, LeastNatural
    <3>7. f \in S /\ e < f /\ \A g \in S : e < g => f <= g
      BY <3>6
    <3>8. Below(S, f) = L
      <4>1. ASSUME NEW g \in S PROVE g < f <=> (g < e \/ g = e)
        <5>1. g \in Nat /\ e \in Nat /\ f \in Nat /\ e < f /\ (e < g => f <= g)
          BY <1>0, <3>7
        <5> QED BY <5>1
      <4> QED BY <4>1 DEF Below
    <3>9. Rank(f) = i - 1
      BY <3>4, <3>8
    <3> QED BY <2>3, <3>7, <3>9
  <2> QED BY <2>5, <2>6
<1>2. ASSUME NEW i \in 1..N PROVE InOrder(S)[i] \in S
  <2>1. \E e \in S : Cardinality({f \in S : f < e}) = i - 1
    BY <1>1 DEF Below
  <2>2. InOrder(S)[i] = CHOOSE e \in S : Cardinality({f \in S : f < e}) = i - 1
    BY DEF InOrder
  <2> QED BY <2>1, <2>2
<1> QED BY <1>2

-----------------------------------------------------------------------------
(* Lanes.                                                                  *)

\* FirstSeen is the first message with i's key.
LEMMA FirstSeenIsFirst ==
  ASSUME NEW keys, NEW i \in Nat, 1 <= i
  PROVE  LET a == FirstSeen(keys, i) IN
         a \in 1..i /\ keys[a] = keys[i] /\ \A k \in 1..(a - 1) : keys[k] # keys[i]
<1> DEFINE T == {k \in 1..i : keys[k] = keys[i]}
<1>1. T \in SUBSET Nat /\ i \in T
  OBVIOUS
<1>2. PICK m \in T : \A k \in T : m <= k
  <2> HIDE DEF T
  <2> QED BY <1>1, LeastNatural
<1>3. \A k \in 1..(m - 1) : keys[k] # keys[i]
  <2> SUFFICES ASSUME NEW k \in 1..(m - 1), keys[k] = keys[i] PROVE FALSE
    OBVIOUS
  <2>1. m \in 1..i /\ k \in 1..i
    OBVIOUS
  <2>2. m <= k
    BY <1>2, <2>1
  <2> QED BY <2>1, <2>2
<1>4. \E a \in 1..i : keys[a] = keys[i] /\ \A k \in 1..(a - 1) : keys[k] # keys[i]
  BY <1>2, <1>3
<1> QED BY <1>4 DEF FirstSeen

\* Of two messages with one key the earlier runs first, in the same lane.
LEMMA SameKeyPrecedes ==
  ASSUME NEW keys, NEW width, NEW i \in Nat, NEW j \in Nat, 1 <= i, i < j,
         keys[i] = keys[j]
  PROVE  Precedes(keys, width, i, j)
<1> DEFINE a == FirstSeen(keys, i)
           b == FirstSeen(keys, j)
<1>1. /\ a \in 1..i /\ keys[a] = keys[i] /\ \A k \in 1..(a - 1) : keys[k] # keys[i]
      /\ b \in 1..j /\ keys[b] = keys[j] /\ \A k \in 1..(b - 1) : keys[k] # keys[j]
  <2>1. 1 <= j
    OBVIOUS
  <2> QED BY <2>1, FirstSeenIsFirst
<1> HIDE DEF a, b
<1>2. a = b
  <2>1. a \in Nat /\ b \in Nat /\ 1 <= a /\ 1 <= b
    BY <1>1
  <2>2. CASE a < b
    <3>1. a \in 1..(b - 1)
      BY <2>1, <2>2
    <3> QED BY <1>1, <3>1
  <2>3. CASE b < a
    <3>1. b \in 1..(a - 1)
      BY <2>1, <2>3
    <3> QED BY <1>1, <3>1
  <2> QED BY <2>1, <2>2, <2>3
<1>3. Partition(keys, i) = Partition(keys, j)
  BY <1>2 DEF Partition, a, b
<1> QED BY <1>3 DEF Precedes, Lane

\* A function on an initial segment is a sequence of that length.
LEMMA SegmentIsSeq ==
  ASSUME NEW n \in Nat, NEW S, NEW f \in [1..n -> S]
  PROVE  f \in Seq(S) /\ Len(f) = n
BY SeqDef

-----------------------------------------------------------------------------
(* Types.                                                                  *)

Message == [entry : Entry, n : 1..MaxDeliveries, trimmed : BOOLEAN]
SweepState == [phase : {"none", "list", "reclaim", "recheck", "delete"},
               todo : SUBSET Consumer, owing : SUBSET Consumer,
               ghost : Consumer \cup {NoOne}]

\* What Redis holds has its type.
RedisTypes ==
  /\ added \in 0..NumEntries /\ cursor \in 0..added /\ gone \subseteq 1..added
  /\ owner \in [Entry -> Consumer \cup {NoOne}]
  /\ deliveries \in [Entry -> 0..MaxDeliveries]
  /\ age \in [Entry -> 0..StaleIdle]
  /\ registered \subseteq Consumer
  /\ idle \in [Consumer -> 0..StaleIdle]
  /\ acked \subseteq Entry /\ dlq \subseteq Entry /\ dropped \subseteq Entry

DbTypes == ledger \subseteq Event /\ effects \in [Event -> Nat]

\* What a process's loop and sweep hold has its type.
LoopTypes ==
  /\ pc \in [Consumer -> {"unborn", "ready", "reading", "batch", "sweep", "exit", "gone"}]
  /\ stopping \subseteq Consumer
  /\ sweep \in [Consumer -> SweepState]

\* What a process's batch holds has its type, and its three sequences are in step.
BatchTypes ==
  /\ stat \in [Consumer -> Seq(MsgState)]
  /\ ran \in [Consumer -> Seq(0..HandlerTicks)]
  /\ batch \in [Consumer -> Seq(Message)]
  /\ \A c \in Consumer :
       /\ Len(stat[c]) = Len(ran[c])
       /\ pc[c] = "batch" => Len(batch[c]) = Len(stat[c])
       /\ pc[c] # "batch" => stat[c] = <<>>
       /\ pc[c] \notin {"reading", "batch"} => batch[c] = <<>>

FaultTypes == faults \in 0..(MaxFaults + 1)

\* The type invariant, in the parts the actions change.
LEMMA TypeParts ==
  /\ TypeOK <=> RedisTypes /\ DbTypes /\ LoopTypes /\ BatchTypes /\ FaultTypes
  /\ TypeOK' <=> RedisTypes' /\ DbTypes' /\ LoopTypes' /\ BatchTypes' /\ FaultTypes'
BY DEF TypeOK, RedisTypes, DbTypes, LoopTypes, BatchTypes, FaultTypes, Message, SweepState

\* A process between batches holds nothing, and the others what they held.
LEMMA ForgetTypes ==
  ASSUME TypeOK, NEW c \in Consumer, NEW p \in {"ready", "exit", "gone"},
         pc' = [pc EXCEPT ![c] = p], Forget(c), UNCHANGED stopping
  PROVE  LoopTypes' /\ BatchTypes'
<1>1. LoopTypes /\ BatchTypes
  BY TypeParts
<1>2. LoopTypes'
  <2>1. NoSweep \in SweepState
    BY DEF NoSweep, SweepState
  <2>2. sweep' = [sweep EXCEPT ![c] = NoSweep]
    BY DEF Forget
  <2> QED BY <1>1, <2>1, <2>2 DEF LoopTypes
<1>3. /\ batch' \in [Consumer -> Seq(Message)] /\ stat' \in [Consumer -> Seq(MsgState)]
      /\ ran' \in [Consumer -> Seq(0..HandlerTicks)]
  <2>1. \A S : <<>> \in Seq(S)
    BY EmptySeq
  <2>2. <<>> \in Seq(Message) /\ <<>> \in Seq(MsgState) /\ <<>> \in Seq(0..HandlerTicks)
    BY <2>1
  <2> QED BY <1>1, <2>2 DEF BatchTypes, Forget
<1>4. ASSUME NEW d \in Consumer
      PROVE  /\ Len(stat'[d]) = Len(ran'[d])
             /\ pc'[d] = "batch" => Len(batch'[d]) = Len(stat'[d])
             /\ pc'[d] # "batch" => stat'[d] = <<>>
             /\ pc'[d] \notin {"reading", "batch"} => batch'[d] = <<>>
  <2>1. CASE d = c
    BY <1>1, <2>1 DEF BatchTypes, LoopTypes, Forget
  <2>2. CASE d # c
    BY <1>1, <2>2 DEF BatchTypes, LoopTypes, Forget
  <2> QED BY <2>1, <2>2
<1> QED BY <1>2, <1>3, <1>4 DEF BatchTypes

\* A message of a running batch changes its state, the others keep theirs.
LEMMA Moved ==
  ASSUME BatchTypes, NEW c \in Consumer, NEW i \in 1..Len(stat[c]), NEW s \in MsgState,
         Move(c, i, s)
  PROVE  /\ stat' \in [Consumer -> Seq(MsgState)]
         /\ \A d \in Consumer : Len(stat'[d]) = Len(stat[d])
         /\ \A d \in Consumer : \A j \in 1..Len(stat[d]) :
              stat'[d][j] = IF d = c /\ j = i THEN s ELSE stat[d][j]
<1>1. stat \in [Consumer -> Seq(MsgState)]
  BY DEF BatchTypes
<1>2. stat' = [stat EXCEPT ![c] = [stat[c] EXCEPT ![i] = s]]
  BY DEF Move
<1> DEFINE t == [stat[c] EXCEPT ![i] = s]
<1>3. stat[c] \in Seq(MsgState)
  BY <1>1
<1>4. t \in Seq(MsgState) /\ Len(t) = Len(stat[c])
      /\ \A j \in 1..Len(stat[c]) : t[j] = IF j = i THEN s ELSE stat[c][j]
  BY <1>3, ExceptSeq
<1> HIDE DEF t
<1>5. stat' = [stat EXCEPT ![c] = t]
  BY <1>2 DEF t
<1>6. stat'[c] = t /\ \A d \in Consumer : d # c => stat'[d] = stat[d]
  BY <1>1, <1>5
<1> QED BY <1>1, <1>4, <1>5, <1>6

\* ... and the batch stays well typed.
LEMMA MoveTypes ==
  ASSUME BatchTypes, NEW c \in Consumer, NEW i \in 1..Len(stat[c]), NEW s \in MsgState,
         Move(c, i, s), UNCHANGED <<pc, batch, ran>>
  PROVE  BatchTypes'
<1>1. /\ stat' \in [Consumer -> Seq(MsgState)]
      /\ \A d \in Consumer : Len(stat'[d]) = Len(stat[d])
  BY Moved
<1>2. ASSUME NEW d \in Consumer, stat[d] = <<>> PROVE stat'[d] = <<>>
  <2>1. stat'[d] \in Seq(MsgState) /\ Len(stat'[d]) = 0
    BY <1>1, <1>2
  <2> QED BY <2>1, EmptySeq
<1> QED BY <1>1, <1>2 DEF BatchTypes

-----------------------------------------------------------------------------

\* A read returns well-typed messages and Redis keeps its types.
LEMMA ReadRecoveredTypes ==
  ASSUME TypeOK, NEW c \in Consumer, ReadRecovered(c)
  PROVE  TypeOK' /\ Len(batch'[c]) <= BatchCount /\ Len(batch'[c]) \in Nat
<1> USE EntryAssumption, LimitAssumption, BatchAssumption
<1> DEFINE got == Oldest(PendingOf(c), BatchCount)
           Read(i) == [entry |-> InOrder(got)[i], n |-> deliveries'[InOrder(got)[i]],
                       trimmed |-> InOrder(got)[i] \in gone]
           b == [i \in 1..Cardinality(got) |-> Read(i)]
<1>0. RedisTypes /\ DbTypes /\ LoopTypes /\ BatchTypes /\ FaultTypes
  BY TypeParts
<1>1. /\ got \subseteq Entry /\ Cardinality(got) \in Nat /\ Cardinality(got) <= BatchCount
  <2>1. PendingOf(c) \in SUBSET Entry
    BY DEF PendingOf
  <2> QED BY <2>1, OldestAreOldest
<1>2. \A i \in 1..Cardinality(got) : InOrder(got)[i] \in got
  BY <1>1, InOrderEnumerates
<1>a. /\ deliveries' = [e \in Entry |-> IF e \in got THEN Capped(deliveries[e] + 1)
                                        ELSE deliveries[e]]
      /\ age' = [e \in Entry |-> IF e \in got THEN 0 ELSE age[e]]
      /\ batch' = [batch EXCEPT ![c] = b]
      /\ pc[c] = "ready" /\ pc' = [pc EXCEPT ![c] = "reading"]
      /\ registered' = registered \cup {c} /\ idle' = [idle EXCEPT ![c] = 0]
      /\ UNCHANGED <<added, gone, cursor, owner, acked, dlq, dropped, ledger, effects,
                     stopping, stat, ran, sweep, faults>>
  BY DEF ReadRecovered, Touch, endVars, dbVars
<1> HIDE DEF got
<1>3. \A e \in got : Capped(deliveries[e] + 1) \in 1..MaxDeliveries /\ deliveries'[e] \in 1..MaxDeliveries
  <2>1. ASSUME NEW e \in got PROVE Capped(deliveries[e] + 1) \in 1..MaxDeliveries
    <3>1. deliveries[e] \in 0..MaxDeliveries
      BY <1>0, <1>1 DEF RedisTypes
    <3> QED BY <3>1 DEF Capped
  <2> QED BY <2>1, <1>1, <1>a
<1>4. b \in Seq(Message) /\ Len(b) = Cardinality(got)
  <2>1. ASSUME NEW i \in 1..Cardinality(got) PROVE Read(i) \in Message
    <3>1. InOrder(got)[i] \in Entry /\ deliveries'[InOrder(got)[i]] \in 1..MaxDeliveries
      BY <1>1, <1>2, <1>3
    <3> QED BY <3>1 DEF Message
  <2> HIDE DEF Read
  <2>2. b \in [1..Cardinality(got) -> Message]
    BY <2>1
  <2> HIDE DEF b
  <2> QED BY <1>1, <2>2, SegmentIsSeq
<1> HIDE DEF b
<1>5. RedisTypes'
  <2>1. deliveries' \in [Entry -> 0..MaxDeliveries]
    <3>1. ASSUME NEW e \in Entry, e \notin got PROVE deliveries[e] \in 0..MaxDeliveries
      BY <1>0 DEF RedisTypes
    <3>2. ASSUME NEW e \in got PROVE Capped(deliveries[e] + 1) \in 0..MaxDeliveries
      BY <1>3
    <3> QED BY <3>1, <3>2, <1>a, Zenon
  <2>2. age' \in [Entry -> 0..StaleIdle]
    BY <1>0, <1>a DEF RedisTypes
  <2>3. idle' \in [Consumer -> 0..StaleIdle]
    BY <1>0, <1>a DEF RedisTypes
  <2> QED BY <2>1, <2>2, <2>3, <1>0, <1>a DEF RedisTypes
<1>6. LoopTypes' /\ DbTypes' /\ FaultTypes'
  BY <1>0, <1>a DEF LoopTypes, DbTypes, FaultTypes
<1>7. batch' \in [Consumer -> Seq(Message)] /\ batch'[c] = b
      /\ \A d \in Consumer : d # c => batch'[d] = batch[d] /\ pc'[d] = pc[d]
  BY <1>0, <1>4, <1>a DEF BatchTypes, LoopTypes
<1>8. BatchTypes'
  <2>1. pc'[c] = "reading" /\ stat[c] = <<>>
    BY <1>0, <1>a DEF BatchTypes, LoopTypes
  <2> QED BY <1>0, <1>7, <1>a, <2>1 DEF BatchTypes
<1> QED BY <1>1, <1>4, <1>5, <1>6, <1>7, <1>8, TypeParts

\* What XREADGROUP > does to the group: entries past the cursor, none of them cut, and
\* the cursor moves to the last of them.
LEMMA FreshIsPastTheCursor ==
  ASSUME RedisTypes, NEW c \in Consumer, ReadFresh(c)
  PROVE  LET got == Oldest(Unread, BatchCount) IN
         /\ Unread \in SUBSET Entry /\ got \subseteq Unread
         /\ \A e \in got : e \in Entry /\ e \in Nat /\ cursor < e /\ e <= added
         /\ Cardinality(got) \in Nat /\ Cardinality(got) <= BatchCount
         /\ got = {} => cursor' = cursor
         /\ got # {} => cursor' \in got /\ \A f \in got : f <= cursor'
         /\ cursor' \in 0..added /\ cursor <= cursor'
<1> USE EntryAssumption, BatchAssumption
<1> DEFINE got == Oldest(Unread, BatchCount)
<1>0. added \in 0..NumEntries /\ cursor \in 0..added
  BY DEF RedisTypes
<1>1. Unread \in SUBSET Entry
  BY <1>0 DEF Unread, Entry
<1>2. got \subseteq Unread /\ Cardinality(got) \in Nat /\ Cardinality(got) <= BatchCount
  BY <1>1, OldestAreOldest
<1>3. cursor' = IF got = {} THEN cursor ELSE CHOOSE e \in got : \A f \in got : f <= e
  BY DEF ReadFresh
<1> HIDE DEF got
<1>4. ASSUME NEW e \in got PROVE e \in Entry /\ e \in Nat /\ cursor < e /\ e <= added
  <2>1. e \in (cursor + 1)..added
    BY <1>2 DEF Unread
  <2> QED BY <1>0, <2>1 DEF Entry
<1>5. CASE got = {}
  BY <1>0, <1>1, <1>2, <1>3, <1>5 DEF got
<1>6. CASE got # {}
  <2>1. \E e \in got : \A f \in got : f <= e
    <3>1. got \in SUBSET Nat /\ added \in Nat /\ \A e \in got : e <= added
      BY <1>0, <1>4
    <3> QED BY <1>6, <3>1, GreatestNatural
  <2>2. cursor' \in got /\ \A f \in got : f <= cursor'
    BY <1>3, <1>6, <2>1
  <2>3. cursor' \in Nat /\ cursor < cursor' /\ cursor' <= added
    BY <1>4, <2>2
  <2>4. cursor' \in 0..added /\ cursor <= cursor'
    BY <1>0, <2>3
  <2> QED BY <1>1, <1>2, <1>4, <1>6, <2>2, <2>4 DEF got
<1> QED BY <1>5, <1>6

\* XREADGROUP adds at most BatchCount entries to one process's batch, all of them to do.
LEMMA ReadFreshTypes ==
  ASSUME TypeOK, NEW c \in Consumer, ReadFresh(c)
  PROVE  /\ TypeOK'
         /\ Len(batch'[c]) <= Len(batch[c]) + BatchCount
         /\ \A i \in 1..Len(stat'[c]) : stat'[c][i] = "todo"
         /\ \A d \in Consumer : d # c => stat'[d] = stat[d] /\ batch'[d] = batch[d]
<1> USE EntryAssumption, LimitAssumption, BatchAssumption
<1> DEFINE got == Oldest(Unread, BatchCount)
           Read(i) == [entry |-> InOrder(got)[i], n |-> 1, trimmed |-> FALSE]
           fresh == [i \in 1..Cardinality(got) |-> Read(i)]
           all == batch[c] \o fresh
<1>0. RedisTypes /\ DbTypes /\ LoopTypes /\ BatchTypes /\ FaultTypes
  BY TypeParts
<1>1. /\ got \subseteq Entry /\ Cardinality(got) \in Nat /\ Cardinality(got) <= BatchCount
      /\ cursor' \in 0..added
  BY <1>0, FreshIsPastTheCursor
<1>2. \A i \in 1..Cardinality(got) : InOrder(got)[i] \in got
  BY <1>1, InOrderEnumerates
<1>a. /\ owner' = [e \in Entry |-> IF e \in got THEN c ELSE owner[e]]
      /\ deliveries' = [e \in Entry |-> IF e \in got THEN 1 ELSE deliveries[e]]
      /\ age' = [e \in Entry |-> IF e \in got THEN 0 ELSE age[e]]
      /\ batch' = [batch EXCEPT ![c] = all]
      /\ stat' = [stat EXCEPT ![c] = [i \in 1..Len(all) |-> "todo"]]
      /\ ran' = [ran EXCEPT ![c] = [i \in 1..Len(all) |-> 0]]
      /\ pc[c] = "reading" /\ pc' = [pc EXCEPT ![c] = "batch"]
      /\ registered' = registered \cup {c} /\ idle' = [idle EXCEPT ![c] = 0]
      /\ UNCHANGED <<added, gone, acked, dlq, dropped, ledger, effects, stopping, sweep,
                     faults>>
  BY DEF ReadFresh, Touch, endVars, dbVars
<1> HIDE DEF got
<1>3. fresh \in Seq(Message) /\ Len(fresh) = Cardinality(got)
  <2>1. ASSUME NEW i \in 1..Cardinality(got) PROVE Read(i) \in Message
    <3>1. InOrder(got)[i] \in Entry /\ 1 \in 1..MaxDeliveries
      BY <1>1, <1>2
    <3> QED BY <3>1 DEF Message
  <2> HIDE DEF Read
  <2>2. fresh \in [1..Cardinality(got) -> Message]
    BY <2>1
  <2> HIDE DEF fresh
  <2> QED BY <1>1, <2>2, SegmentIsSeq
<1> HIDE DEF fresh
<1>4. batch[c] \in Seq(Message) /\ Len(batch[c]) \in Nat
  BY <1>0, LenProperties DEF BatchTypes
<1>5. all \in Seq(Message) /\ Len(all) = Len(batch[c]) + Cardinality(got) /\ Len(all) \in Nat
  <2>1. all \in Seq(Message) /\ Len(all) = Len(batch[c]) + Len(fresh)
    BY <1>3, <1>4, ConcatProperties
  <2> QED BY <1>1, <1>3, <1>4, <2>1
<1> HIDE DEF all
<1> DEFINE todo == [i \in 1..Len(all) |-> "todo"]
           zero == [i \in 1..Len(all) |-> 0]
<1>6. todo \in Seq(MsgState) /\ Len(todo) = Len(all)
  <2>1. todo \in [1..Len(all) -> MsgState]
    BY DEF MsgState
  <2> HIDE DEF todo
  <2> QED BY <1>5, <2>1, SegmentIsSeq
<1>7. zero \in Seq(0..HandlerTicks) /\ Len(zero) = Len(all)
  <2>1. zero \in [1..Len(all) -> 0..HandlerTicks]
    OBVIOUS
  <2> HIDE DEF zero
  <2> QED BY <1>5, <2>1, SegmentIsSeq
<1>8. \A i \in 1..Len(todo) : todo[i] = "todo"
  BY <1>6
<1> HIDE DEF todo, zero
<1>9. /\ batch' = [batch EXCEPT ![c] = all] /\ stat' = [stat EXCEPT ![c] = todo]
      /\ ran' = [ran EXCEPT ![c] = zero]
  BY <1>a DEF todo, zero
<1>10. RedisTypes'
  BY <1>0, <1>1, <1>a DEF RedisTypes
<1>11. LoopTypes' /\ DbTypes' /\ FaultTypes'
  BY <1>0, <1>a DEF LoopTypes, DbTypes, FaultTypes
<1>12. /\ batch' \in [Consumer -> Seq(Message)] /\ batch'[c] = all
       /\ stat' \in [Consumer -> Seq(MsgState)] /\ stat'[c] = todo
       /\ ran' \in [Consumer -> Seq(0..HandlerTicks)] /\ ran'[c] = zero
  BY <1>0, <1>5, <1>6, <1>7, <1>9 DEF BatchTypes
<1>13. \A d \in Consumer : d # c =>
         batch'[d] = batch[d] /\ stat'[d] = stat[d] /\ ran'[d] = ran[d] /\ pc'[d] = pc[d]
  BY <1>0, <1>9, <1>a DEF BatchTypes, LoopTypes
<1>14. pc'[c] = "batch"
  BY <1>0, <1>a DEF LoopTypes
<1>15. BatchTypes'
  BY <1>0, <1>6, <1>7, <1>12, <1>13, <1>14 DEF BatchTypes
<1>16. Len(batch'[c]) <= Len(batch[c]) + BatchCount
  BY <1>1, <1>4, <1>5, <1>12
<1> QED BY <1>8, <1>10, <1>11, <1>12, <1>13, <1>15, <1>16, TypeParts

\* Time: a running handler's clock stays within HandlerTicks, and a silent name's and a
\* pending entry's within StaleIdle.
LEMMA TickTypes ==
  ASSUME TypeOK, Tick
  PROVE  TypeOK'
<1> USE EntryAssumption, LimitAssumption
<1>0. RedisTypes /\ DbTypes /\ LoopTypes /\ BatchTypes /\ FaultTypes
  BY TypeParts
<1>1. /\ \A t \in 0..StaleIdle : Older(t) \in 0..StaleIdle
      /\ 0 \in 0..StaleIdle
  BY DEF Older
<1>2. RedisTypes'
  <2>1. idle' \in [Consumer -> 0..StaleIdle]
    BY <1>0, <1>1 DEF Tick, RedisTypes
  <2>2. age' \in [Entry -> 0..StaleIdle]
    BY <1>0, <1>1 DEF Tick, RedisTypes
  <2> QED BY <1>0, <2>1, <2>2 DEF Tick, RedisTypes, endVars
<1>3. LoopTypes' /\ DbTypes' /\ FaultTypes'
  BY <1>0 DEF Tick, LoopTypes, DbTypes, FaultTypes, dbVars
<1>4. ASSUME NEW c \in Consumer
      PROVE  ran'[c] \in Seq(0..HandlerTicks) /\ Len(ran'[c]) = Len(stat[c])
  <2> DEFINE r == [i \in 1..Len(stat[c]) |-> IF Running(c, i) THEN ran[c][i] + 1 ELSE ran[c][i]]
  <2>1. ran[c] \in Seq(0..HandlerTicks) /\ Len(ran[c]) = Len(stat[c]) /\ Len(ran[c]) \in Nat
    BY <1>0, LenProperties DEF BatchTypes
  <2>2. ASSUME NEW i \in 1..Len(stat[c])
        PROVE  (IF Running(c, i) THEN ran[c][i] + 1 ELSE ran[c][i]) \in 0..HandlerTicks
    <3>1. ran[c][i] \in 0..HandlerTicks
      BY <2>1, ElementOfSeq
    <3>2. Running(c, i) => ran[c][i] < HandlerTicks
      BY DEF Tick, Running, At
    <3> QED BY <3>1, <3>2
  <2>3. r \in [1..Len(stat[c]) -> 0..HandlerTicks]
    BY <2>2
  <2>4. ran'[c] = r
    BY DEF Tick
  <2> HIDE DEF r
  <2> QED BY <2>1, <2>3, <2>4, SegmentIsSeq
<1>5. ran' \in [Consumer -> Seq(0..HandlerTicks)]
  <2>1. ran' = [c \in Consumer |-> ran'[c]]
    BY DEF Tick
  <2> QED BY <1>4, <2>1
<1>6. UNCHANGED <<pc, batch, stat>>
  BY DEF Tick
<1>7. BatchTypes'
  BY <1>0, <1>4, <1>5, <1>6 DEF BatchTypes
<1> QED BY <1>2, <1>3, <1>7, TypeParts

\* One message of a lane at a time.
LEMMA LaneTypes ==
  ASSUME TypeOK, NEW c \in Consumer, LaneStep(c)
  PROVE  TypeOK'
<1> USE EntryAssumption, LimitAssumption
<1>0. RedisTypes /\ DbTypes /\ LoopTypes /\ BatchTypes /\ FaultTypes
  BY TypeParts
<1>1. PICK i \in 1..Len(stat[c]) :
        \/ Dispatch(c, i) \/ Claim(c, i) \/ CommitEffect(c, i)
        \/ Ack(c, i) \/ DeadLetter(c, i)
        \/ \E permanent \in BOOLEAN : HandlerFails(c, i, permanent)
  BY DEF LaneStep, Msg
<1>2. pc[c] = "batch"
  BY <1>1 DEF Dispatch, Due, Claim, CommitEffect, Ack, DeadLetter, HandlerFails, At
<1>3. batch[c][i].entry \in Entry /\ EventAt(c, i) \in Event
  <2>1. batch[c] \in Seq(Message) /\ Len(batch[c]) = Len(stat[c])
    BY <1>0, <1>2 DEF BatchTypes
  <2>2. batch[c][i] \in Message
    BY <2>1, ElementOfSeq
  <2>3. batch[c][i].entry \in Entry
    BY <2>2 DEF Message
  <2> QED BY <2>3 DEF EventAt
<1>4. UNCHANGED <<pc, stopping, batch, ran, sweep, faults>>
  BY <1>1 DEF Dispatch, Claim, CommitEffect, Ack, DeadLetter, HandlerFails
<1>5. \E s \in MsgState : Move(c, i, s)
  <2>1. CASE Dispatch(c, i)
    <3> DEFINE s == IF batch[c][i].trimmed \/ KindOf[batch[c][i].entry] = "broken" THEN "dead"
                    ELSE IF KindOf[batch[c][i].entry] = "other" THEN "ack" ELSE "run"
    <3>1. Move(c, i, s)
      BY <2>1 DEF Dispatch
    <3>2. s \in MsgState
      BY DEF MsgState
    <3> QED BY <3>1, <3>2
  <2>2. CASE Claim(c, i)
    <3>1. Move(c, i, "ack") \/ Move(c, i, "txn")
      BY <2>2 DEF Claim
    <3> QED BY <3>1 DEF MsgState
  <2>3. CASE CommitEffect(c, i)
    <3>1. Move(c, i, "ack")
      BY <2>3 DEF CommitEffect
    <3> QED BY <3>1 DEF MsgState
  <2>4. CASE Ack(c, i) \/ DeadLetter(c, i)
    <3>1. Move(c, i, "end")
      BY <2>4 DEF Ack, DeadLetter
    <3> QED BY <3>1 DEF MsgState
  <2>5. ASSUME NEW p \in BOOLEAN, HandlerFails(c, i, p) PROVE \E s \in MsgState : Move(c, i, s)
    <3>1. Move(c, i, "dead") \/ Move(c, i, "end")
      BY <2>5 DEF HandlerFails
    <3> QED BY <3>1 DEF MsgState
  <2> QED BY <1>1, <2>1, <2>2, <2>3, <2>4, <2>5
<1>6. BatchTypes'
  BY <1>0, <1>4, <1>5, MoveTypes
<1>7. LoopTypes' /\ FaultTypes'
  BY <1>0, <1>4 DEF LoopTypes, FaultTypes
<1>8. RedisTypes' /\ DbTypes'
  <2>1. CASE Dispatch(c, i) \/ Claim(c, i) \/ \E p \in BOOLEAN : HandlerFails(c, i, p)
    <3>1. UNCHANGED <<redisVars, dbVars>>
      BY <2>1 DEF Dispatch, Claim, HandlerFails
    <3> QED BY <1>0, <3>1 DEF redisVars, dbVars, RedisTypes, DbTypes
  <2>2. CASE CommitEffect(c, i)
    <3>1. DbTypes'
      <4>1. ledger' \subseteq Event
        BY <1>0, <1>3, <2>2 DEF CommitEffect, DbTypes
      <4>2. effects[EventAt(c, i)] + 1 \in Nat
        BY <1>0, <1>3 DEF DbTypes
      <4>3. effects' = [effects EXCEPT ![EventAt(c, i)] = effects[EventAt(c, i)] + 1]
        BY <2>2 DEF CommitEffect
      <4>4. effects' \in [Event -> Nat]
        BY <1>0, <4>2, <4>3 DEF DbTypes
      <4> QED BY <4>1, <4>4 DEF DbTypes
    <3>2. RedisTypes'
      BY <1>0, <2>2 DEF CommitEffect, RedisTypes, redisVars
    <3> QED BY <3>1, <3>2
  <2>3. CASE Ack(c, i)
    <3>1. /\ owner' = [owner EXCEPT ![batch[c][i].entry] = NoOne]
          /\ acked' = acked \cup {batch[c][i].entry}
          /\ UNCHANGED <<added, gone, cursor, deliveries, age, registered, idle, dlq, dropped,
                         ledger, effects>>
      BY <2>3 DEF Ack, nameVars, dbVars
    <3> QED BY <1>0, <1>3, <3>1 DEF RedisTypes, DbTypes
  <2>4. CASE DeadLetter(c, i)
    <3>1. /\ owner' = [owner EXCEPT ![batch[c][i].entry] = NoOne]
          /\ dlq' = dlq \cup {batch[c][i].entry}
          /\ UNCHANGED <<added, gone, cursor, deliveries, age, registered, idle, acked, dropped,
                         ledger, effects>>
      BY <2>4 DEF DeadLetter, nameVars, dbVars
    <3> QED BY <1>0, <1>3, <3>1 DEF RedisTypes, DbTypes
  <2> QED BY <1>1, <2>1, <2>2, <2>3, <2>4
<1> QED BY <1>6, <1>7, <1>8, TypeParts

\* The sweep's steps, up to its end.
LEMMA SweepTypes ==
  ASSUME TypeOK, NEW c \in Consumer,
         \/ SweepList(c) \/ SweepReclaim(c) \/ SweepRecheck(c) \/ SweepDelete(c)
         \/ \E d \in Consumer : SweepNext(c, d)
  PROVE  TypeOK'
<1> USE EntryAssumption, LimitAssumption
<1>0. RedisTypes /\ DbTypes /\ LoopTypes /\ BatchTypes /\ FaultTypes
  BY TypeParts
<1>1. UNCHANGED <<stopping, batch, stat, ran, faults, ledger, effects>>
  BY DEF SweepList, SweepReclaim, SweepRecheck, SweepDelete, SweepNext, dbVars, redisVars
<1>2. DbTypes' /\ FaultTypes'
  BY <1>0, <1>1 DEF DbTypes, FaultTypes
<1>3. BatchTypes'
  <2>1. CASE SweepList(c)
    <3>1. pc[c] = "ready" /\ pc' = [pc EXCEPT ![c] = "sweep"]
      BY <2>1 DEF SweepList
    <3>2. pc'[c] = "sweep" /\ \A d \in Consumer : d # c => pc'[d] = pc[d]
      BY <1>0, <3>1 DEF LoopTypes
    <3> QED BY <1>0, <1>1, <3>1, <3>2 DEF BatchTypes
  <2>2. CASE ~SweepList(c)
    <3>1. UNCHANGED pc
      BY <2>2 DEF SweepReclaim, SweepRecheck, SweepDelete, SweepNext
    <3> QED BY <1>0, <1>1, <3>1 DEF BatchTypes
  <2> QED BY <2>1, <2>2
<1>4. sweep[c] \in SweepState
  BY <1>0 DEF LoopTypes
<1>5. CASE SweepList(c)
  <2> DEFINE s == [phase |-> "list", todo |-> Ghosts(c),
                   owing |-> {d \in Ghosts(c) : PendingOf(d) # {}}, ghost |-> NoOne]
  <2>1. Ghosts(c) \subseteq Consumer
    BY <1>0 DEF Ghosts, RedisTypes
  <2>2. s \in SweepState
    BY <2>1 DEF SweepState
  <2>3. sweep' = [sweep EXCEPT ![c] = s] /\ pc' = [pc EXCEPT ![c] = "sweep"]
        /\ UNCHANGED redisVars
    BY <1>5 DEF SweepList
  <2> HIDE DEF s
  <2>4. LoopTypes'
    BY <1>0, <1>1, <2>2, <2>3 DEF LoopTypes
  <2>5. RedisTypes'
    BY <1>0, <2>3 DEF RedisTypes, redisVars
  <2> QED BY <1>2, <1>3, <2>4, <2>5, TypeParts
<1>6. ASSUME NEW d \in Consumer, SweepNext(c, d) PROVE TypeOK'
  <2> DEFINE s == [sweep[c] EXCEPT !.ghost = d, !.todo = @ \ {d},
                     !.phase = IF d \in sweep[c].owing THEN "reclaim" ELSE "delete"]
  <2>1. s \in SweepState
    BY <1>4 DEF SweepState
  <2>2. sweep' = [sweep EXCEPT ![c] = s] /\ UNCHANGED <<pc, redisVars>>
    <3>1. sweep' = [sweep EXCEPT ![c].ghost = d, ![c].todo = @ \ {d},
                                 ![c].phase = IF d \in sweep[c].owing THEN "reclaim"
                                              ELSE "delete"]
          /\ UNCHANGED <<pc, redisVars>>
      BY <1>6 DEF SweepNext
    <3>2. sweep \in [Consumer -> SweepState]
      BY <1>0 DEF LoopTypes
    <3> QED BY <3>1, <3>2
  <2> HIDE DEF s
  <2>3. LoopTypes'
    BY <1>0, <1>1, <2>1, <2>2 DEF LoopTypes
  <2>4. RedisTypes'
    BY <1>0, <2>2 DEF RedisTypes, redisVars
  <2> QED BY <1>2, <1>3, <2>3, <2>4, TypeParts
<1>7. ASSUME NEW p \in {"list", "recheck", "delete"},
             sweep' = [sweep EXCEPT ![c].phase = p], UNCHANGED pc
      PROVE  LoopTypes'
  <2>1. [sweep[c] EXCEPT !.phase = p] \in SweepState
    BY <1>4 DEF SweepState
  <2> QED BY <1>0, <1>1, <1>7, <2>1 DEF LoopTypes
<1>8. CASE SweepReclaim(c)
  <2>1. LoopTypes'
    BY <1>7, <1>8 DEF SweepReclaim
  <2> DEFINE claimed == {e \in Pending : age[e] >= StaleIdle}
  <2>2. claimed \subseteq Entry
    BY DEF Pending
  <2>3. /\ owner' = [e \in Entry |-> IF e \notin claimed THEN owner[e]
                                     ELSE IF e \in gone THEN NoOne ELSE c]
        /\ age' = [e \in Entry |-> IF e \in claimed THEN 0 ELSE age[e]]
        /\ dropped' = dropped \cup (claimed \cap gone)
        /\ registered' = registered \cup {c} /\ idle' = [idle EXCEPT ![c] = 0]
        /\ UNCHANGED <<added, gone, cursor, deliveries, acked, dlq>>
    BY <1>8 DEF SweepReclaim, Touch
  <2> HIDE DEF claimed
  <2>4. RedisTypes'
    BY <1>0, <2>2, <2>3 DEF RedisTypes
  <2> QED BY <1>2, <1>3, <2>1, <2>4, TypeParts
<1>9. CASE SweepRecheck(c)
  <2>1. LoopTypes'
    <3>1. \E p \in {"list", "recheck", "delete"} : sweep' = [sweep EXCEPT ![c].phase = p]
      BY <1>9 DEF SweepRecheck
    <3>2. UNCHANGED pc
      BY <1>9 DEF SweepRecheck
    <3> QED BY <1>7, <3>1, <3>2
  <2>2. RedisTypes'
    BY <1>0, <1>9 DEF SweepRecheck, RedisTypes, redisVars
  <2> QED BY <1>2, <1>3, <2>1, <2>2, TypeParts
<1>10. CASE SweepDelete(c)
  <2>1. LoopTypes'
    BY <1>7, <1>10 DEF SweepDelete
  <2>2. RedisTypes'
    BY <1>0, <1>10 DEF SweepDelete, DeleteConsumer, PendingOf, RedisTypes
  <2> QED BY <1>2, <1>3, <2>1, <2>2, TypeParts
<1> QED BY <1>5, <1>6, <1>8, <1>9, <1>10

\* The steps that end with a process holding nothing.
Forgets(c) ==
  \/ EndBatch(c) \/ SweepEnd(c) \/ SweepFails(c) \/ DrainTimeout(c) \/ LoopDies(c)
  \/ Crash(c)

\* A process that forgets its batch touches neither Redis nor the database.
LEMMA ForgetsTypes ==
  ASSUME TypeOK, NEW c \in Consumer, Forgets(c)
  PROVE  TypeOK' /\ Forget(c) /\ UNCHANGED <<redisVars, dbVars, stopping>>
         /\ \E p \in {"ready", "exit", "gone"} : pc' = [pc EXCEPT ![c] = p]
<1> USE LimitAssumption
<1>0. RedisTypes /\ DbTypes /\ LoopTypes /\ BatchTypes /\ FaultTypes
  BY TypeParts
<1>1. /\ Forget(c) /\ UNCHANGED <<redisVars, dbVars, stopping>>
      /\ \E p \in {"ready", "exit", "gone"} : pc' = [pc EXCEPT ![c] = p]
  BY DEF Forgets, EndBatch, SweepEnd, SweepFails, DrainTimeout, LoopDies, Crash
<1>2. FaultTypes'
  BY <1>0 DEF FaultTypes, Forgets, EndBatch, SweepEnd, SweepFails, DrainTimeout, LoopDies,
              Crash, Fault
<1>3. RedisTypes' /\ DbTypes'
  BY <1>0, <1>1 DEF RedisTypes, DbTypes, redisVars, dbVars
<1>4. LoopTypes' /\ BatchTypes'
  BY <1>1, ForgetTypes
<1> QED BY <1>1, <1>2, <1>3, <1>4, TypeParts

\* The steps that leave what a process holds, and the ledger, alone.
LEMMA QuietTypes ==
  ASSUME TypeOK,
         \/ Add
         \/ \E c \in Consumer : Boot(c) \/ LeaveLoop(c) \/ Deregister(c) \/ RequestStop(c)
  PROVE  TypeOK'
<1> USE EntryAssumption, LimitAssumption
<1>0. RedisTypes /\ DbTypes /\ LoopTypes /\ BatchTypes /\ FaultTypes
  BY TypeParts
<1>1. UNCHANGED <<batch, stat, ran, sweep, ledger, effects>>
  BY DEF Add, Boot, LeaveLoop, Deregister, RequestStop, dbVars, procVars
<1>2. DbTypes'
  BY <1>0, <1>1 DEF DbTypes
<1>3. CASE Add
  <2>1. added \in 0..NumEntries /\ added < NumEntries /\ added' = added + 1
        /\ cursor \in 0..added /\ gone \subseteq 1..added
    BY <1>0, <1>3 DEF Add, RedisTypes
  <2>2. PICK head \in {0} \cup (Cuttable \cap 1..added) : gone' = gone \cup 1..head
    BY <1>3 DEF Add
  <2>3. head \in Nat /\ head <= added
    BY <2>1, <2>2
  <2>4. 1..head \subseteq 1..added' /\ 1..added \subseteq 1..added' /\ added' \in 0..NumEntries
        /\ cursor \in 0..added'
    BY <2>1, <2>3
  <2>5. UNCHANGED <<cursor, pelVars, nameVars, endVars, pc, stopping, faults>>
    BY <1>3 DEF Add, procVars
  <2>6. RedisTypes'
    BY <1>0, <2>1, <2>2, <2>4, <2>5 DEF RedisTypes, pelVars, nameVars, endVars
  <2>7. LoopTypes' /\ BatchTypes' /\ FaultTypes'
    BY <1>0, <1>1, <2>5 DEF LoopTypes, BatchTypes, FaultTypes
  <2> QED BY <1>2, <2>6, <2>7, TypeParts
<1>4. ASSUME NEW c \in Consumer, NEW p \in {"ready", "exit", "gone"},
             pc[c] \in {"unborn", "ready", "exit"}, pc' = [pc EXCEPT ![c] = p]
      PROVE  BatchTypes'
  <2>1. pc'[c] = p /\ \A d \in Consumer : d # c => pc'[d] = pc[d]
    BY <1>0, <1>4 DEF LoopTypes
  <2> QED BY <1>0, <1>1, <1>4, <2>1 DEF BatchTypes
<1>5. ASSUME NEW c \in Consumer, Boot(c) \/ LeaveLoop(c)
      PROVE  TypeOK'
  <2>1. BatchTypes'
    BY <1>4, <1>5 DEF Boot, LeaveLoop
  <2>2. RedisTypes' /\ LoopTypes' /\ FaultTypes'
    BY <1>0, <1>5 DEF Boot, LeaveLoop, RedisTypes, LoopTypes, FaultTypes, redisVars
  <2> QED BY <1>2, <2>1, <2>2, TypeParts
<1>6. ASSUME NEW c \in Consumer, Deregister(c)
      PROVE  TypeOK'
  <2>1. BatchTypes'
    BY <1>4, <1>6 DEF Deregister
  <2>2. LoopTypes' /\ FaultTypes'
    BY <1>0, <1>6 DEF Deregister, LoopTypes, FaultTypes
  <2>3. RedisTypes'
    BY <1>0, <1>6 DEF Deregister, DeleteConsumer, PendingOf, RedisTypes
  <2> QED BY <1>2, <2>1, <2>2, <2>3, TypeParts
<1>7. ASSUME NEW c \in Consumer, RequestStop(c)
      PROVE  TypeOK'
  <2>1. UNCHANGED <<redisVars, pc>> /\ stopping' = stopping \cup {c}
        /\ faults < MaxFaults /\ faults' = faults + 1
    BY <1>7 DEF RequestStop, Fault
  <2>2. RedisTypes' /\ LoopTypes' /\ BatchTypes'
    BY <1>0, <1>1, <2>1 DEF RedisTypes, redisVars, LoopTypes, BatchTypes
  <2>3. FaultTypes'
    BY <1>0, <2>1 DEF FaultTypes
  <2> QED BY <1>2, <2>2, <2>3, TypeParts
<1> QED BY <1>3, <1>5, <1>6, <1>7

\* Next, by what its steps do to a process's batch.
LEMMA NextCases ==
  ASSUME Next
  PROVE  \/ Add \/ Tick
         \/ \E c \in Consumer :
              \/ Boot(c) \/ LeaveLoop(c) \/ Deregister(c) \/ RequestStop(c)
              \/ ReadRecovered(c) \/ ReadFresh(c) \/ LaneStep(c) \/ Forgets(c)
              \/ SweepList(c) \/ SweepReclaim(c) \/ SweepRecheck(c) \/ SweepDelete(c)
              \/ \E d \in Consumer : SweepNext(c, d)
BY DEF Next, LoopStep, SweepStep, Disturbance, Forgets

\* Every step keeps the types.
LEMMA NextTypes ==
  ASSUME TypeOK, [Next]_vars
  PROVE  TypeOK'
<1>1. CASE Next
  BY <1>1, NextCases, QuietTypes, TickTypes, ReadRecoveredTypes, ReadFreshTypes, LaneTypes,
     ForgetsTypes, SweepTypes
<1>2. CASE UNCHANGED vars
  BY <1>2 DEF vars, redisVars, dbVars, procVars, TypeOK
<1> QED BY <1>1, <1>2

\* The types hold at the start.
LEMMA InitTypes == Init => TypeOK
<1> SUFFICES ASSUME Init PROVE TypeOK
  OBVIOUS
<1> USE EntryAssumption, LimitAssumption
<1>1. RedisTypes /\ DbTypes /\ FaultTypes
  BY DEF Init, RedisTypes, DbTypes, FaultTypes
<1>2. LoopTypes
  <2>1. NoSweep \in SweepState
    BY DEF NoSweep, SweepState
  <2> QED BY <2>1 DEF Init, LoopTypes
<1>3. BatchTypes
  <2>1. <<>> \in Seq(Message) /\ <<>> \in Seq(MsgState) /\ <<>> \in Seq(0..HandlerTicks)
        /\ Len(<<>>) = 0
    BY EmptySeq
  <2> QED BY <2>1 DEF Init, BatchTypes
<1> QED BY <1>1, <1>2, <1>3, TypeParts

\* Type correctness: in every reachable state of every instance the variables keep their
\* types, and the sequences run_once and its lanes share stay in step.
THEOREM ConsumerTypes == SafeSpec => []TypeOK
BY InitTypes, NextTypes, PTL DEF SafeSpec

-----------------------------------------------------------------------------
(* Effects, acknowledgements and the order within an aggregate.            *)

LaneInv == EffectsFollowLedger /\ OneTransaction /\ AcksFollowLedger /\ SubjectsInOrder

\* A step that touches neither a batch nor the ledger nor the acknowledgements.
LEMMA QuietLanes ==
  ASSUME LaneInv, UNCHANGED <<batch, stat, ledger, effects, acked>>
  PROVE  LaneInv'
BY DEF LaneInv, EffectsFollowLedger, OneTransaction, AcksFollowLedger, SubjectsInOrder,
       EventAt, EntityKey

\* A step after which c has no message in hand, or only ones no lane has reached.
LEMMA FreshLanes ==
  ASSUME LaneInv, NEW c \in Consumer, UNCHANGED <<ledger, effects, acked>>,
         \A i \in 1..Len(stat'[c]) : stat'[c][i] = "todo",
         \A d \in Consumer : d # c => stat'[d] = stat[d] /\ batch'[d] = batch[d]
  PROVE  LaneInv'
<1>1. EffectsFollowLedger'
  BY DEF LaneInv, EffectsFollowLedger
<1>2. ASSUME NEW d \in Consumer, NEW i \in 1..Len(stat'[d]), stat'[d][i] # "todo"
      PROVE  d # c /\ stat'[d] = stat[d] /\ batch'[d] = batch[d]
  BY <1>2
<1>3. OneTransaction'
  <2> SUFFICES ASSUME NEW d \in Consumer, NEW i \in 1..Len(stat'[d]), stat'[d][i] = "txn"
               PROVE  /\ EventAt(d, i)' \notin ledger'
                      /\ \A e \in Consumer : \A j \in 1..Len(stat'[e]) :
                           stat'[e][j] = "txn" /\ EventAt(e, j)' = EventAt(d, i)'
                             => e = d /\ j = i
    BY DEF OneTransaction
  <2>1. stat'[d] = stat[d] /\ batch'[d] = batch[d]
    BY <1>2
  <2>2. EventAt(d, i) \notin ledger /\ EventAt(d, i)' = EventAt(d, i) /\ stat[d][i] = "txn"
    BY <2>1 DEF LaneInv, OneTransaction, EventAt
  <2>3. ASSUME NEW e \in Consumer, NEW j \in 1..Len(stat'[e]),
               stat'[e][j] = "txn", EventAt(e, j)' = EventAt(d, i)'
        PROVE  e = d /\ j = i
    <3>1. stat'[e] = stat[e] /\ batch'[e] = batch[e]
      BY <1>2, <2>3
    <3>2. EventAt(e, j) = EventAt(d, i) /\ stat[e][j] = "txn" /\ j \in 1..Len(stat[e])
      BY <2>2, <2>3, <3>1 DEF EventAt
    <3>3. i \in 1..Len(stat[d])
      BY <2>1
    <3> QED BY <2>2, <3>2, <3>3 DEF LaneInv, OneTransaction
  <2> QED BY <2>2, <2>3
<1>4. AcksFollowLedger'
  <2>1. ASSUME NEW d \in Consumer, NEW i \in 1..Len(stat'[d]), stat'[d][i] = "ack",
               KindOf[batch'[d][i].entry] = "job"
        PROVE  EventAt(d, i)' \in ledger'
    <3>1. stat'[d] = stat[d] /\ batch'[d] = batch[d]
      BY <1>2, <2>1
    <3> QED BY <2>1, <3>1 DEF LaneInv, AcksFollowLedger, EventAt
  <2> QED BY <2>1 DEF LaneInv, AcksFollowLedger
<1>5. SubjectsInOrder'
  <2> SUFFICES ASSUME NEW d \in Consumer, NEW i \in 1..Len(stat'[d]), NEW j \in 1..Len(stat'[d]),
                      i < j, EntityKey(d, i)' = EntityKey(d, j)', stat'[d][j] # "todo"
               PROVE  stat'[d][i] = "end"
    BY DEF SubjectsInOrder
  <2>1. stat'[d] = stat[d] /\ batch'[d] = batch[d]
    BY <1>2
  <2>2. EntityKey(d, i)' = EntityKey(d, i) /\ EntityKey(d, j)' = EntityKey(d, j)
    BY <2>1 DEF EntityKey
  <2>3. i \in 1..Len(stat[d]) /\ j \in 1..Len(stat[d]) /\ stat[d][j] # "todo"
        /\ EntityKey(d, i) = EntityKey(d, j)
    BY <2>1, <2>2
  <2>4. stat[d][i] = "end"
    BY <2>3 DEF LaneInv, SubjectsInOrder
  <2> QED BY <2>1, <2>4
<1> QED BY <1>1, <1>3, <1>4, <1>5 DEF LaneInv

\* A message that has not ended moves on; one still to do moves when its lane reaches it.
LEMMA OrderKept ==
  ASSUME TypeOK, SubjectsInOrder, NEW c \in Consumer, NEW i \in 1..Len(stat[c]),
         NEW s \in MsgState, Move(c, i, s), UNCHANGED batch, pc[c] = "batch",
         stat[c][i] # "end", stat[c][i] = "todo" => Due(c, i)
  PROVE  SubjectsInOrder'
<1>0. BatchTypes
  BY TypeParts
<1>1. /\ \A d \in Consumer : Len(stat'[d]) = Len(stat[d])
      /\ \A d \in Consumer : \A j \in 1..Len(stat[d]) :
           stat'[d][j] = IF d = c /\ j = i THEN s ELSE stat[d][j]
  BY <1>0, Moved
<1> SUFFICES ASSUME NEW d \in Consumer, NEW h \in 1..Len(stat'[d]), NEW j \in 1..Len(stat'[d]),
                    h < j, EntityKey(d, h)' = EntityKey(d, j)', stat'[d][j] # "todo"
             PROVE  stat'[d][h] = "end"
  BY DEF SubjectsInOrder
<1>2. h \in 1..Len(stat[d]) /\ j \in 1..Len(stat[d]) /\ EntityKey(d, h) = EntityKey(d, j)
  BY <1>1 DEF EntityKey
<1>3. CASE stat[d][j] # "todo"
  <2>1. stat[d][h] = "end"
    BY <1>2, <1>3 DEF SubjectsInOrder
  <2> QED BY <1>1, <1>2, <2>1
<1>4. CASE stat[d][j] = "todo"
  <2>1. d = c /\ j = i
    BY <1>1, <1>2, <1>4
  <2>2. Due(c, i)
    BY <1>4, <2>1
  <2>3. Len(batch[c]) = Len(stat[c]) /\ Len(stat[c]) \in Nat
    BY <1>0, LenProperties DEF BatchTypes
  <2>4. Keys(c)[h] = Keys(c)[i]
    BY <1>2, <2>1, <2>3 DEF Keys
  <2>5. Precedes(Keys(c), Concurrency, h, i)
    <3>1. h \in Nat /\ i \in Nat /\ 1 <= h /\ h < i
      BY <1>2, <2>1, <2>3
    <3> QED BY <2>4, <3>1, SameKeyPrecedes
  <2>6. stat[c][h] = "end"
    BY <1>2, <2>1, <2>2, <2>5 DEF Due
  <2>7. h # i
    BY <2>1, <1>2, <2>3
  <2> QED BY <1>1, <1>2, <2>1, <2>6, <2>7
<1> QED BY <1>3, <1>4

\* A message moves without touching the ledger: what is acknowledged has its row, and a
\* transaction opens only on a key that has none.
LEMMA MoveLanes ==
  ASSUME TypeOK, LaneInv, NEW c \in Consumer, NEW i \in 1..Len(stat[c]),
         NEW s \in MsgState, Move(c, i, s), UNCHANGED <<batch, ledger, effects>>,
         SubjectsInOrder',
         s = "ack" /\ KindOf[batch[c][i].entry] = "job" => EventAt(c, i) \in ledger,
         s = "txn" => EventAt(c, i) \notin ledger /\ ~KeyLocked(EventAt(c, i)),
         \A e \in acked' : KindOf[e] = "job" => EventOf[e] \in ledger
  PROVE  LaneInv'
<1>0. BatchTypes
  BY TypeParts
<1>1. /\ \A d \in Consumer : Len(stat'[d]) = Len(stat[d])
      /\ \A d \in Consumer : \A j \in 1..Len(stat[d]) :
           stat'[d][j] = IF d = c /\ j = i THEN s ELSE stat[d][j]
  BY <1>0, Moved
<1>2. EffectsFollowLedger'
  BY DEF LaneInv, EffectsFollowLedger
<1>3. AcksFollowLedger'
  BY <1>1 DEF LaneInv, AcksFollowLedger, EventAt
<1>4. OneTransaction'
  <2>1. \A d \in Consumer, j \in Nat : EventAt(d, j)' = EventAt(d, j)
    BY DEF EventAt
  <2>2. ASSUME NEW d \in Consumer, NEW j \in 1..Len(stat[d]), stat[d][j] = "txn", s = "txn"
        PROVE  EventAt(d, j) # EventAt(c, i)
    <3>1. pc[d] = "batch"
      <4> SUFFICES ASSUME pc[d] # "batch" PROVE FALSE
        OBVIOUS
      <4>1. stat[d] = <<>>
        BY <1>0 DEF BatchTypes
      <4>2. Len(stat[d]) = 0
        BY <4>1
      <4> QED BY <4>2
    <3> QED BY <2>2, <3>1 DEF KeyLocked, At
  <2> SUFFICES ASSUME NEW d \in Consumer, NEW j \in 1..Len(stat[d]), stat'[d][j] = "txn"
               PROVE  /\ EventAt(d, j) \notin ledger
                      /\ \A e \in Consumer : \A k \in 1..Len(stat[e]) :
                           stat'[e][k] = "txn" /\ EventAt(e, k) = EventAt(d, j)
                             => e = d /\ k = j
    BY <1>1, <2>1 DEF OneTransaction, EventAt
  <2>3. EventAt(d, j) \notin ledger
    BY <1>1 DEF LaneInv, OneTransaction
  <2>4. ASSUME NEW e \in Consumer, NEW k \in 1..Len(stat[e]), stat'[e][k] = "txn",
               EventAt(e, k) = EventAt(d, j)
        PROVE  e = d /\ k = j
    <3>1. CASE stat[d][j] = "txn" /\ stat[e][k] = "txn"
      <4>1. \A f \in Consumer : \A l \in 1..Len(stat[f]) :
              stat[f][l] = "txn" /\ EventAt(f, l) = EventAt(d, j) => f = d /\ l = j
        BY <3>1 DEF LaneInv, OneTransaction
      <4> QED BY <2>4, <3>1, <4>1
    <3>2. CASE stat[d][j] # "txn"
      <4>1. d = c /\ j = i /\ s = "txn"
        BY <1>1, <3>2
      <4>2. CASE stat[e][k] = "txn"
        BY <2>2, <2>4, <4>1, <4>2
      <4>3. CASE stat[e][k] # "txn"
        <5>1. e = c /\ k = i
          BY <1>1, <2>4, <4>3
        <5> QED BY <4>1, <5>1
      <4> QED BY <4>2, <4>3
    <3>3. CASE stat[d][j] = "txn" /\ stat[e][k] # "txn"
      <4>1. e = c /\ k = i /\ s = "txn"
        BY <1>1, <2>4, <3>3
      <4> QED BY <2>2, <2>4, <3>3, <4>1
    <3> QED BY <3>1, <3>2, <3>3
  <2> QED BY <2>3, <2>4
<1> QED BY <1>2, <1>3, <1>4 DEF LaneInv

\* CommitEffect: the key had no row, no other transaction has it open.
LEMMA CommitLanes ==
  ASSUME TypeOK, LaneInv, NEW c \in Consumer, NEW i \in 1..Len(stat[c]), CommitEffect(c, i)
  PROVE  LaneInv'
<1>0. BatchTypes /\ DbTypes
  BY TypeParts
<1> DEFINE v == EventAt(c, i)
<1>a. /\ pc[c] = "batch" /\ stat[c][i] = "txn" /\ Move(c, i, "ack")
      /\ ledger' = ledger \cup {v} /\ effects' = [effects EXCEPT ![v] = effects[v] + 1]
      /\ UNCHANGED <<batch, acked>>
  BY DEF CommitEffect, At, redisVars
<1>b. "ack" \in MsgState
  BY DEF MsgState
<1>1. /\ \A d \in Consumer : Len(stat'[d]) = Len(stat[d])
      /\ \A d \in Consumer : \A j \in 1..Len(stat[d]) :
           stat'[d][j] = IF d = c /\ j = i THEN "ack" ELSE stat[d][j]
  BY <1>0, <1>a, <1>b, Moved
<1>2. SubjectsInOrder'
  BY <1>a, <1>b, OrderKept DEF LaneInv
<1>3. v \notin ledger /\ \A d \in Consumer : \A j \in 1..Len(stat[d]) :
        stat[d][j] = "txn" /\ EventAt(d, j) = v => d = c /\ j = i
  BY <1>a DEF LaneInv, OneTransaction
<1>4. \A d \in Consumer, j \in Nat : EventAt(d, j)' = EventAt(d, j)
  BY <1>a DEF EventAt
<1> HIDE DEF v
<1>5. EffectsFollowLedger'
  <2> SUFFICES ASSUME NEW w \in Event PROVE effects'[w] = IF w \in ledger' THEN 1 ELSE 0
    BY DEF EffectsFollowLedger
  <2>1. effects[w] = IF w \in ledger THEN 1 ELSE 0
    BY DEF LaneInv, EffectsFollowLedger
  <2>2. CASE w = v
    <3>1. effects[w] = 0
      BY <1>3, <2>1, <2>2
    <3>2. effects'[w] = effects[w] + 1 /\ w \in ledger'
      BY <1>0, <1>a, <2>2 DEF DbTypes
    <3> QED BY <3>1, <3>2
  <2>3. CASE w # v
    <3>1. effects'[w] = effects[w] /\ (w \in ledger' <=> w \in ledger)
      BY <1>0, <1>a, <2>3 DEF DbTypes
    <3> QED BY <2>1, <3>1
  <2> QED BY <2>2, <2>3
<1>6. OneTransaction'
  <2> SUFFICES ASSUME NEW d \in Consumer, NEW j \in 1..Len(stat[d]), stat'[d][j] = "txn"
               PROVE  /\ EventAt(d, j) \notin ledger'
                      /\ \A e \in Consumer : \A k \in 1..Len(stat[e]) :
                           stat'[e][k] = "txn" /\ EventAt(e, k) = EventAt(d, j)
                             => e = d /\ k = j
    <3>1. \A e \in Consumer : \A k \in 1..Len(stat'[e]) :
            k \in 1..Len(stat[e]) /\ EventAt(e, k)' = EventAt(e, k)
      BY <1>1, <1>4
    <3>2. \A e \in Consumer : 1..Len(stat'[e]) = 1..Len(stat[e])
      BY <1>1
    <3> QED BY <3>1, <3>2 DEF OneTransaction
  <2>1. stat[d][j] = "txn" /\ ~(d = c /\ j = i)
    BY <1>1
  <2>2. EventAt(d, j) \notin ledger /\ EventAt(d, j) # v
    BY <1>3, <2>1 DEF LaneInv, OneTransaction
  <2>3. ASSUME NEW e \in Consumer, NEW k \in 1..Len(stat[e]), stat'[e][k] = "txn",
               EventAt(e, k) = EventAt(d, j)
        PROVE  e = d /\ k = j
    <3>1. stat[e][k] = "txn"
      BY <1>1, <2>3
    <3>2. \A f \in Consumer : \A l \in 1..Len(stat[f]) :
            stat[f][l] = "txn" /\ EventAt(f, l) = EventAt(d, j) => f = d /\ l = j
      BY <2>1 DEF LaneInv, OneTransaction
    <3> QED BY <2>3, <3>1, <3>2
  <2> QED BY <1>a, <2>2, <2>3
<1>7. AcksFollowLedger'
  <2>1. ASSUME NEW d \in Consumer, NEW j \in 1..Len(stat[d]), stat'[d][j] = "ack",
               KindOf[batch[d][j].entry] = "job"
        PROVE  EventAt(d, j) \in ledger'
    <3>1. CASE d = c /\ j = i
      BY <1>a, <3>1 DEF v
    <3>2. CASE ~(d = c /\ j = i)
      <4>1. stat[d][j] = "ack"
        BY <1>1, <2>1, <3>2
      <4>2. EventAt(d, j) \in ledger
        BY <2>1, <4>1 DEF LaneInv, AcksFollowLedger
      <4> QED BY <1>a, <4>2
    <3> QED BY <3>1, <3>2
  <2>2. \A e \in acked' : KindOf[e] = "job" => EventOf[e] \in ledger'
    BY <1>a DEF LaneInv, AcksFollowLedger
  <2>3. \A d \in Consumer : \A j \in 1..Len(stat'[d]) :
          stat'[d][j] = "ack" /\ KindOf[batch'[d][j].entry] = "job" => EventAt(d, j)' \in ledger'
    BY <1>1, <1>4, <1>a, <2>1 DEF EventAt
  <2> QED BY <2>2, <2>3 DEF AcksFollowLedger
<1> QED BY <1>2, <1>5, <1>6, <1>7 DEF LaneInv

\* One message of a lane at a time keeps the lane invariant.
LEMMA LaneLanes ==
  ASSUME TypeOK, LaneInv, NEW c \in Consumer, LaneStep(c)
  PROVE  LaneInv'
<1> USE EntryAssumption
<1>0. BatchTypes
  BY TypeParts
<1>1. PICK i \in 1..Len(stat[c]) :
        \/ Dispatch(c, i) \/ Claim(c, i) \/ CommitEffect(c, i)
        \/ Ack(c, i) \/ DeadLetter(c, i)
        \/ \E permanent \in BOOLEAN : HandlerFails(c, i, permanent)
  BY DEF LaneStep, Msg
<1>2. pc[c] = "batch" /\ UNCHANGED batch
  BY <1>1 DEF Dispatch, Due, Claim, CommitEffect, Ack, DeadLetter, HandlerFails, At
<1>3. \A e \in acked : KindOf[e] = "job" => EventOf[e] \in ledger
  BY DEF LaneInv, AcksFollowLedger
<1>4. SubjectsInOrder
  BY DEF LaneInv
<1>5. batch[c][i].entry \in Entry
  <2>1. batch[c] \in Seq(Message) /\ Len(batch[c]) = Len(stat[c])
    BY <1>0, <1>2 DEF BatchTypes
  <2>2. batch[c][i] \in Message
    BY <2>1, ElementOfSeq
  <2> QED BY <2>2 DEF Message
<1>6. CASE Dispatch(c, i)
  <2> DEFINE m == batch[c][i]
             s == IF m.trimmed \/ KindOf[m.entry] = "broken" THEN "dead"
                  ELSE IF KindOf[m.entry] = "other" THEN "ack" ELSE "run"
  <2>1. Move(c, i, s) /\ Due(c, i) /\ stat[c][i] = "todo"
        /\ UNCHANGED <<ledger, effects, acked>>
    BY <1>6 DEF Dispatch, Due, At, redisVars, dbVars
  <2>2. s \in MsgState /\ s # "txn" /\ (s = "ack" => KindOf[m.entry] # "job")
    BY DEF MsgState
  <2> HIDE DEF s
  <2>3. SubjectsInOrder'
    BY <1>2, <1>4, <2>1, <2>2, OrderKept
  <2> QED BY <1>2, <1>3, <2>1, <2>2, <2>3, MoveLanes
<1>7. CASE Claim(c, i)
  <2> DEFINE s == IF EventAt(c, i) \in ledger THEN "ack" ELSE "txn"
  <2>1. Move(c, i, s) /\ stat[c][i] = "run" /\ ~KeyLocked(EventAt(c, i))
        /\ UNCHANGED <<ledger, effects, acked>>
    BY <1>7 DEF Claim, At, redisVars, dbVars
  <2>2. s \in MsgState /\ (s = "ack" => EventAt(c, i) \in ledger)
        /\ (s = "txn" => EventAt(c, i) \notin ledger)
    BY DEF MsgState
  <2> HIDE DEF s
  <2>3. SubjectsInOrder'
    BY <1>2, <1>4, <2>1, <2>2, OrderKept
  <2> QED BY <1>2, <1>3, <2>1, <2>2, <2>3, MoveLanes
<1>8. CASE CommitEffect(c, i)
  BY <1>8, CommitLanes
<1>9. CASE Ack(c, i)
  <2>1. Move(c, i, "end") /\ stat[c][i] = "ack" /\ acked' = acked \cup {batch[c][i].entry}
        /\ UNCHANGED <<ledger, effects>> /\ "end" \in MsgState
    BY <1>9 DEF Ack, At, dbVars, MsgState
  <2>2. KindOf[batch[c][i].entry] = "job" => EventOf[batch[c][i].entry] \in ledger
    BY <2>1 DEF LaneInv, AcksFollowLedger, EventAt
  <2>3. SubjectsInOrder'
    BY <1>2, <1>4, <2>1, OrderKept
  <2>4. \A e \in acked' : KindOf[e] = "job" => EventOf[e] \in ledger
    BY <1>3, <2>1, <2>2
  <2> QED BY <1>2, <2>1, <2>3, <2>4, MoveLanes
<1>10. CASE DeadLetter(c, i)
  <2>1. Move(c, i, "end") /\ stat[c][i] = "dead"
        /\ UNCHANGED <<ledger, effects, acked>> /\ "end" \in MsgState
    BY <1>10 DEF DeadLetter, At, dbVars, MsgState
  <2>2. SubjectsInOrder'
    BY <1>2, <1>4, <2>1, OrderKept
  <2> QED BY <1>2, <1>3, <2>1, <2>2, MoveLanes
<1>11. ASSUME NEW p \in BOOLEAN, HandlerFails(c, i, p) PROVE LaneInv'
  <2> DEFINE s == IF p \/ batch[c][i].n >= MaxDeliveries THEN "dead" ELSE "end"
  <2>1. Move(c, i, s) /\ stat[c][i] \in {"run", "txn"}
        /\ UNCHANGED <<ledger, effects, acked>>
    BY <1>11 DEF HandlerFails, At, redisVars, dbVars
  <2>2. s \in MsgState /\ s \in {"dead", "end"}
    BY DEF MsgState
  <2> HIDE DEF s
  <2>3. SubjectsInOrder'
    BY <1>2, <1>4, <2>1, <2>2, OrderKept
  <2> QED BY <1>2, <1>3, <2>1, <2>2, <2>3, MoveLanes
<1> QED BY <1>1, <1>6, <1>7, <1>8, <1>9, <1>10, <1>11

\* Every step keeps the lane invariant.
LEMMA NextLanes ==
  ASSUME TypeOK, LaneInv, [Next]_vars
  PROVE  LaneInv'
<1>0. BatchTypes /\ LoopTypes
  BY TypeParts
<1>1. CASE Add \/ Tick
  <2>1. UNCHANGED <<batch, stat, ledger, effects, acked>>
    BY <1>1 DEF Add, Tick, procVars, dbVars, endVars
  <2> QED BY <2>1, QuietLanes
<1>2. ASSUME NEW c \in Consumer,
             \/ Boot(c) \/ LeaveLoop(c) \/ Deregister(c) \/ RequestStop(c)
             \/ SweepList(c) \/ SweepReclaim(c) \/ SweepRecheck(c) \/ SweepDelete(c)
             \/ \E d \in Consumer : SweepNext(c, d)
      PROVE  LaneInv'
  <2>1. UNCHANGED <<batch, stat, ledger, effects, acked>>
    BY <1>2 DEF Boot, LeaveLoop, Deregister, RequestStop, SweepList, SweepReclaim,
                SweepRecheck, SweepDelete, SweepNext, redisVars, dbVars
  <2> QED BY <2>1, QuietLanes
<1>3. ASSUME NEW c \in Consumer, ReadRecovered(c) PROVE LaneInv'
  <2>1. pc[c] = "ready" /\ UNCHANGED <<stat, ledger, effects, acked>>
    BY <1>3 DEF ReadRecovered, dbVars, endVars
  <2>2. stat'[c] = <<>> /\ Len(<<>>) = 0
    BY <1>0, <2>1 DEF BatchTypes
  <2>3. \A d \in Consumer : d # c => batch'[d] = batch[d]
    BY <1>0, <1>3 DEF BatchTypes, ReadRecovered
  <2>4. \A i \in 1..Len(stat'[c]) : stat'[c][i] = "todo"
    BY <2>2
  <2> QED BY <2>1, <2>3, <2>4, FreshLanes
<1>4. ASSUME NEW c \in Consumer, ReadFresh(c) PROVE LaneInv'
  <2>1. UNCHANGED <<ledger, effects, acked>>
    BY <1>4 DEF ReadFresh, dbVars, endVars
  <2> QED BY <1>4, <2>1, ReadFreshTypes, FreshLanes
<1>5. ASSUME NEW c \in Consumer, LaneStep(c) PROVE LaneInv'
  BY <1>5, LaneLanes
<1>6. ASSUME NEW c \in Consumer, Forgets(c) PROVE LaneInv'
  <2>1. Forget(c) /\ UNCHANGED <<redisVars, dbVars>>
    BY <1>6, ForgetsTypes
  <2>2. UNCHANGED <<ledger, effects, acked>>
    BY <2>1 DEF redisVars, dbVars
  <2>3. stat'[c] = <<>> /\ \A d \in Consumer : d # c => stat'[d] = stat[d] /\ batch'[d] = batch[d]
    BY <1>0, <2>1 DEF Forget, BatchTypes
  <2>4. \A i \in 1..Len(stat'[c]) : stat'[c][i] = "todo"
    BY <2>3
  <2> QED BY <2>2, <2>3, <2>4, FreshLanes
<1>7. CASE UNCHANGED vars
  BY <1>7, QuietLanes DEF vars, redisVars, dbVars, procVars
<1> QED BY <1>1, <1>2, <1>3, <1>4, <1>5, <1>6, <1>7, NextCases

\* No lane is taken at the start.
LEMMA InitLanes == Init => LaneInv
BY DEF Init, LaneInv, EffectsFollowLedger, OneTransaction, AcksFollowLedger, SubjectsInOrder

\* The consumer's inductive invariant: the ledger counts the effects, a key has one open
\* transaction at a time, an acknowledgement follows its row, an aggregate's messages wait
\* for one another.
THEOREM ConsumerInvariant == SafeSpec => []ConsumerInv
<1>1. ConsumerInv <=> TypeOK /\ LaneInv
  BY DEF ConsumerInv, LaneInv
<1>2. Init => TypeOK /\ LaneInv
  BY InitTypes, InitLanes
<1>3. TypeOK /\ LaneInv /\ [Next]_vars => TypeOK' /\ LaneInv'
  BY NextTypes, NextLanes
<1> QED BY <1>1, <1>2, <1>3, PTL DEF SafeSpec

\* Effectively once: whatever is redelivered, reclaimed, published twice or handled by two
\* processes at a time, ledger.claim lets an event's effect transaction commit at most once.
THEOREM EventTakesEffectOnce == SafeSpec => []EffectAtMostOnce
<1>1. ConsumerInv => EffectAtMostOnce
  BY DEF ConsumerInv, EffectsFollowLedger, EffectAtMostOnce
<1> QED BY <1>1, ConsumerInvariant, PTL

\* XACK is only ever sent for an event whose effect is committed (or that has no handler).
THEOREM AckFollowsEffect == SafeSpec => []AckedMeansEffect
<1>1. ConsumerInv => AckedMeansEffect
  <2> SUFFICES ASSUME ConsumerInv, NEW e \in acked, KindOf[e] = "job"
               PROVE  effects[EventOf[e]] = 1
    BY DEF AckedMeansEffect
  <2>1. e \in Entry /\ EventOf[e] \in Event
    BY EntryAssumption DEF ConsumerInv, TypeOK
  <2> QED BY <2>1 DEF ConsumerInv, AcksFollowLedger, EffectsFollowLedger
<1> QED BY <1>1, ConsumerInvariant, PTL

\* _lanes keeps an aggregate's messages in order whatever the concurrency: none starts
\* before every earlier message of its aggregate in the batch has ended.
THEOREM AggregatesInOrder == SafeSpec => []SubjectsInOrder
<1>1. ConsumerInv => SubjectsInOrder
  BY DEF ConsumerInv
<1> QED BY <1>1, ConsumerInvariant, PTL

-----------------------------------------------------------------------------
(* Nothing is lost.                                                        *)

\* A process that is gone stays gone, and its name gains no entry.
GoneForGood ==
  \A d \in Consumer : pc[d] = "gone" => pc'[d] = "gone" /\ PendingOf(d)' \subseteq PendingOf(d)

\* No step brings a process back or gives its name an entry.
LEMMA GoneStayGone ==
  ASSUME TypeOK, [Next]_vars
  PROVE  GoneForGood
<1> USE EntryAssumption, ConsumerAssumption
<1>0. RedisTypes /\ LoopTypes
  BY TypeParts
<1> SUFFICES ASSUME NEW d \in Consumer, pc[d] = "gone"
             PROVE  pc'[d] = "gone" /\ PendingOf(d)' \subseteq PendingOf(d)
  BY DEF GoneForGood
<1>1. ASSUME UNCHANGED <<pc, owner>> PROVE pc'[d] = "gone" /\ PendingOf(d)' \subseteq PendingOf(d)
  BY <1>1 DEF PendingOf
<1>2. CASE Add \/ Tick \/ UNCHANGED vars
  BY <1>1, <1>2 DEF Add, Tick, pelVars, procVars, vars, redisVars
<1>3. ASSUME NEW c \in Consumer, pc[c] # "gone", NEW p, pc' = [pc EXCEPT ![c] = p],
             \A e \in Entry : owner'[e] \in {owner[e], c, NoOne}
      PROVE  pc'[d] = "gone" /\ PendingOf(d)' \subseteq PendingOf(d)
  BY <1>0, <1>3 DEF LoopTypes, PendingOf
<1>4. ASSUME NEW c \in Consumer, Boot(c) \/ LeaveLoop(c) \/ SweepList(c)
      PROVE  pc'[d] = "gone" /\ PendingOf(d)' \subseteq PendingOf(d)
  BY <1>3, <1>4 DEF Boot, LeaveLoop, SweepList, redisVars
<1>5. ASSUME NEW c \in Consumer, RequestStop(c) \/ SweepRecheck(c) \/ \E g \in Consumer : SweepNext(c, g)
      PROVE  pc'[d] = "gone" /\ PendingOf(d)' \subseteq PendingOf(d)
  BY <1>1, <1>5 DEF RequestStop, SweepRecheck, SweepNext, redisVars
<1>6. ASSUME NEW c \in Consumer, ReadRecovered(c)
      PROVE  pc'[d] = "gone" /\ PendingOf(d)' \subseteq PendingOf(d)
  <2>1. pc[c] = "ready" /\ pc' = [pc EXCEPT ![c] = "reading"] /\ UNCHANGED owner
    BY <1>6 DEF ReadRecovered
  <2> QED BY <1>3, <2>1
<1>7. ASSUME NEW c \in Consumer, ReadFresh(c)
      PROVE  pc'[d] = "gone" /\ PendingOf(d)' \subseteq PendingOf(d)
  <2>1. pc[c] = "reading" /\ pc' = [pc EXCEPT ![c] = "batch"]
    BY <1>7 DEF ReadFresh
  <2>2. \A e \in Entry : owner'[e] \in {owner[e], c, NoOne}
    BY <1>7 DEF ReadFresh
  <2> QED BY <1>3, <2>1, <2>2
<1>8. ASSUME NEW c \in Consumer, LaneStep(c)
      PROVE  pc'[d] = "gone" /\ PendingOf(d)' \subseteq PendingOf(d)
  <2>1. UNCHANGED pc
    BY <1>8 DEF LaneStep, Dispatch, Claim, CommitEffect, Ack, DeadLetter, HandlerFails
  <2>2. owner' = owner \/ \E e : owner' = [owner EXCEPT ![e] = NoOne]
    BY <1>8 DEF LaneStep, Dispatch, Claim, CommitEffect, Ack, DeadLetter, HandlerFails, redisVars
  <2> QED BY <1>0, <2>1, <2>2 DEF RedisTypes, PendingOf
<1>9. ASSUME NEW c \in Consumer, Forgets(c)
      PROVE  pc'[d] = "gone" /\ PendingOf(d)' \subseteq PendingOf(d)
  <2>1. UNCHANGED owner
    BY <1>9 DEF Forgets, EndBatch, SweepEnd, SweepFails, DrainTimeout, LoopDies, Crash, redisVars
  <2>2. pc[c] # "gone" /\ \E p : pc' = [pc EXCEPT ![c] = p]
    BY <1>9 DEF Forgets, EndBatch, SweepEnd, SweepFails, DrainTimeout, LoopDies, Crash, Live,
                Sweeping
  <2> QED BY <1>3, <2>1, <2>2
<1>10. ASSUME NEW c \in Consumer, Deregister(c) \/ SweepDelete(c)
       PROVE  pc'[d] = "gone" /\ PendingOf(d)' \subseteq PendingOf(d)
  <2>1. \A e \in Entry : owner'[e] \in {owner[e], NoOne}
    BY <1>10 DEF Deregister, SweepDelete, DeleteConsumer
  <2>2. UNCHANGED pc \/ (pc[c] = "exit" /\ pc' = [pc EXCEPT ![c] = "gone"])
    BY <1>10 DEF Deregister, SweepDelete
  <2> QED BY <1>0, <2>1, <2>2 DEF LoopTypes, PendingOf
<1>11. ASSUME NEW c \in Consumer, SweepReclaim(c)
       PROVE  pc'[d] = "gone" /\ PendingOf(d)' \subseteq PendingOf(d)
  <2>1. \A e \in Entry : owner'[e] \in {owner[e], c, NoOne}
    BY <1>11 DEF SweepReclaim
  <2>2. pc[c] = "sweep" /\ UNCHANGED pc
    BY <1>11 DEF SweepReclaim, Sweeping
  <2> QED BY <2>1, <2>2 DEF PendingOf
<1> QED BY <1>2, <1>4, <1>5, <1>6, <1>7, <1>8, <1>9, <1>10, <1>11, NextCases

\* What c's sweep has on its list, and what it is about to delete.
SweepTakesTheDead(c) ==
  pc[c] = "sweep" =>
    /\ \A d \in sweep[c].todo :
         pc[d] = "gone" /\ (d \notin sweep[c].owing => PendingOf(d) = {})
    /\ sweep[c].phase # "list" => sweep[c].ghost \in Consumer /\ pc[sweep[c].ghost] = "gone"
    /\ sweep[c].phase = "delete" => PendingOf(sweep[c].ghost) = {}

\* A sweep that takes no step keeps its dead: they stay so and gain nothing.
LEMMA SweepKept ==
  ASSUME TypeOK, GoneForGood, NEW c \in Consumer, SweepTakesTheDead(c),
         pc'[c] = "sweep" => pc[c] = "sweep" /\ sweep'[c] = sweep[c]
  PROVE  SweepTakesTheDead(c)'
<1> SUFFICES ASSUME pc'[c] = "sweep" PROVE SweepTakesTheDead(c)'
  BY DEF SweepTakesTheDead
<1>1. sweep'[c] = sweep[c] /\ pc[c] = "sweep"
  OBVIOUS
<1>2. sweep[c].todo \subseteq Consumer
  BY TypeParts DEF LoopTypes, SweepState
<1>3. \A d \in Consumer : pc[d] = "gone" => pc'[d] = "gone" /\ PendingOf(d)' \subseteq PendingOf(d)
  BY DEF GoneForGood
<1>4. \A d \in sweep[c].todo :
        pc[d] = "gone" /\ (d \notin sweep[c].owing => PendingOf(d) = {})
  BY <1>1 DEF SweepTakesTheDead
<1>5. \A d \in sweep[c].todo :
        pc'[d] = "gone" /\ (d \notin sweep[c].owing => PendingOf(d)' = {})
  BY <1>2, <1>3, <1>4
<1>6. /\ sweep[c].phase # "list" => sweep[c].ghost \in Consumer /\ pc[sweep[c].ghost] = "gone"
      /\ sweep[c].phase = "delete" => PendingOf(sweep[c].ghost) = {}
  BY <1>1 DEF SweepTakesTheDead
<1> DEFINE g == sweep[c].ghost
<1>7. /\ sweep[c].phase # "list" => g \in Consumer /\ pc'[g] = "gone"
      /\ sweep[c].phase = "delete" => PendingOf(g)' = {}
  BY <1>3, <1>6
<1> QED BY <1>1, <1>5, <1>7 DEF SweepTakesTheDead, PendingOf

\* Nobody takes a working process for dead: a threshold beyond the longest batch is
\* beyond a live process's longest silence.
LEMMA GhostsAreGone ==
  ASSUME TypeOK, ThresholdCoversABatch, SilenceIsWork, NEW c \in Consumer, NEW d \in Ghosts(c)
  PROVE  d \in Consumer /\ pc[d] = "gone"
<1> DEFINE w == (2 * BatchCount) * HandlerTicks
<1>1. d \in registered /\ idle[d] >= StaleIdle /\ d \in Consumer /\ idle[d] \in Nat
  BY LimitAssumption DEF Ghosts, TypeOK
<1>2. w < StaleIdle
  BY DEF ThresholdCoversABatch
<1>3. pc[d] # "gone" => idle[d] <= w
  BY <1>1 DEF SilenceIsWork
<1>4. w \in Nat /\ StaleIdle \in Nat
  <2>1. 2 * BatchCount \in Nat /\ HandlerTicks \in Nat
    BY BatchAssumption, LimitAssumption
  <2> QED BY <2>1, LimitAssumption
<1> HIDE DEF w
<1> QED BY <1>1, <1>2, <1>3, <1>4

\* Every step keeps the sweeps to the dead.
LEMMA NextSweeps ==
  ASSUME TypeOK, ThresholdCoversABatch, SilenceIsWork, SweepsTakeTheDead, [Next]_vars
  PROVE  SweepsTakeTheDead'
<1> DEFINE Held(x) == {e \in Entry : owner'[e] = x}
<1>0. RedisTypes /\ LoopTypes
  BY TypeParts
<1>1. GoneForGood
  BY GoneStayGone
<1>2. \A b \in Consumer : SweepTakesTheDead(b)
  BY DEF SweepsTakeTheDead, SweepTakesTheDead
<1>3. SUFFICES ASSUME NEW b \in Consumer PROVE SweepTakesTheDead(b)'
  BY DEF SweepsTakeTheDead, SweepTakesTheDead, PendingOf
<1>4. ASSUME pc'[b] = "sweep" => pc[b] = "sweep" /\ sweep'[b] = sweep[b]
      PROVE  SweepTakesTheDead(b)'
  BY <1>1, <1>2, <1>4, SweepKept
<1>5. CASE Add \/ Tick \/ UNCHANGED vars
  BY <1>4, <1>5 DEF Add, Tick, vars, procVars
<1>6. ASSUME NEW c \in Consumer,
             \/ Boot(c) \/ LeaveLoop(c) \/ Deregister(c) \/ ReadRecovered(c) \/ ReadFresh(c)
      PROVE  SweepTakesTheDead(b)'
  <2>1. UNCHANGED sweep /\ \E p \in {"ready", "exit", "gone", "reading", "batch"} :
          pc' = [pc EXCEPT ![c] = p]
    BY <1>6 DEF Boot, LeaveLoop, Deregister, ReadRecovered, ReadFresh
  <2> QED BY <1>0, <1>4, <2>1 DEF LoopTypes
<1>7. ASSUME NEW c \in Consumer, RequestStop(c) \/ LaneStep(c)
      PROVE  SweepTakesTheDead(b)'
  BY <1>4, <1>7 DEF RequestStop, LaneStep, Dispatch, Claim, CommitEffect, Ack, DeadLetter,
                    HandlerFails
<1>8. ASSUME NEW c \in Consumer, Forgets(c)
      PROVE  SweepTakesTheDead(b)'
  <2>1. /\ sweep' = [sweep EXCEPT ![c] = NoSweep]
        /\ \E p \in {"ready", "exit", "gone"} : pc' = [pc EXCEPT ![c] = p]
    BY <1>8, ForgetsTypes DEF Forget
  <2> QED BY <1>0, <1>4, <2>1 DEF LoopTypes
<1>9. ASSUME NEW c \in Consumer, SweepList(c)
      PROVE  SweepTakesTheDead(b)'
  <2> DEFINE s == [phase |-> "list", todo |-> Ghosts(c),
                   owing |-> {d \in Ghosts(c) : PendingOf(d) # {}}, ghost |-> NoOne]
  <2>1. /\ sweep' = [sweep EXCEPT ![c] = s] /\ pc' = [pc EXCEPT ![c] = "sweep"]
        /\ pc[c] = "ready" /\ UNCHANGED owner
    BY <1>9 DEF SweepList, redisVars
  <2>2. CASE b # c
    BY <1>0, <1>4, <2>1, <2>2 DEF LoopTypes
  <2>3. CASE b = c
    <3>1. sweep'[b] = s
      BY <1>0, <2>1, <2>3 DEF LoopTypes
    <3>2. ASSUME NEW d \in Ghosts(c)
          PROVE  pc'[d] = "gone" /\ (d \notin s.owing => Held(d) = {})
      <4>1. d \in Consumer /\ pc[d] = "gone"
        BY GhostsAreGone
      <4>2. pc'[d] = "gone"
        BY <1>1, <4>1 DEF GoneForGood
      <4>3. Held(d) = PendingOf(d)
        BY <2>1 DEF PendingOf
      <4> QED BY <4>2, <4>3
    <3>3. s.phase = "list" /\ s.todo = Ghosts(c)
      OBVIOUS
    <3> HIDE DEF s
    <3> QED BY <3>1, <3>2, <3>3 DEF SweepTakesTheDead, PendingOf
  <2> QED BY <2>2, <2>3
<1>10. ASSUME NEW c \in Consumer, NEW d \in Consumer, SweepNext(c, d)
       PROVE  SweepTakesTheDead(b)'
  <2> DEFINE s == [sweep[c] EXCEPT !.ghost = d, !.todo = @ \ {d},
                     !.phase = IF d \in sweep[c].owing THEN "reclaim" ELSE "delete"]
  <2>1. /\ sweep' = [sweep EXCEPT ![c] = s] /\ UNCHANGED <<pc, owner>>
        /\ pc[c] = "sweep" /\ d \in sweep[c].todo
    BY <1>0, <1>10 DEF SweepNext, Sweeping, LoopTypes, redisVars
  <2>2. CASE b # c
    BY <1>0, <1>4, <2>1, <2>2 DEF LoopTypes
  <2>3. CASE b = c
    <3>0. sweep[c] \in SweepState
      BY <1>0 DEF LoopTypes
    <3>1. /\ s.ghost = d /\ s.todo = sweep[c].todo \ {d} /\ s.owing = sweep[c].owing
          /\ s.phase = IF d \in sweep[c].owing THEN "reclaim" ELSE "delete"
      BY <3>0 DEF SweepState
    <3>2. sweep'[b] = s
      BY <1>0, <2>1, <2>3 DEF LoopTypes
    <3> HIDE DEF s
    <3>3. \A g \in sweep[c].todo :
            pc[g] = "gone" /\ (g \notin sweep[c].owing => PendingOf(g) = {})
      BY <1>2, <2>1 DEF SweepTakesTheDead
    <3>4. \A g : Held(g) = PendingOf(g)
      BY <2>1 DEF PendingOf
    <3>5. pc[d] = "gone" /\ (s.phase = "delete" => Held(d) = {})
      BY <2>1, <3>1, <3>3, <3>4
    <3>6. \A g \in s.todo : pc'[g] = "gone" /\ (g \notin s.owing => Held(g) = {})
      BY <2>1, <3>1, <3>3, <3>4
    <3>7. s.phase # "list" => s.ghost \in Consumer /\ pc'[s.ghost] = "gone"
      BY <2>1, <3>1, <3>5
    <3>8. s.phase = "delete" => Held(s.ghost) = {}
      BY <3>1, <3>5
    <3> QED BY <3>2, <3>6, <3>7, <3>8 DEF SweepTakesTheDead, PendingOf
  <2> QED BY <2>2, <2>3
<1>11. ASSUME NEW c \in Consumer, NEW p \in {"list", "recheck", "delete"},
              pc[c] = "sweep", sweep[c].phase # "list", UNCHANGED pc,
              sweep' = [sweep EXCEPT ![c].phase = p],
              p = "delete" => Held(sweep[c].ghost) = {}
       PROVE  SweepTakesTheDead(b)'
  <2>1. CASE b # c
    BY <1>0, <1>4, <1>11, <2>1 DEF LoopTypes
  <2>2. CASE b = c
    <3> DEFINE s == [sweep[c] EXCEPT !.phase = p]
    <3>0. sweep[c] \in SweepState
      BY <1>0 DEF LoopTypes
    <3>1. /\ s.ghost = sweep[c].ghost /\ s.todo = sweep[c].todo /\ s.owing = sweep[c].owing
          /\ s.phase = p /\ s.todo \subseteq Consumer
      BY <3>0 DEF SweepState
    <3>2. sweep'[b] = s
      BY <1>0, <1>11, <2>2 DEF LoopTypes
    <3> HIDE DEF s
    <3>3. /\ \A g \in s.todo :
               pc[g] = "gone" /\ (g \notin s.owing => PendingOf(g) = {})
          /\ s.ghost \in Consumer /\ pc[s.ghost] = "gone"
      BY <1>2, <1>11, <3>1 DEF SweepTakesTheDead
    <3>4. \A g \in s.todo : pc'[g] = "gone" /\ (g \notin s.owing => Held(g) = {})
      BY <1>1, <3>1, <3>3 DEF GoneForGood, PendingOf
    <3>5. s.phase = "delete" => Held(s.ghost) = {}
      BY <1>11, <3>1
    <3> QED BY <1>11, <3>2, <3>3, <3>4, <3>5 DEF SweepTakesTheDead, PendingOf
  <2> QED BY <2>1, <2>2
<1>12. ASSUME NEW c \in Consumer, SweepReclaim(c) \/ SweepDelete(c)
       PROVE  SweepTakesTheDead(b)'
  <2>1. /\ pc[c] = "sweep" /\ sweep[c].phase # "list" /\ UNCHANGED pc
        /\ \/ sweep' = [sweep EXCEPT ![c].phase = "recheck"]
           \/ sweep' = [sweep EXCEPT ![c].phase = "list"]
    BY <1>12 DEF SweepReclaim, SweepDelete, Sweeping
  <2> QED BY <1>11, <2>1
<1>13. ASSUME NEW c \in Consumer, SweepRecheck(c)
       PROVE  SweepTakesTheDead(b)'
  <2> DEFINE p == IF PendingOf(sweep[c].ghost) = {} THEN "delete" ELSE "list"
  <2>1. /\ pc[c] = "sweep" /\ sweep[c].phase # "list" /\ UNCHANGED <<pc, owner>>
        /\ sweep' = [sweep EXCEPT ![c].phase = p]
    BY <1>13 DEF SweepRecheck, Sweeping, redisVars
  <2>2. p \in {"list", "recheck", "delete"}
        /\ (p = "delete" => Held(sweep[c].ghost) = {})
    BY <2>1 DEF PendingOf
  <2> HIDE DEF p
  <2> QED BY <1>11, <2>1, <2>2
<1> QED BY <1>5, <1>6, <1>7, <1>8, <1>9, <1>10, <1>12, <1>13, NextCases

\* The handlers of one batch take at most HandlerTicks each.
LEMMA SpentIsBounded ==
  ASSUME NEW S \in SUBSET ((1..(2 * BatchCount)) \X (1..HandlerTicks))
  PROVE  /\ IsFiniteSet(S) /\ Cardinality(S) \in Nat
         /\ Cardinality(S) <= (2 * BatchCount) * HandlerTicks
<1> DEFINE m == 2 * BatchCount
           P == (1..m) \X (1..HandlerTicks)
<1>1. m \in Nat /\ HandlerTicks \in Nat
  BY BatchAssumption, LimitAssumption
<1>2. S \subseteq P
  OBVIOUS
<1> HIDE DEF m
<1>3. /\ IsFiniteSet(1..m) /\ Cardinality(1..m) = m
      /\ IsFiniteSet(1..HandlerTicks) /\ Cardinality(1..HandlerTicks) = HandlerTicks
  <2>1. ASSUME NEW n \in Nat PROVE IsFiniteSet(1..n) /\ Cardinality(1..n) = n
    <3>1. IsFiniteSet(1..n) /\ Cardinality(1..n) = IF 1 > n THEN 0 ELSE n - 1 + 1
      BY FS_Interval
    <3> QED BY <3>1
  <2> QED BY <1>1, <2>1
<1>4. IsFiniteSet(P) /\ Cardinality(P) = m * HandlerTicks
  <2>1. IsFiniteSet(P) /\ Cardinality(P) = Cardinality(1..m) * Cardinality(1..HandlerTicks)
    BY <1>3, FS_Product
  <2> QED BY <1>3, <2>1, Zenon
<1> HIDE DEF P
<1>5. /\ IsFiniteSet(S) /\ Cardinality(S) <= Cardinality(P)
  BY <1>2, <1>4, FS_Subset
<1>6. Cardinality(S) \in Nat
  BY <1>5, FS_CardinalityType
<1> QED BY <1>4, <1>5, <1>6 DEF m

\* Time passes in a batch only while a handler runs, and is that handler's.
LEMMA TickIsSpent ==
  ASSUME TypeOK, Tick, SilenceIsWork, NEW c \in Consumer, pc[c] = "batch"
  PROVE  Cardinality(Spent(c)) + 1 <= Cardinality(Spent(c)')
<1> USE BatchAssumption, LimitAssumption
<1>0. BatchTypes
  BY TypeParts
<1>1. PICK i \in 1..Len(stat[c]) : Running(c, i)
  BY DEF Tick
<1>2. ran[c] \in Seq(0..HandlerTicks) /\ Len(ran[c]) = Len(stat[c]) /\ Len(ran[c]) \in Nat
      /\ Len(batch[c]) = Len(stat[c])
  BY <1>0, LenProperties DEF BatchTypes
<1>3. ran[c][i] < HandlerTicks
  BY <1>1 DEF Tick
<1>4. \A j \in 1..Len(ran[c]) : ran[c][j] \in 0..HandlerTicks
  BY <1>2, ElementOfSeq
<1>5. ran'[c] = [j \in 1..Len(stat[c]) |-> IF Running(c, j) THEN ran[c][j] + 1 ELSE ran[c][j]]
  BY DEF Tick
<1>6. /\ Len(ran'[c]) = Len(ran[c])
      /\ \A j \in 1..Len(ran[c]) : ran'[c][j] \in Nat /\ ran[c][j] <= ran'[c][j]
      /\ ran'[c][i] = ran[c][i] + 1
  <2>1. ran'[c] \in [1..Len(ran[c]) -> Nat]
    <3>1. \A j \in 1..Len(ran[c]) : (IF Running(c, j) THEN ran[c][j] + 1 ELSE ran[c][j]) \in Nat
      BY <1>4
    <3> QED BY <1>2, <1>5, <3>1
  <2>2. Len(ran'[c]) = Len(ran[c])
    BY <1>2, <2>1, SegmentIsSeq
  <2>3. ASSUME NEW j \in 1..Len(ran[c]) PROVE ran'[c][j] \in Nat /\ ran[c][j] <= ran'[c][j]
    <3>1. ran[c][j] \in Nat
      BY <1>4
    <3>2. ran'[c][j] = IF Running(c, j) THEN ran[c][j] + 1 ELSE ran[c][j]
      BY <1>2, <1>5
    <3> QED BY <3>1, <3>2
  <2>4. ran'[c][i] = ran[c][i] + 1
    BY <1>1, <1>5
  <2> QED BY <2>2, <2>3, <2>4
<1> DEFINE new == <<i, ran[c][i] + 1>>
           P == (1..(2 * BatchCount)) \X (1..HandlerTicks)
<1>7. i \in Nat /\ 1 <= i /\ i <= Len(ran[c]) /\ i <= 2 * BatchCount /\ ran[c][i] \in Nat
  <2>1. Len(batch[c]) <= 2 * BatchCount
    BY DEF SilenceIsWork
  <2> QED BY <1>2, <1>4, <2>1
<1>8. new \in P /\ new[1] = i /\ new[2] = ran[c][i] + 1
  BY <1>3, <1>7
<1> DEFINE Was(p) == p[1] <= Len(ran[c]) /\ p[2] <= ran[c][p[1]]
           Is(p) == p[1] <= Len(ran'[c]) /\ p[2] <= ran'[c][p[1]]
<1>9. Spent(c) = {p \in P : Was(p)} /\ Spent(c)' = {p \in P : Is(p)}
  BY DEF Spent
<1>10. ~Was(new) /\ Is(new)
  BY <1>6, <1>7, <1>8
<1>11. ASSUME NEW p \in P, Was(p) PROVE Is(p)
  <2>1. p[1] \in 1..(2 * BatchCount) /\ p[2] \in 1..HandlerTicks
    OBVIOUS
  <2>2. p[1] \in 1..Len(ran[c])
    BY <1>2, <1>11, <2>1
  <2>3. ran[c][p[1]] \in Nat /\ ran'[c][p[1]] \in Nat /\ ran[c][p[1]] <= ran'[c][p[1]]
    BY <1>4, <1>6, <2>2
  <2> QED BY <1>6, <1>11, <2>1, <2>3
<1> HIDE DEF P, Was, Is, new
<1>12. Spent(c) \cup {new} \subseteq Spent(c)' /\ new \notin Spent(c)
  BY <1>8, <1>9, <1>10, <1>11
<1>13. IsFiniteSet(Spent(c)) /\ Cardinality(Spent(c)) \in Nat
  BY <1>9, SpentIsBounded DEF P
<1>14. IsFiniteSet(Spent(c)')
  BY <1>9, SpentIsBounded DEF P
<1>15. Cardinality(Spent(c) \cup {new}) = Cardinality(Spent(c)) + 1
  BY <1>12, <1>13, FS_AddElement
<1>16. Cardinality(Spent(c) \cup {new}) <= Cardinality(Spent(c)')
  BY <1>12, <1>14, FS_Subset
<1> QED BY <1>15, <1>16

\* How long c's batch is, and how long c has been silent.
SilentWhileWorking(c) ==
  /\ pc[c] = "reading" => Len(batch[c]) <= BatchCount
  /\ Len(batch[c]) <= 2 * BatchCount
  /\ c \in registered =>
       /\ pc[c] # "unborn"
       /\ pc[c] = "batch" => idle[c] <= Cardinality(Spent(c))
       /\ pc[c] # "gone" => idle[c] <= (2 * BatchCount) * HandlerTicks

\* A process whose batch and clock do not change.
LEMMA SilenceKept ==
  ASSUME TypeOK, NEW d \in Consumer, SilentWhileWorking(d),
         batch'[d] = batch[d], idle'[d] = idle[d], d \in registered' => d \in registered,
         \/ pc'[d] = pc[d] /\ ran'[d] = ran[d]
         \/ pc[d] # "gone" /\ pc'[d] \in {"ready", "sweep", "exit", "gone"}
  PROVE  SilentWhileWorking(d)'
BY DEF SilentWhileWorking, Spent

\* A process that has just spoken.
LEMMA SilenceBroken ==
  ASSUME NEW d \in Consumer, idle'[d] = 0, pc'[d] # "unborn",
         Len(batch'[d]) \in Nat, Len(batch'[d]) <= 2 * BatchCount,
         pc'[d] = "reading" => Len(batch'[d]) <= BatchCount
  PROVE  SilentWhileWorking(d)'
<1>1. IsFiniteSet(Spent(d)') /\ Cardinality(Spent(d)') \in Nat
  <2>1. Spent(d)' \subseteq (1..(2 * BatchCount)) \X (1..HandlerTicks)
    BY DEF Spent
  <2> QED BY <2>1, SpentIsBounded
<1>2. 0 <= Cardinality(Spent(d)')
  BY <1>1
<1>3. 0 <= (2 * BatchCount) * HandlerTicks
  <2>1. 2 * BatchCount \in Nat /\ HandlerTicks \in Nat
    BY BatchAssumption, LimitAssumption
  <2> QED BY <2>1
<1> DEFINE w == (2 * BatchCount) * HandlerTicks
<1>4. 0 <= w
  BY <1>3
<1>5. w' = w
  OBVIOUS
<1> HIDE DEF w
<1>6. pc'[d] = "batch" => idle'[d] <= Cardinality(Spent(d)')
  BY <1>2
<1>7. idle'[d] <= w
  BY <1>4
<1> QED BY <1>6, <1>7 DEF SilentWhileWorking, w

\* Every step keeps a process's silence within what its handlers have run.
LEMMA NextSilence ==
  ASSUME TypeOK, SilenceIsWork, [Next]_vars
  PROVE  SilenceIsWork'
<1> USE BatchAssumption, LimitAssumption
<1>0. RedisTypes /\ LoopTypes /\ BatchTypes
  BY TypeParts
<1>t. TypeOK'
  BY NextTypes
<1>1. \A d \in Consumer : SilentWhileWorking(d)
  BY <1>0 DEF SilenceIsWork, SilentWhileWorking
<1>2. SUFFICES ASSUME NEW d \in Consumer PROVE SilentWhileWorking(d)'
  <2>1. registered' \subseteq Consumer
    BY <1>t, TypeParts DEF RedisTypes
  <2> QED BY <1>2, <2>1 DEF SilenceIsWork, SilentWhileWorking, Spent
<1>3. ASSUME batch'[d] = batch[d], idle'[d] = idle[d], d \in registered' => d \in registered,
             \/ pc'[d] = pc[d] /\ ran'[d] = ran[d]
             \/ pc[d] # "gone" /\ pc'[d] \in {"ready", "sweep", "exit", "gone"}
      PROVE  SilentWhileWorking(d)'
  BY <1>1, <1>3, SilenceKept
<1>4. ASSUME idle'[d] = 0, pc'[d] # "unborn", Len(batch'[d]) <= 2 * BatchCount,
             pc'[d] = "reading" => Len(batch'[d]) <= BatchCount
      PROVE  SilentWhileWorking(d)'
  <2>1. Len(batch'[d]) \in Nat
    <3>1. batch'[d] \in Seq(Message)
      BY <1>t, TypeParts DEF BatchTypes
    <3> QED BY <3>1, LenProperties
  <2> QED BY <1>4, <2>1, SilenceBroken
<1>5. CASE Add \/ UNCHANGED vars
  BY <1>3, <1>5 DEF Add, vars, redisVars, procVars, nameVars
<1>6. CASE Tick
  <2>1. UNCHANGED <<pc, batch, registered>>
    BY <1>6 DEF Tick
  <2>2. pc[d] \notin {"reading", "sweep", "exit"}
    BY <1>6 DEF Tick
  <2>3. idle'[d] = IF pc[d] = "ready" THEN 0 ELSE Older(idle[d])
    BY <1>6 DEF Tick
  <2>4. CASE pc[d] = "ready"
    <3>1. Len(batch'[d]) <= 2 * BatchCount
      BY <1>1, <2>1 DEF SilentWhileWorking
    <3> QED BY <1>4, <2>1, <2>3, <2>4, <3>1
  <2>5. CASE pc[d] \in {"unborn", "gone"}
    BY <1>1, <2>1, <2>5 DEF SilentWhileWorking
  <2>6. CASE pc[d] = "batch"
    <3> DEFINE w == (2 * BatchCount) * HandlerTicks
               k == Cardinality(Spent(d))
               l == Cardinality(Spent(d)')
    <3>1. k + 1 <= l
      BY <1>6, <2>6, TickIsSpent
    <3>2. k \in Nat
      <4>1. Spent(d) \subseteq (1..(2 * BatchCount)) \X (1..HandlerTicks)
        BY DEF Spent
      <4> QED BY <4>1, SpentIsBounded
    <3>3. l \in Nat /\ l <= w
      <4>1. Spent(d)' \subseteq (1..(2 * BatchCount)) \X (1..HandlerTicks)
        BY DEF Spent
      <4> QED BY <4>1, SpentIsBounded
    <3>4. d \in registered => idle[d] <= k
      BY <1>1, <2>6 DEF SilentWhileWorking
    <3>5. idle[d] \in Nat /\ idle'[d] <= idle[d] + 1 /\ idle'[d] \in Nat
      <4>1. idle[d] \in 0..StaleIdle
        BY <1>0 DEF RedisTypes
      <4> QED BY <2>3, <2>6, <4>1 DEF Older
    <3>6. w \in Nat
      <4>1. 2 * BatchCount \in Nat
        OBVIOUS
      <4> QED BY <4>1
    <3> HIDE DEF w, k, l
    <3>7. d \in registered => idle'[d] <= l /\ idle'[d] <= w
      BY <3>1, <3>2, <3>3, <3>4, <3>5, <3>6
    <3>8. Len(batch'[d]) <= 2 * BatchCount /\ pc'[d] = "batch"
      BY <1>1, <2>1, <2>6 DEF SilentWhileWorking
    <3> QED BY <2>1, <3>7, <3>8 DEF SilentWhileWorking, w, l
  <2>7. pc[d] \in {"unborn", "ready", "reading", "batch", "sweep", "exit", "gone"}
    BY <1>0 DEF LoopTypes
  <2> QED BY <2>2, <2>4, <2>5, <2>6, <2>7
<1>7. ASSUME NEW c \in Consumer, Boot(c) PROVE SilentWhileWorking(d)'
  <2>1. pc[c] = "unborn" /\ pc' = [pc EXCEPT ![c] = "ready"]
        /\ UNCHANGED <<batch, idle, registered, ran>>
    BY <1>7 DEF Boot, redisVars
  <2>2. CASE d = c
    BY <1>0, <1>3, <2>1, <2>2 DEF LoopTypes
  <2>3. CASE d # c
    BY <1>0, <1>3, <2>1, <2>3 DEF LoopTypes
  <2> QED BY <2>2, <2>3
<1>8. ASSUME NEW c \in Consumer, LeaveLoop(c) \/ Deregister(c) \/ SweepList(c)
      PROVE  SilentWhileWorking(d)'
  <2>1. /\ pc[c] # "gone" /\ \E p \in {"exit", "gone", "sweep"} : pc' = [pc EXCEPT ![c] = p]
        /\ UNCHANGED <<batch, idle, ran>> /\ registered' \subseteq registered
    BY <1>8 DEF LeaveLoop, Deregister, SweepList, DeleteConsumer, redisVars
  <2>2. CASE d = c
    BY <1>0, <1>3, <2>1, <2>2 DEF LoopTypes
  <2>3. CASE d # c
    BY <1>0, <1>3, <2>1, <2>3 DEF LoopTypes
  <2> QED BY <2>2, <2>3
<1>9. ASSUME NEW c \in Consumer,
             \/ RequestStop(c) \/ LaneStep(c) \/ SweepRecheck(c) \/ SweepDelete(c)
             \/ \E g \in Consumer : SweepNext(c, g)
      PROVE  SilentWhileWorking(d)'
  <2>1. UNCHANGED <<pc, batch, idle, ran>> /\ registered' \subseteq registered
    BY <1>9 DEF RequestStop, LaneStep, Dispatch, Claim, CommitEffect, Ack, DeadLetter,
                HandlerFails, SweepRecheck, SweepDelete, SweepNext, DeleteConsumer, redisVars,
                nameVars
  <2> QED BY <1>3, <2>1
<1>10. ASSUME NEW c \in Consumer, SweepReclaim(c) PROVE SilentWhileWorking(d)'
  <2>1. /\ pc[c] = "sweep" /\ UNCHANGED <<pc, batch, ran>>
        /\ registered' = registered \cup {c} /\ idle' = [idle EXCEPT ![c] = 0]
    BY <1>10 DEF SweepReclaim, Sweeping, Touch
  <2>2. CASE d = c
    <3>1. idle'[d] = 0 /\ Len(batch'[d]) <= 2 * BatchCount
      BY <1>0, <1>1, <2>1, <2>2 DEF RedisTypes, SilentWhileWorking
    <3> QED BY <1>4, <2>1, <2>2, <3>1
  <2>3. CASE d # c
    BY <1>0, <1>3, <2>1, <2>3 DEF RedisTypes
  <2> QED BY <2>2, <2>3
<1>11. ASSUME NEW c \in Consumer, ReadRecovered(c) PROVE SilentWhileWorking(d)'
  <2>1. /\ pc[c] = "ready" /\ pc' = [pc EXCEPT ![c] = "reading"] /\ UNCHANGED ran
        /\ registered' = registered \cup {c} /\ idle' = [idle EXCEPT ![c] = 0]
    BY <1>11 DEF ReadRecovered, Touch
  <2>2. CASE d = c
    <3>1. idle'[d] = 0 /\ pc'[d] = "reading"
      BY <1>0, <2>1, <2>2 DEF RedisTypes, LoopTypes
    <3>2. Len(batch'[d]) <= BatchCount /\ Len(batch'[d]) \in Nat
      BY <1>11, <2>2, ReadRecoveredTypes
    <3> QED BY <1>4, <3>1, <3>2
  <2>3. CASE d # c
    <3>1. batch'[d] = batch[d]
      BY <1>0, <1>11, <2>3 DEF ReadRecovered, BatchTypes
    <3> QED BY <1>0, <1>3, <2>1, <2>3, <3>1 DEF RedisTypes, LoopTypes
  <2> QED BY <2>2, <2>3
<1>12. ASSUME NEW c \in Consumer, ReadFresh(c) PROVE SilentWhileWorking(d)'
  <2>1. /\ pc[c] = "reading" /\ pc' = [pc EXCEPT ![c] = "batch"]
        /\ registered' = registered \cup {c} /\ idle' = [idle EXCEPT ![c] = 0]
    BY <1>12 DEF ReadFresh, Touch
  <2>2. CASE d = c
    <3>1. idle'[d] = 0 /\ pc'[d] = "batch"
      BY <1>0, <2>1, <2>2 DEF RedisTypes, LoopTypes
    <3>2. Len(batch[c]) <= BatchCount
      BY <1>1, <2>1 DEF SilentWhileWorking
    <3>3. Len(batch'[c]) <= Len(batch[c]) + BatchCount
      BY <1>12, ReadFreshTypes
    <3>4. Len(batch[c]) \in Nat /\ Len(batch'[c]) \in Nat
      <4>1. batch[c] \in Seq(Message) /\ batch'[c] \in Seq(Message)
        BY <1>0, <1>t, TypeParts DEF BatchTypes
      <4> QED BY <4>1, LenProperties
    <3>5. Len(batch'[c]) <= 2 * BatchCount
      BY <3>2, <3>3, <3>4
    <3> QED BY <1>4, <2>2, <3>1, <3>5
  <2>3. CASE d # c
    <3>1. batch'[d] = batch[d] /\ ran'[d] = ran[d]
      BY <1>0, <1>12, <2>3 DEF ReadFresh, BatchTypes
    <3> QED BY <1>0, <1>3, <2>1, <2>3, <3>1 DEF RedisTypes, LoopTypes
  <2> QED BY <2>2, <2>3
<1>13. ASSUME NEW c \in Consumer, Forgets(c) PROVE SilentWhileWorking(d)'
  <2>1. /\ Forget(c) /\ UNCHANGED <<registered, idle>>
        /\ \E p \in {"ready", "exit", "gone"} : pc' = [pc EXCEPT ![c] = p]
    BY <1>13, ForgetsTypes DEF redisVars
  <2>2. pc[c] \notin {"gone", "unborn"}
    BY <1>13 DEF Forgets, EndBatch, SweepEnd, SweepFails, DrainTimeout, LoopDies, Crash, Live,
                 Sweeping
  <2>3. CASE d = c
    <3>1. batch'[d] = <<>> /\ Len(<<>>) = 0 /\ pc'[d] \in {"ready", "exit", "gone"}
      BY <1>0, <2>1, <2>3 DEF Forget, BatchTypes, LoopTypes
    <3>2. d \in registered => idle'[d] <= (2 * BatchCount) * HandlerTicks
      BY <1>1, <2>1, <2>2, <2>3 DEF SilentWhileWorking
    <3>3. Len(batch'[d]) <= 2 * BatchCount
      BY <3>1
    <3> QED BY <2>1, <3>1, <3>2, <3>3 DEF SilentWhileWorking
  <2>4. CASE d # c
    <3>1. batch'[d] = batch[d] /\ ran'[d] = ran[d]
      BY <1>0, <2>1, <2>4 DEF Forget, BatchTypes
    <3> QED BY <1>0, <1>3, <2>1, <2>4, <3>1 DEF LoopTypes
  <2> QED BY <2>3, <2>4
<1> QED BY <1>5, <1>6, <1>7, <1>8, <1>9, <1>10, <1>11, <1>12, <1>13, NextCases

\* A step that moves no cursor and takes an entry from its owner only to settle it.
LEMMA NothingDropped ==
  ASSUME NothingLost, UNCHANGED cursor, cursor \in Nat, cursor <= NumEntries,
         acked \subseteq acked', dlq \subseteq dlq', gone \subseteq gone',
         \A e \in Entry : owner[e] # NoOne =>
           owner'[e] # NoOne \/ e \in acked' \cup dlq' \cup gone'
  PROVE  NothingLost'
<1> SUFFICES ASSUME NEW e \in 1..cursor PROVE e \in Pending' \cup acked' \cup dlq' \cup gone'
  BY DEF NothingLost
<1>1. e \in Entry /\ e \in Pending \cup acked \cup dlq \cup gone
  BY EntryAssumption DEF NothingLost, Entry
<1> QED BY <1>1 DEF Pending

\* Every step keeps the entries the cursor has passed.
LEMMA NextKeepsEntries ==
  ASSUME TypeOK, SweepsTakeTheDead, NothingLost, [Next]_vars
  PROVE  NothingLost'
<1> USE EntryAssumption, ConsumerAssumption
<1>0. RedisTypes /\ BatchTypes
  BY TypeParts
<1>1. cursor \in Nat /\ cursor <= NumEntries
  BY <1>0 DEF RedisTypes
<1>2. ASSUME UNCHANGED <<cursor, owner, acked, dlq>>, gone \subseteq gone' PROVE NothingLost'
  BY <1>1, <1>2, NothingDropped
<1>3. CASE Add
  BY <1>2, <1>3 DEF Add, pelVars, endVars
<1>4. CASE Tick \/ UNCHANGED vars
  BY <1>2, <1>4 DEF Tick, endVars, vars, redisVars
<1>5. ASSUME NEW c \in Consumer,
             \/ Boot(c) \/ LeaveLoop(c) \/ RequestStop(c) \/ ReadRecovered(c) \/ SweepList(c)
             \/ SweepRecheck(c) \/ (\E d \in Consumer : SweepNext(c, d)) \/ Forgets(c)
      PROVE  NothingLost'
  <2>1. UNCHANGED <<cursor, owner, acked, dlq, gone>>
    BY <1>5 DEF Boot, LeaveLoop, RequestStop, ReadRecovered, SweepList, SweepRecheck, SweepNext,
                Forgets, EndBatch, SweepEnd, SweepFails, DrainTimeout, LoopDies, Crash,
                redisVars, endVars
  <2> QED BY <1>2, <2>1
<1>6. ASSUME NEW c \in Consumer, ReadFresh(c) PROVE NothingLost'
  <2> DEFINE got == Oldest(Unread, BatchCount)
  <2>1. /\ Unread \in SUBSET Entry /\ got \subseteq Unread
        /\ got = {} => cursor' = cursor
        /\ got # {} => cursor' \in got
        /\ cursor' \in 0..added /\ cursor <= cursor'
    BY <1>0, <1>6, FreshIsPastTheCursor
  <2>2. \A e \in got : \A f \in Unread : f < e => f \in got
    BY <2>1, OldestAreOldest, BatchAssumption
  <2>3. /\ owner' = [e \in Entry |-> IF e \in got THEN c ELSE owner[e]]
        /\ UNCHANGED <<acked, dlq, gone>>
    BY <1>6 DEF ReadFresh, endVars
  <2>4. added \in 0..NumEntries
    BY <1>0 DEF RedisTypes
  <2> HIDE DEF got
  <2> SUFFICES ASSUME NEW e \in 1..cursor'
               PROVE  e \in Pending' \cup acked' \cup dlq' \cup gone'
    BY DEF NothingLost
  <2>5. e \in Entry /\ e \in Nat /\ e <= added
    BY <2>1, <2>4 DEF Entry
  <2>6. CASE e <= cursor
    <3>1. e \in 1..cursor
      BY <1>1, <2>5, <2>6
    <3>2. e \in Pending \cup acked \cup dlq \cup gone
      BY <3>1 DEF NothingLost
    <3> QED BY <2>3, <2>5, <3>2 DEF Pending
  <2>7. CASE ~(e <= cursor) /\ e \in gone
    BY <2>3, <2>7
  <2>8. CASE ~(e <= cursor) /\ e \notin gone
    <3>1. e \in Unread
      BY <1>1, <2>4, <2>5, <2>8 DEF Unread
    <3>2. got # {}
      BY <1>1, <2>1, <2>8
    <3>3. e = cursor' \/ e < cursor'
      BY <2>1, <2>5
    <3>4. e \in got
      BY <2>1, <2>2, <3>1, <3>2, <3>3
    <3> QED BY <2>3, <2>5, <3>4 DEF Pending
  <2> QED BY <2>6, <2>7, <2>8
<1>7. ASSUME NEW c \in Consumer, LaneStep(c) PROVE NothingLost'
  <2>1. PICK i \in 1..Len(stat[c]) :
          \/ Dispatch(c, i) \/ Claim(c, i) \/ CommitEffect(c, i)
          \/ Ack(c, i) \/ DeadLetter(c, i)
          \/ \E permanent \in BOOLEAN : HandlerFails(c, i, permanent)
    BY <1>7 DEF LaneStep, Msg
  <2>2. CASE Ack(c, i) \/ DeadLetter(c, i)
    <3> DEFINE m == batch[c][i].entry
    <3>1. /\ owner' = [owner EXCEPT ![m] = NoOne] /\ m \in acked' \cup dlq'
          /\ acked \subseteq acked' /\ dlq \subseteq dlq' /\ UNCHANGED <<cursor, gone>>
      BY <2>2 DEF Ack, DeadLetter
    <3> HIDE DEF m
    <3>2. \A e \in Entry : owner[e] # NoOne => owner'[e] # NoOne \/ e \in acked' \cup dlq'
      BY <1>0, <3>1 DEF RedisTypes
    <3> QED BY <1>1, <3>1, <3>2, NothingDropped
  <2>3. CASE ~(Ack(c, i) \/ DeadLetter(c, i))
    <3>1. UNCHANGED redisVars
      BY <2>1, <2>3 DEF Dispatch, Claim, CommitEffect, HandlerFails
    <3> QED BY <1>2, <3>1 DEF redisVars
  <2> QED BY <2>2, <2>3
<1>8. ASSUME NEW c \in Consumer, Deregister(c) PROVE NothingLost'
  <2>1. UNCHANGED <<cursor, acked, dlq, gone>>
    BY <1>8 DEF Deregister
  <2>2. \A e \in Entry : owner'[e] = owner[e]
    BY <1>8 DEF Deregister, DeleteConsumer, PendingOf
  <2> QED BY <1>1, <2>1, <2>2, NothingDropped
<1>9. ASSUME NEW c \in Consumer, SweepDelete(c) PROVE NothingLost'
  <2>1. UNCHANGED <<cursor, acked, dlq, gone>>
    BY <1>9 DEF SweepDelete
  <2>2. PendingOf(sweep[c].ghost) = {}
    BY <1>9 DEF SweepDelete, Sweeping, SweepsTakeTheDead
  <2>3. \A e \in Entry : owner'[e] = owner[e]
    BY <1>9, <2>2 DEF SweepDelete, DeleteConsumer, PendingOf
  <2> QED BY <1>1, <2>1, <2>3, NothingDropped
<1>10. ASSUME NEW c \in Consumer, SweepReclaim(c) PROVE NothingLost'
  <2>1. UNCHANGED <<cursor, acked, dlq, gone>>
    BY <1>10 DEF SweepReclaim
  <2>2. \A e \in Entry : owner[e] # NoOne => owner'[e] # NoOne \/ e \in gone
    BY <1>10 DEF SweepReclaim
  <2> QED BY <1>1, <2>1, <2>2, NothingDropped
<1> QED BY <1>3, <1>4, <1>5, <1>6, <1>7, <1>8, <1>9, <1>10, NextCases

\* Nothing was delivered at the start.
LEMMA InitDelivery == Init => SilenceIsWork /\ SweepsTakeTheDead /\ NothingLost
<1> SUFFICES ASSUME Init PROVE SilenceIsWork /\ SweepsTakeTheDead /\ NothingLost
  OBVIOUS
<1>1. SilenceIsWork
  BY BatchAssumption DEF Init, SilenceIsWork
<1>2. SweepsTakeTheDead
  BY DEF Init, SweepsTakeTheDead
<1>3. NothingLost
  BY DEF Init, NothingLost
<1> QED BY <1>1, <1>2, <1>3

\* The delivery invariant, for a death threshold that covers a batch: a live process is
\* never silent for longer than its handlers have run, so the sweep lists only the dead,
\* and deletes a name only when it owns nothing.
THEOREM DeliveryInvariant ==
  ASSUME ThresholdCoversABatch
  PROVE  SafeSpec => []DeliveryInv
<1>1. DeliveryInv <=> ConsumerInv /\ SilenceIsWork /\ SweepsTakeTheDead /\ NothingLost
  BY DEF DeliveryInv
<1>2. Init => SilenceIsWork /\ SweepsTakeTheDead /\ NothingLost
  BY InitDelivery
<1>3. TypeOK /\ SilenceIsWork /\ SweepsTakeTheDead /\ NothingLost /\ [Next]_vars
        => SilenceIsWork' /\ SweepsTakeTheDead' /\ NothingLost'
  BY NextSilence, NextSweeps, NextKeepsEntries
<1> QED BY <1>1, <1>2, <1>3, ConsumerTypes, ConsumerInvariant, PTL DEF SafeSpec

\* No entry becomes unreachable: with a threshold that covers a batch, every entry the
\* group's cursor has passed is pending with somebody, acknowledged, dead-lettered or cut
\* from the stream, whatever crash, drain, failed sweep or late deregistration intervenes.
THEOREM NoEntryIsLost ==
  ASSUME ThresholdCoversABatch
  PROVE  SafeSpec => []NothingLost
<1>1. DeliveryInv => NothingLost
  BY DEF DeliveryInv
<1> QED BY <1>1, DeliveryInvariant, PTL

=============================================================================
