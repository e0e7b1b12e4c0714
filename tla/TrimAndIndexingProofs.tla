----------------------- MODULE TrimAndIndexingProofs ------------------------
(***************************************************************************)
(* StreamTrim, for every number of groups and entries, every margin and    *)
(* every clock: the trimmer never removes an entry a consumer group still  *)
(* needs.                                                                  *)
(*                                                                         *)
(* DocumentIndexing, for every number of files, documents, batches,        *)
(* workers and requests: a document's status is announced, an indexed      *)
(* document has its rows and all its points, and no point outlives the     *)
(* rows that would find it. IndexingInv adds that what a delivery has sent *)
(* is kept until somebody takes it (UpsertsAreKept) and that rows go after *)
(* their points (RowsGoLast). A step of a delivery changes its own place   *)
(* only (DeliveryMoves), so does a step of a request (RequestMoves), and   *)
(* the writes of the stores are taken one by one.                          *)
(*                                                                         *)
(* The two parts share no state.                                           *)
(***************************************************************************)
EXTENDS StreamTrim, DocumentIndexing, WellFoundedInduction, TLAPS

-----------------------------------------------------------------------------
(* StreamTrim.                                                             *)

USE DEF Entry

\* Before anything happened nothing is pending, cut or known.
LEMMA InitTrimInv == Init => TrimInv
BY TrimAssumption
   DEF Init, TrimInv, TypeOK, StreamOrder, SnapshotIsLow, CutIsOld,
       TrimKeepsMargin, Unfinished


\* One action at a time: none breaks the invariant.
LEMMA NextTrimInv == TrimInv /\ [Next]_vars => TrimInv'
<1> SUFFICES ASSUME TrimInv, [Next]_vars PROVE TrimInv'
  OBVIOUS
<1> USE TrimAssumption
<1>1. CASE UNCHANGED vars
  BY <1>1 DEF TrimInv, TypeOK, StreamOrder, SnapshotIsLow, CutIsOld,
     TrimKeepsMargin, Unfinished, vars, streamVars, groupVars, passVars
<1>2. CASE Clock
  BY <1>2 DEF TrimInv, TypeOK, StreamOrder, SnapshotIsLow, CutIsOld,
     TrimKeepsMargin, Unfinished, Clock, groupVars, passVars
<1>3. ASSUME NEW keep \in 1..(MaxEntries + 1), Publish(keep) PROVE TrimInv'
  <2>1. /\ added \in 0..MaxEntries /\ added' = added + 1
        /\ added + 1 \in 1..MaxEntries
        /\ ms' = [ms EXCEPT ![added + 1] = now]
        /\ present' \subseteq present \cup {added + 1}
        /\ cutByMaxLen' \subseteq cutByMaxLen \cup present \cup {added + 1}
        /\ UNCHANGED <<now, cutByTrim, groups, cursor, pending>>
        /\ UNCHANGED <<pc, snapHead, snapGroups, toAsk, needs>>
    BY <1>3 DEF TrimInv, TypeOK, Publish, groupVars, passVars
  <2>2. TypeOK'
    <3>1. ms' \in [Entry -> 0..MaxMs]
      BY <2>1 DEF TrimInv, TypeOK
    <3> QED BY <2>1, <3>1 DEF TrimInv, TypeOK
  <2>3. ms'[added + 1] = now /\ \A e \in 1..added : ms'[e] = ms[e]
    BY <2>1 DEF TrimInv, TypeOK
  <2>4. StreamOrder'
    <3>1. \A e, f \in 1..added' : e <= f => ms'[e] <= ms'[f]
      BY <2>1, <2>3 DEF TrimInv, TypeOK, StreamOrder
    <3> QED BY <2>1, <2>3, <3>1 DEF TrimInv, TypeOK, StreamOrder
  <2>5. SnapshotIsLow' /\ (pc = "trim" => toAsk = {})'
    BY <2>1 DEF TrimInv, TypeOK, SnapshotIsLow
  <2>6. CutIsOld'
    BY <2>1, <2>3 DEF TrimInv, TypeOK, CutIsOld
  <2>7. TrimKeepsMargin'
    <3> SUFFICES ASSUME NEW g \in groups, NEW e \in Unfinished(g)',
                        NEW f \in cutByTrim
                 PROVE  ms'[f] + Margin < ms'[e]
      BY <2>1 DEF TrimKeepsMargin
    <3>1. f \in 1..added /\ ms[f] + Margin < now /\ ms'[f] = ms[f]
      BY <2>3 DEF TrimInv, CutIsOld
    <3>2. CASE e = added + 1
      BY <3>1, <3>2, <2>3
    <3>3. CASE e # added + 1
      <4>1. e \in Unfinished(g) /\ e \in 1..added
        BY <2>1, <3>3 DEF TrimInv, TypeOK, StreamOrder, Unfinished
      <4> QED BY <3>1, <4>1, <2>3 DEF TrimInv, TrimKeepsMargin
    <3> QED BY <3>2, <3>3
  <2> QED BY <2>2, <2>4, <2>5, <2>6, <2>7 DEF TrimInv
<1>4. ASSUME NEW g \in Group, EnsureGroup(g) PROVE TrimInv'
  <2> USE <1>4 DEF EnsureGroup, streamVars, passVars
  <2>1. TypeOK'
    BY DEF TrimInv, TypeOK
  <2>2. StreamOrder'
    BY DEF TrimInv, TypeOK, StreamOrder
  <2>3. SnapshotIsLow' /\ (pc = "trim" => toAsk = {})'
    BY DEF TrimInv, TypeOK, SnapshotIsLow
  <2>4. CutIsOld'
    BY DEF TrimInv, CutIsOld
  <2>5. Unfinished(g)' = {}
    BY DEF TrimInv, TypeOK, Unfinished
  <2>6. \A h \in groups : Unfinished(h)' = Unfinished(h)
    BY DEF TrimInv, TypeOK, Unfinished
  <2>7. TrimKeepsMargin'
    BY <2>5, <2>6 DEF TrimInv, TrimKeepsMargin
  <2> QED BY <2>1, <2>2, <2>3, <2>4, <2>7 DEF TrimInv
<1>5. ASSUME NEW g \in Group, DestroyGroup(g) PROVE TrimInv'
  BY <1>5 DEF TrimInv, TypeOK, StreamOrder, SnapshotIsLow, CutIsOld,
     TrimKeepsMargin, Unfinished, DestroyGroup, streamVars, passVars
<1>6. ASSUME NEW g \in Group, NEW low \in 0..MaxEntries, AskPending(g, low)
      PROVE  TrimInv'
  <2> USE <1>6 DEF AskPending, streamVars, groupVars
  <2>1. TypeOK' /\ StreamOrder' /\ CutIsOld' /\ (pc = "trim" => toAsk = {})'
    BY DEF TrimInv, TypeOK, StreamOrder, CutIsOld
  <2>2. low <= needs[g] /\ (g \in groups => \A e \in pending[g] : low <= e)
    BY DEF NeedsFrom
  <2>3. \A h \in Group : needs'[h] = IF h = g THEN low ELSE needs[h]
    BY DEF TrimInv, TypeOK
  <2>4. SnapshotIsLow'
    <3> HIDE DEF AskPending
    <3>1. /\ UNCHANGED <<added, groups, cursor, pending, pc, snapHead, snapGroups>>
          /\ toAsk' = toAsk \ {g} /\ pc = "pending" /\ g \in snapGroups
      BY DEF AskPending, TrimInv, SnapshotIsLow
    <3>2. \A h \in Group : needs'[h] <= snapHead
      <4>1. \A h \in Group : needs[h] <= snapHead /\ needs[h] \in Nat
        BY <3>1 DEF TrimInv, TypeOK, SnapshotIsLow
      <4>2. snapHead \in Nat
        BY DEF TrimInv, TypeOK
      <4> QED BY <2>2, <2>3, <4>1, <4>2
    <3>3. ASSUME NEW h \in groups \cap snapGroups
          PROVE  needs'[h] <= cursor[h] /\
                 (h \notin toAsk' => \A e \in pending[h] : needs'[h] <= e)
      <4>1. CASE h = g
        BY <2>2, <2>3, <3>1, <4>1 DEF TrimInv, TypeOK, SnapshotIsLow
      <4>2. CASE h # g
        BY <2>3, <3>1, <4>2 DEF TrimInv, TypeOK, SnapshotIsLow
      <4> QED BY <4>1, <4>2
    <3> QED BY <3>1, <3>2, <3>3 DEF TrimInv, TypeOK, SnapshotIsLow
  <2>5. TrimKeepsMargin'
    BY DEF TrimInv, TrimKeepsMargin, Unfinished
  <2> QED BY <2>1, <2>4, <2>5 DEF TrimInv
<1>7. ASSUME NEW g \in Group, NEW e \in Entry, Deliver(g, e) PROVE TrimInv'
  <2> USE <1>7 DEF Deliver, streamVars, passVars
  <2>1. TypeOK' /\ CutIsOld' /\ (pc = "trim" => toAsk = {})'
    <3>1. e \in 0..MaxEntries /\ pending[g] \cup {e} \in SUBSET Entry
      BY TrimAssumption DEF TrimInv, TypeOK, Entry
    <3>2. cursor' \in [Group -> 0..MaxEntries]
      BY <3>1 DEF TrimInv, TypeOK
    <3>3. pending' \in [Group -> SUBSET Entry]
      BY <3>1 DEF TrimInv, TypeOK
    <3> QED BY <3>2, <3>3 DEF TrimInv, TypeOK, CutIsOld
  <2>2. e \in 1..added
    BY DEF TrimInv, StreamOrder
  <2>3. /\ \A h \in Group : cursor'[h] = IF h = g THEN e ELSE cursor[h]
        /\ \A h \in Group : pending'[h] = IF h = g THEN pending[g] \cup {e}
                                          ELSE pending[h]
    BY DEF TrimInv, TypeOK
  <2>4. StreamOrder'
    <3> HIDE DEF Deliver
    <3>0. UNCHANGED <<now, added, ms, present, groups>> /\ cursor[g] < e
      BY DEF Deliver
    <3>1. \A h \in Group : cursor'[h] <= added
      BY <2>2, <2>3 DEF TrimInv, StreamOrder
    <3>2. \A h \in groups : pending'[h] \subseteq 1..cursor'[h]
      <4>1. \A h \in groups : h \in Group /\ pending[h] \subseteq 1..cursor[h]
        BY DEF TrimInv, TypeOK, StreamOrder
      <4>2. cursor[g] \in Nat /\ e \in Nat \ {0}
        BY <2>2 DEF TrimInv, TypeOK
      <4> QED BY <2>3, <3>0, <4>1, <4>2
    <3> QED BY <3>0, <3>1, <3>2 DEF TrimInv, StreamOrder
  <2>5. SnapshotIsLow'
    BY <2>2, <2>3 DEF TrimInv, TypeOK, SnapshotIsLow
  <2>6. \A h \in groups : Unfinished(h)' \subseteq Unfinished(h)
    BY <2>2, <2>3 DEF TrimInv, TypeOK, Unfinished
  <2>7. TrimKeepsMargin'
    BY <2>6 DEF TrimInv, TrimKeepsMargin
  <2> QED BY <2>1, <2>4, <2>5, <2>7 DEF TrimInv
<1>8. ASSUME NEW g \in Group, NEW e \in Entry, Ack(g, e) PROVE TrimInv'
  BY <1>8 DEF TrimInv, TypeOK, StreamOrder, SnapshotIsLow, CutIsOld,
     TrimKeepsMargin, Unfinished, Ack, streamVars, passVars
<1>9. CASE Snapshot
  BY <1>9 DEF TrimInv, TypeOK, StreamOrder, SnapshotIsLow, CutIsOld,
     TrimKeepsMargin, Unfinished, Snapshot, streamVars, groupVars
<1>10. CASE Decide \/ PassFails
  BY <1>10 DEF TrimInv, TypeOK, StreamOrder, SnapshotIsLow, CutIsOld,
     TrimKeepsMargin, Unfinished, Decide, PassFails, streamVars, groupVars
<1>11. ASSUME NEW last \in 0..MaxEntries, Trim(last) PROVE TrimInv'
  <2> DEFINE cut == {e \in present : BelowCut(e) /\ e <= last}
  <2>1. TypeOK' /\ StreamOrder' /\ SnapshotIsLow' /\ (pc = "trim" => toAsk = {})'
    BY <1>11 DEF TrimInv, TypeOK, StreamOrder, SnapshotIsLow, Trim, groupVars
  <2>2. \A f \in cut : f \in 1..added /\ ms[f] + Margin < ms[snapHead]
    BY <1>11 DEF TrimInv, TypeOK, StreamOrder, SnapshotIsLow, Trim, BelowCut,
       MsOf
  <2>3. CutIsOld'
    BY <1>11, <2>2 DEF TrimInv, TypeOK, StreamOrder, SnapshotIsLow, Trim,
       CutIsOld, groupVars
  \* Everything a group has not finished is at or above what the pass knows.
  <2>4. ASSUME NEW g \in groups, NEW e \in Unfinished(g), NEW f \in cut
        PROVE  ms[f] + Margin < ms[e]
    <3>1. CASE g \in snapGroups
      <4>1. needs[g] <= e /\ e \in 1..added /\ needs[g] \in 0..added
        <5>1. /\ needs[g] <= cursor[g] /\ cursor[g] \in 0..added
              /\ \A x \in pending[g] : needs[g] <= x /\ x \in 1..added
          <6>1. pc = "trim" /\ toAsk = {}
            BY <1>11 DEF TrimInv, Trim
          <6>2. /\ g \in Group /\ cursor[g] \in 0..MaxEntries
                /\ added \in 0..MaxEntries /\ cursor[g] <= added
                /\ pending[g] \subseteq 1..cursor[g]
            BY DEF TrimInv, TypeOK, StreamOrder
          <6>3. /\ needs[g] <= cursor[g]
                /\ \A x \in pending[g] : needs[g] <= x
            BY <3>1, <6>1 DEF TrimInv, SnapshotIsLow
          <6> QED BY <6>2, <6>3
        <5>2. needs[g] \in 0..MaxEntries /\ added \in 0..MaxEntries
          BY DEF TrimInv, TypeOK
        <5> QED BY <5>1, <5>2 DEF Unfinished
      <4>2. ms[f] + Margin < MsOf(needs[g])
        <5>1. ms[f] < MsOf(needs[g]) - Margin
          BY <3>1 DEF BelowCut
        <5>2. ms[f] \in Int /\ MsOf(needs[g]) \in Int
          BY <2>2, <4>1 DEF TrimInv, TypeOK, MsOf
        <5> QED BY <5>1, <5>2
      <4>3. needs[g] # 0 => MsOf(needs[g]) <= ms[e]
        BY <4>1 DEF TrimInv, TypeOK, StreamOrder, MsOf
      <4>4. ms[f] \in Nat /\ ms[e] \in Nat /\ Margin \in Nat
        BY <2>2, <4>1, TrimAssumption DEF TrimInv, TypeOK
      <4>5. needs[g] = 0 => MsOf(needs[g]) = 0
        BY DEF MsOf
      <4>6. needs[g] # 0 => MsOf(needs[g]) \in Nat
        BY <4>1 DEF TrimInv, TypeOK, MsOf
      <4> QED BY <4>2, <4>3, <4>4, <4>5, <4>6
    <3>2. CASE g \notin snapGroups
      <4>1. snapHead <= e /\ e \in 1..added /\ snapHead \in 1..added
        BY <1>11, <3>2 DEF TrimInv, TypeOK, StreamOrder, SnapshotIsLow, Trim,
           Unfinished
      <4>2. ms[snapHead] <= ms[e]
        BY <4>1 DEF TrimInv, StreamOrder
      <4>3. ms[f] \in Nat /\ ms[snapHead] \in Nat /\ ms[e] \in Nat /\ Margin \in Nat
        BY <2>2, <4>1, TrimAssumption DEF TrimInv, TypeOK
      <4>4. ms[f] + Margin < ms[snapHead]
        BY <2>2
      <4> QED BY <4>2, <4>3, <4>4
    <3> QED BY <3>1, <3>2
  <2>5. TrimKeepsMargin'
    BY <1>11, <2>4 DEF TrimInv, TrimKeepsMargin, Unfinished, Trim, groupVars
  <2> QED BY <2>1, <2>3, <2>5 DEF TrimInv
<1> QED
  BY <1>1, <1>2, <1>3, <1>4, <1>5, <1>6, <1>7, <1>8, <1>9, <1>10, <1>11
     DEF Next

\* The trim rule keeps its margin to every entry a group has not finished.
THEOREM TrimMargin == Spec => []TrimKeepsMargin
<1>1. TrimInv => TrimKeepsMargin
  BY DEF TrimInv
<1> QED
  BY InitTrimInv, NextTrimInv, <1>1, PTL DEF Spec

\* No pass of the trimmer removes an entry that some consumer group has still
\* to read or to finish, however the pass interleaves with the readers.
THEOREM TrimSafety == Spec => []TrimSparesUnfinished
<1>1. TrimInv => TrimSparesUnfinished
  <2> SUFFICES ASSUME TrimInv, NEW g \in groups,
                      NEW e \in Unfinished(g) \cap cutByTrim
               PROVE  FALSE
    BY DEF TrimSparesUnfinished
  <2>1. ms[e] + Margin < ms[e]
    BY DEF TrimInv, TrimKeepsMargin
  <2>2. ms[e] \in Int
    <3>1. e \in Entry /\ ms \in [Entry -> 0..MaxMs]
      BY DEF TrimInv, TypeOK
    <3> QED BY <3>1, TrimAssumption
  <2> QED BY <2>1, <2>2, TrimAssumption
<1> QED
  BY InitTrimInv, NextTrimInv, <1>1, PTL DEF Spec

\* Every variable of the trimmer keeps its type.
THEOREM TrimTypes == Spec => []TypeOK
<1>1. TrimInv => TypeOK
  BY DEF TrimInv
<1> QED
  BY InitTrimInv, NextTrimInv, <1>1, PTL DEF Spec

-----------------------------------------------------------------------------
(* DocumentIndexing.                                                       *)

\* A new document is the least number that was never used.
LEMMA NextIdIsUnborn ==
  ASSUME Unborn # {}
  PROVE  NextId \in Doc /\ status[NextId] = "unborn"
<1> DEFINE R == OpToRel(<, Nat)
<1>1. IsWellFoundedOn(R, Nat)
  BY NatLessThanWellFounded
<1>2. \A x, y \in Nat : x < y => <<x, y>> \in R
  BY DEF OpToRel
<1>3. Unborn \subseteq Nat
  BY IndexingAssumption DEF Unborn, Doc
<1> HIDE DEF R
<1>4. PICK x \in Unborn : \A y \in Unborn : ~(<<y, x>> \in R)
  BY <1>1, <1>3, WFMin
<1>5. \A y \in Unborn : ~(y < x)
  BY <1>2, <1>3, <1>4
<1>6. \A y \in Unborn : x <= y
  BY <1>3, <1>5
<1>7. NextId \in Unborn
  BY <1>4, <1>6 DEF NextId
<1> QED BY <1>7 DEF Unborn

\* A delivery moves alone.
LEMMA OneDelivery ==
  ASSUME ActorTypes, NEW w \in Worker, NEW step \in Delivery, Do(w, step)
  PROVE  work' \in [Worker -> Delivery]
         /\ \A v \in Worker : work'[v] = IF v = w THEN step ELSE work[v]
BY DEF ActorTypes, Do

\* A request moves alone.
LEMMA OneRequest ==
  ASSUME ActorTypes, NEW q \in Request, NEW step \in Asked, Ask(q, step)
  PROVE  req' \in [Request -> Asked]
         /\ \A p \in Request : req'[p] = IF p = q THEN step ELSE req[p]
BY DEF ActorTypes, Ask

\* The worker at rest, and a quiet request.
LEMMA AtRest ==
  /\ Resting \in Delivery /\ Resting.at = "idle" /\ Resting.done = 0
  /\ Quiet \in Asked /\ Quiet.at = "idle"
BY IndexingAssumption DEF Resting, Delivery, Quiet, Asked

\* Steps of a request that write nothing but where it stands.
LEMMA RequestMoves ==
  ASSUME IndexingInv, NEW q \in Request, NEW step \in Asked, Ask(q, step),
         UNCHANGED <<fileOf, stores, work, history>>, readable' \subseteq readable,
         step.at \in {"vectors", "cancel"} => step.doc \in Doc,
         step.at \in {"add", "points"} => step.file \in File,
         step.at = "points" => step.file \notin readable',
         step.at \notin {"commit", "rows"}
  PROVE  IndexingInv'
<1>1. /\ req' \in [Request -> Asked]
      /\ \A p \in Request : req'[p] = IF p = q THEN step ELSE req[p]
  BY OneRequest DEF IndexingInv
<1>2. StoreTypes' /\ StatusIsAnnounced' /\ IndexedIsSearchable' /\ PointsAreFindable'
      /\ TouchedAreEmpty'
  BY DEF IndexingInv, StoreTypes, StatusIsAnnounced, IndexedIsSearchable, PointsAreFindable,
         TouchedAreEmpty, Vouched, stores, history
<1>3. ActorTypes' /\ UpsertsAreKept'
  BY <1>1 DEF IndexingInv, ActorTypes, UpsertsAreKept, At, DocOf, stores, history
<1>4. RowsGoLast'
  <2>1. Vouched' = Vouched /\ touched' = touched /\ \A f : DocsOf(f)' = DocsOf(f)
    BY DEF Vouched, DocsOf, Rows, stores, history
  <2> QED BY <1>1, <2>1 DEF IndexingInv, RowsGoLast
<1> QED BY <1>2, <1>3, <1>4 DEF IndexingInv

\* Where a delivery may stand, by what it has done.
Stands(step) ==
  /\ step.at # "idle" => step.entry \in DocEntry
  /\ step.at \in {"run", "fail", "claim"} => step.done = 0
  /\ step.at = "upsert" => step.done < Batches /\ step.done <= points[step.entry[1]]
  /\ step.at = "finalize" => step.outcome = "failed"

\* Steps of a delivery that write nothing but where it stands.
LEMMA DeliveryMoves ==
  ASSUME IndexingInv, NEW w \in Worker, NEW step \in Delivery, Do(w, step), Stands(step),
         UNCHANGED <<readable, fileOf, stores, req, history>>
  PROVE  IndexingInv'
<1>1. /\ work' \in [Worker -> Delivery]
      /\ \A v \in Worker : work'[v] = IF v = w THEN step ELSE work[v]
  BY OneDelivery DEF IndexingInv
<1>2. StoreTypes' /\ StatusIsAnnounced' /\ IndexedIsSearchable' /\ PointsAreFindable'
      /\ TouchedAreEmpty' /\ RowsGoLast'
  BY DEF IndexingInv, StoreTypes, StatusIsAnnounced, IndexedIsSearchable, PointsAreFindable,
         TouchedAreEmpty, RowsGoLast, Vouched, DocsOf, Rows, stores, history
<1>3. ActorTypes' /\ UpsertsAreKept'
  BY <1>1 DEF IndexingInv, ActorTypes, UpsertsAreKept, Stands, At, DocOf, Terminal, stores,
              history
<1> QED BY <1>2, <1>3 DEF IndexingInv

-----------------------------------------------------------------------------
(* The requests.                                                           *)

\* A request reads, gives up, or marks its file as deleted.
LEMMA RequestsRead ==
  ASSUME IndexingInv, NEW q \in Request,
         GivesUp(q) \/ IndexCheck(q) \/ ReindexRead(q) \/ CancelRead(q) \/ MarkFile(q)
  PROVE  IndexingInv'
<1>1. CASE GivesUp(q)
  BY <1>1, AtRest, RequestMoves DEF GivesUp
<1>2. CASE IndexCheck(q)
  <2>1. PICK f \in readable : Ask(q, [Quiet EXCEPT !.at = "add", !.file = f])
    BY <1>2 DEF IndexCheck
  <2> DEFINE step == [Quiet EXCEPT !.at = "add", !.file = f]
  <2>2. step \in Asked /\ step.at = "add" /\ step.file \in File
    BY AtRest, IndexingAssumption DEF Asked, IndexingInv, StoreTypes
  <2> HIDE DEF step
  <2> QED BY <1>2, <2>1, <2>2, RequestMoves DEF IndexCheck, step
<1>3. CASE ReindexRead(q)
  <2>1. PICK d \in Rows : Ask(q, [Quiet EXCEPT !.at = "vectors", !.doc = d])
    BY <1>3 DEF ReindexRead
  <2> DEFINE step == [Quiet EXCEPT !.at = "vectors", !.doc = d]
  <2>2. step \in Asked /\ step.at = "vectors" /\ step.doc \in Doc
    <3>1. d \in Doc /\ d \in 0..N
      BY IndexingAssumption DEF Rows, Doc
    <3> QED BY <3>1, AtRest DEF Asked
  <2> HIDE DEF step
  <2> QED BY <1>3, <2>1, <2>2, RequestMoves DEF ReindexRead, step
<1>4. CASE CancelRead(q)
  <2>1. PICK d \in Rows : Ask(q, [Quiet EXCEPT !.at = "cancel", !.doc = d,
                                               !.claimed = status[d] = "pending"])
    BY <1>4 DEF CancelRead
  <2> DEFINE step == [Quiet EXCEPT !.at = "cancel", !.doc = d,
                                   !.claimed = status[d] = "pending"]
  <2>2. step \in Asked /\ step.at = "cancel" /\ step.doc \in Doc
    <3>1. d \in Doc /\ d \in 0..N /\ (status[d] = "pending") \in BOOLEAN
      BY IndexingAssumption DEF Rows, Doc
    <3> QED BY <3>1, AtRest DEF Asked
  <2> HIDE DEF step
  <2> QED BY <1>4, <2>1, <2>2, RequestMoves DEF CancelRead, step
<1>5. CASE MarkFile(q)
  <2>1. PICK f \in File : /\ readable' = readable \ {f}
                          /\ Ask(q, [Quiet EXCEPT !.at = "points", !.file = f])
    BY <1>5 DEF MarkFile
  <2> DEFINE step == [Quiet EXCEPT !.at = "points", !.file = f]
  <2>2. step \in Asked /\ step.at = "points" /\ step.file = f
    BY AtRest, IndexingAssumption DEF Asked
  <2> HIDE DEF step
  <2> QED BY <1>5, <2>1, <2>2, RequestMoves DEF MarkFile, step
<1> QED BY <1>1, <1>2, <1>3, <1>4, <1>5

\* A document is registered: nothing is announced of it, and it is nobody's yet.
LEMMA IndexAddKeeps ==
  ASSUME IndexingInv, NEW q \in Request, IndexAdd(q)
  PROVE  IndexingInv'
<1>1. /\ req' \in [Request -> Asked]
      /\ \A p \in Request : req'[p] = IF p = q THEN Quiet ELSE req[p]
  BY AtRest, OneRequest DEF IndexingInv, IndexAdd
<1>2. NextId \in Doc /\ status[NextId] = "unborn" /\ req[q].file \in File
  BY NextIdIsUnborn DEF IndexAdd, IndexingInv, ActorTypes
<1>3. StoreTypes'
  BY <1>2 DEF IndexAdd, Registered, IndexingInv, StoreTypes
<1>4. ActorTypes' /\ UpsertsAreKept'
  BY <1>1, AtRest DEF IndexAdd, IndexingInv, ActorTypes, UpsertsAreKept, At, DocOf, history
<1>5. StatusIsAnnounced' /\ IndexedIsSearchable'
  BY <1>2 DEF IndexAdd, Registered, IndexingInv, StatusIsAnnounced, IndexedIsSearchable,
              StoreTypes, Terminal, history
<1>6. PointsAreFindable' /\ TouchedAreEmpty'
  BY <1>2 DEF IndexAdd, Registered, IndexingInv, StoreTypes, PointsAreFindable,
              TouchedAreEmpty, Vouched, history
<1>7. RowsGoLast'
  BY <1>1, <1>2, AtRest DEF IndexAdd, Registered, IndexingInv, StoreTypes, RowsGoLast,
              Vouched, DocsOf, Rows, history
<1> QED BY <1>3, <1>4, <1>5, <1>6, <1>7 DEF IndexingInv

\* The points its chunk rows name are gone before a document counts as touched.
LEMMA ReindexVectorsKeeps ==
  ASSUME IndexingInv, NEW q \in Request, ReindexVectors(q)
  PROVE  IndexingInv'
<1> DEFINE step == [req[q] EXCEPT !.at = "commit"]
<1>1. step \in Asked /\ step.at = "commit" /\ step.doc = req[q].doc /\ req[q].doc \in Doc
  BY DEF IndexingInv, ActorTypes, Asked, ReindexVectors
<1>2. /\ req' \in [Request -> Asked]
      /\ \A p \in Request : req'[p] = IF p = q THEN step ELSE req[p]
  BY <1>1, OneRequest DEF IndexingInv, ReindexVectors
<1> HIDE DEF step
<1>3. StoreTypes'
  BY IndexingAssumption DEF ReindexVectors, DropPoints, IndexingInv, StoreTypes
<1>4. ActorTypes' /\ UpsertsAreKept'
  BY <1>1, <1>2 DEF ReindexVectors, DropPoints, IndexingInv, ActorTypes, UpsertsAreKept, At,
              DocOf, DocEntry
<1>5. StatusIsAnnounced' /\ IndexedIsSearchable'
  BY DEF ReindexVectors, DropPoints, IndexingInv, StatusIsAnnounced, IndexedIsSearchable
<1>6. PointsAreFindable' /\ TouchedAreEmpty'
  BY DEF ReindexVectors, DropPoints, IndexingInv, StoreTypes, PointsAreFindable,
         TouchedAreEmpty, Vouched
<1>7. RowsGoLast'
  BY <1>1, <1>2 DEF ReindexVectors, IndexingInv, RowsGoLast, Vouched, DocsOf, Rows
<1> QED BY <1>3, <1>4, <1>5, <1>6, <1>7 DEF IndexingInv

\* The document a re-index replaces was emptied.
LEMMA ReindexCommitKeeps ==
  ASSUME IndexingInv, NEW q \in Request, ReindexCommit(q)
  PROVE  IndexingInv'
<1>1. /\ req' \in [Request -> Asked]
      /\ \A p \in Request : req'[p] = IF p = q THEN Quiet ELSE req[p]
  BY AtRest, OneRequest DEF IndexingInv, ReindexCommit
<1>2. /\ NextId \in Doc /\ status[NextId] = "unborn"
      /\ req[q].doc \in Doc \cap touched
  BY NextIdIsUnborn DEF ReindexCommit, IndexingInv, ActorTypes, RowsGoLast
<1>3. StoreTypes'
  BY <1>2 DEF ReindexCommit, Registered, IndexingInv, StoreTypes
<1>4. ActorTypes' /\ UpsertsAreKept'
  BY <1>1, AtRest DEF ReindexCommit, IndexingInv, ActorTypes, UpsertsAreKept, At, DocOf,
              history
<1>5. StatusIsAnnounced' /\ IndexedIsSearchable'
  BY <1>2 DEF ReindexCommit, Registered, IndexingInv, StatusIsAnnounced,
              IndexedIsSearchable, StoreTypes, Terminal, history
<1>6. PointsAreFindable' /\ TouchedAreEmpty'
  BY <1>2 DEF ReindexCommit, Registered, IndexingInv, StoreTypes, PointsAreFindable,
              TouchedAreEmpty, Vouched, history
<1>7. RowsGoLast'
  <2>1. \A f : DocsOf(f)' \cap Vouched' \subseteq DocsOf(f) \cap Vouched
    BY <1>2 DEF ReindexCommit, Registered, IndexingInv, StoreTypes, Vouched, DocsOf, Rows,
                history
  <2> QED BY <1>1, <2>1, AtRest DEF ReindexCommit, IndexingInv, RowsGoLast, history
<1> QED BY <1>3, <1>4, <1>5, <1>6, <1>7 DEF IndexingInv

\* A cancellation writes the status and the event together, or neither.
LEMMA CancelWriteKeeps ==
  ASSUME IndexingInv, NEW q \in Request, CancelWrite(q)
  PROVE  IndexingInv'
<1>1. /\ req' \in [Request -> Asked]
      /\ \A p \in Request : req'[p] = IF p = q THEN Quiet ELSE req[p]
  BY AtRest, OneRequest DEF IndexingInv, CancelWrite
<1>2. StoreTypes'
  BY DEF CancelWrite, SetStatus, Announce, IndexingInv, StoreTypes
<1>3. ActorTypes' /\ UpsertsAreKept'
  BY <1>1, AtRest DEF CancelWrite, IndexingInv, ActorTypes, UpsertsAreKept, At, DocOf,
              history
<1>4. StatusIsAnnounced' /\ IndexedIsSearchable'
  BY DEF CancelWrite, SetStatus, Announce, IndexingInv, StatusIsAnnounced,
         IndexedIsSearchable, StoreTypes, Rows, Terminal, history
<1>5. Vouched' \subseteq Vouched /\ UNCHANGED <<points, chunks, touched>>
  BY DEF CancelWrite, Announce, IndexingInv, StoreTypes, Vouched, history
<1>6. PointsAreFindable' /\ TouchedAreEmpty'
  BY <1>5 DEF IndexingInv, PointsAreFindable, TouchedAreEmpty, Vouched
<1>7. RowsGoLast'
  <2>1. \A f : DocsOf(f)' = DocsOf(f)
    BY DEF CancelWrite, SetStatus, IndexingInv, StoreTypes, DocsOf, Rows
  <2> QED BY <1>1, <1>5, <2>1, AtRest DEF CancelWrite, IndexingInv, RowsGoLast
<1> QED BY <1>2, <1>3, <1>4, <1>6, <1>7 DEF IndexingInv

\* A deletion takes the points of every document its file has now.
LEMMA PurgePointsKeeps ==
  ASSUME IndexingInv, NEW q \in Request, PurgePoints(q)
  PROVE  IndexingInv'
<1> DEFINE step == [req[q] EXCEPT !.at = "rows"]
<1>1. step \in Asked /\ step.at = "rows" /\ step.file = req[q].file /\ req[q].file \in File
  BY DEF IndexingInv, ActorTypes, Asked, PurgePoints
<1>2. /\ req' \in [Request -> Asked]
      /\ \A p \in Request : req'[p] = IF p = q THEN step ELSE req[p]
  BY <1>1, OneRequest DEF IndexingInv, PurgePoints
<1> HIDE DEF step
<1>3. StoreTypes'
  BY IndexingAssumption DEF PurgePoints, DropPoints, IndexingInv, StoreTypes
<1>4. ActorTypes' /\ UpsertsAreKept'
  BY <1>1, <1>2 DEF PurgePoints, DropPoints, IndexingInv, ActorTypes, UpsertsAreKept, At,
              DocOf, DocEntry
<1>5. StatusIsAnnounced' /\ IndexedIsSearchable'
  BY DEF PurgePoints, DropPoints, IndexingInv, StatusIsAnnounced, IndexedIsSearchable
<1>6. PointsAreFindable' /\ TouchedAreEmpty'
  BY DEF PurgePoints, DropPoints, IndexingInv, StoreTypes, PointsAreFindable,
         TouchedAreEmpty, Vouched
<1>7. RowsGoLast'
  <2>1. Vouched' = Vouched /\ \A f : DocsOf(f)' = DocsOf(f)
    BY DEF PurgePoints, Vouched, DocsOf, Rows
  <2> QED BY <1>1, <1>2, <2>1 DEF PurgePoints, IndexingInv, RowsGoLast
<1> QED BY <1>3, <1>4, <1>5, <1>6, <1>7 DEF IndexingInv

\* By the time the rows of a file go, its documents that are vouched for have no points.
LEMMA PurgeRowsKeeps ==
  ASSUME IndexingInv, NEW q \in Request, PurgeRows(q)
  PROVE  IndexingInv'
<1>1. /\ req' \in [Request -> Asked]
      /\ \A p \in Request : req'[p] = IF p = q THEN Quiet ELSE req[p]
  BY AtRest, OneRequest DEF IndexingInv, PurgeRows
<1>2. StoreTypes'
  BY DEF PurgeRows, IndexingInv, StoreTypes
<1>3. ActorTypes' /\ UpsertsAreKept'
  BY <1>1, AtRest DEF PurgeRows, IndexingInv, ActorTypes, UpsertsAreKept, At, DocOf
<1>4. StatusIsAnnounced' /\ IndexedIsSearchable'
  BY DEF PurgeRows, IndexingInv, StatusIsAnnounced, IndexedIsSearchable, StoreTypes,
         Terminal
<1>5. Vouched' = Vouched /\ \A f : DocsOf(f)' \subseteq DocsOf(f)
  BY DEF PurgeRows, Vouched, DocsOf, Rows
<1>6. PointsAreFindable'
  <2>1. \A d \in DocsOf(req[q].file) \cap Vouched : points[d] = 0
    BY DEF PurgeRows, IndexingInv, RowsGoLast, TouchedAreEmpty
  <2>2. \A d \in Vouched : points[d] > 0 => d \in chunks
    BY DEF IndexingInv, PointsAreFindable, Vouched
  <2>3. \A d \in Vouched' : points'[d] > 0 => d \in chunks'
    BY <1>5, <2>1, <2>2 DEF PurgeRows
  <2> QED BY <2>3 DEF PointsAreFindable, Vouched
<1>7. TouchedAreEmpty' /\ RowsGoLast'
  BY <1>1, <1>5, AtRest DEF PurgeRows, IndexingInv, TouchedAreEmpty, RowsGoLast
<1> QED BY <1>2, <1>3, <1>4, <1>6, <1>7 DEF IndexingInv

-----------------------------------------------------------------------------
(* The deliveries.                                                         *)

\* A delivery that ends leaves its worker at rest, acknowledged or not.
LEMMA DeliveryEnds ==
  ASSUME IndexingInv, NEW w \in Worker, Acks(w) \/ Raises(w),
         UNCHANGED <<readable, fileOf, stores, req, history>>
  PROVE  IndexingInv'
<1>1. Do(w, Resting) /\ Stands(Resting)
  BY AtRest DEF Acks, Raises, Stands
<1> QED BY <1>1, AtRest, DeliveryMoves

\* A delivery begins, loads its document, fails in the pipeline, or its process dies.
LEMMA DeliveriesMove ==
  ASSUME IndexingInv, NEW w \in Worker,
         Resolve(w) \/ LoadDocument(w) \/ PipelineFails(w) \/ Crash(w)
  PROVE  IndexingInv'
<1>1. CASE Resolve(w)
  <2>1. PICK e \in DocEntry, next \in {"run", "fail"} :
          Do(w, [Resting EXCEPT !.at = next, !.entry = e])
    BY <1>1 DEF Resolve
  <2> DEFINE step == [Resting EXCEPT !.at = next, !.entry = e]
  <2>2. step \in Delivery /\ Stands(step)
    BY AtRest, IndexingAssumption DEF Delivery, Stands
  <2> HIDE DEF step
  <2> QED BY <1>1, <2>1, <2>2, DeliveryMoves DEF Resolve, step
<1>2. CASE LoadDocument(w)
  <2>1. CASE Raises(w) \/ Acks(w)
    BY <1>2, <2>1, DeliveryEnds DEF LoadDocument
  <2>2. CASE Do(w, IF At(w, "run") THEN [work[w] EXCEPT !.at = "claim"]
                   ELSE [work[w] EXCEPT !.at = "finalize", !.outcome = "failed"])
    <3> DEFINE step == IF At(w, "run") THEN [work[w] EXCEPT !.at = "claim"]
                       ELSE [work[w] EXCEPT !.at = "finalize", !.outcome = "failed"]
    <3>1. work[w] \in Delivery /\ work[w].entry \in DocEntry /\ work[w].done = 0
      BY <1>2 DEF LoadDocument, At, IndexingInv, ActorTypes, UpsertsAreKept
    <3>2. step \in Delivery /\ Stands(step)
      BY <3>1 DEF Delivery, Stands
    <3> HIDE DEF step
    <3> QED BY <1>2, <2>2, <3>2, DeliveryMoves DEF LoadDocument, step
  <2> QED BY <1>2, <2>1, <2>2 DEF LoadDocument
<1>3. CASE PipelineFails(w)
  <2> DEFINE step == [work[w] EXCEPT !.at = "finalize", !.outcome = "failed"]
  <2>1. work[w] \in Delivery /\ work[w].entry \in DocEntry
    BY <1>3 DEF PipelineFails, At, IndexingInv, ActorTypes
  <2>2. step \in Delivery /\ Stands(step)
    BY <2>1 DEF Delivery, Stands
  <2> HIDE DEF step
  <2> QED BY <1>3, <2>2, DeliveryMoves DEF PipelineFails, step
<1>4. CASE Crash(w)
  BY <1>4, DeliveryEnds DEF Crash
<1> QED BY <1>1, <1>2, <1>3, <1>4

\* The claim writes a status that is not announced.
LEMMA ClaimDocumentKeeps ==
  ASSUME IndexingInv, NEW w \in Worker, ClaimDocument(w)
  PROVE  IndexingInv'
<1> DEFINE step == [work[w] EXCEPT !.at = "upsert"]
<1>0. work[w] \in Delivery /\ work[w].entry \in DocEntry /\ work[w].done = 0
      /\ DocOf(w) \in Doc
  BY DEF ClaimDocument, At, IndexingInv, ActorTypes, UpsertsAreKept, DocOf, DocEntry
<1>1. /\ step \in Delivery /\ step.at = "upsert" /\ step.entry = work[w].entry
      /\ step.done = 0
  BY <1>0 DEF Delivery
<1>2. /\ work' \in [Worker -> Delivery]
      /\ \A v \in Worker : work'[v] = IF v = w THEN step ELSE work[v]
  BY <1>1, OneDelivery DEF IndexingInv, ClaimDocument
<1> HIDE DEF step
<1>3. StoreTypes' /\ StatusIsAnnounced' /\ IndexedIsSearchable'
  BY <1>0 DEF ClaimDocument, SetStatus, IndexingInv, StoreTypes, StatusIsAnnounced,
              IndexedIsSearchable, Terminal, history
<1>4. ActorTypes' /\ UpsertsAreKept'
  BY <1>0, <1>1, <1>2, IndexingAssumption DEF ClaimDocument, IndexingInv, StoreTypes,
              ActorTypes, UpsertsAreKept, At, DocOf, history
<1>5. PointsAreFindable' /\ TouchedAreEmpty'
  BY DEF ClaimDocument, IndexingInv, PointsAreFindable, TouchedAreEmpty, Vouched, history
<1>6. RowsGoLast'
  <2>1. Vouched' = Vouched /\ \A f : DocsOf(f)' = DocsOf(f)
    BY <1>0 DEF ClaimDocument, SetStatus, IndexingInv, StoreTypes, Vouched, DocsOf, Rows,
                history
  <2> QED BY <2>1 DEF ClaimDocument, IndexingInv, RowsGoLast, history
<1> QED BY <1>3, <1>4, <1>5, <1>6 DEF IndexingInv

\* A batch adds points; to a document that is settled or touched it does so late.
LEMMA UpsertBatchKeeps ==
  ASSUME IndexingInv, NEW w \in Worker, UpsertBatch(w)
  PROVE  IndexingInv'
<1> DEFINE d == DocOf(w)
           n == work[w].done + 1
           step == IF n < Batches THEN [work[w] EXCEPT !.done = n]
                   ELSE [work[w] EXCEPT !.at = "finalize", !.done = n, !.outcome = "indexed"]
<1>0. /\ work[w] \in Delivery /\ work[w].entry \in DocEntry /\ At(w, "upsert")
      /\ work[w].done \in Nat /\ n <= Batches /\ d \in Doc
      /\ d \notin touched => work[w].done <= points[d]
  BY IndexingAssumption DEF UpsertBatch, At, IndexingInv, ActorTypes, UpsertsAreKept, DocOf,
                            DocEntry, Delivery
<1>1. /\ step \in Delivery /\ step.entry = work[w].entry /\ step.done = n
      /\ step.at = IF n < Batches THEN "upsert" ELSE "finalize"
      /\ step.at = "finalize" => step.outcome = "indexed"
  <2>1. n \in 0..Batches
    BY <1>0, IndexingAssumption
  <2> HIDE DEF n
  <2> QED BY <1>0, <2>1 DEF Delivery, At
<1>2. /\ work' \in [Worker -> Delivery]
      /\ \A v \in Worker : work'[v] = IF v = w THEN step ELSE work[v]
  BY <1>1, OneDelivery DEF IndexingInv, UpsertBatch
<1> HIDE DEF step
<1>3. /\ points' \in [Doc -> 0..Batches]
      /\ \A e \in Doc : e # d => points'[e] = points[e]
      /\ points'[d] >= n /\ points'[d] >= points[d]
      /\ points[d] \in Nat /\ points'[d] \in Nat
  BY <1>0, IndexingAssumption DEF UpsertBatch, IndexingInv, StoreTypes
<1>4. /\ UNCHANGED <<readable, fileOf, status, chunks, told, ledger, req, touched>>
      /\ late \subseteq late' /\ (d \in ledger \cup touched => d \in late')
  BY DEF UpsertBatch, Late
<1> HIDE DEF d, n
<1>5. StoreTypes' /\ StatusIsAnnounced'
  BY <1>3, <1>4 DEF IndexingInv, StoreTypes, StatusIsAnnounced
<1>6. IndexedIsSearchable'
  BY <1>3, <1>4, IndexingAssumption DEF IndexingInv, StoreTypes, IndexedIsSearchable
<1>7. ActorTypes'
  BY <1>0, <1>1, <1>2, <1>4 DEF IndexingInv, ActorTypes, At
<1>8. UpsertsAreKept'
  <2> SUFFICES ASSUME NEW v \in Worker
               PROVE  /\ work'[v].at \in {"run", "fail", "claim"} => work'[v].done = 0
                      /\ work'[v].at = "upsert" => work'[v].done < Batches
                      /\ (work'[v].at = "upsert" /\ work'[v].entry[1] \notin touched)
                           => work'[v].done <= points'[work'[v].entry[1]]
                      /\ work'[v].at = "finalize" => work'[v].outcome \in Terminal
                      /\ (/\ work'[v].at = "finalize" /\ work'[v].outcome = "indexed"
                          /\ work'[v].entry[1] \notin touched)
                           => points'[work'[v].entry[1]] = Batches
    BY <1>4 DEF UpsertsAreKept, At, DocOf
  <2>1. CASE v = w
    BY <1>0, <1>1, <1>2, <1>3, <2>1, IndexingAssumption DEF d, n, DocOf, Terminal
  <2>2. CASE v # w
    <3>1. work'[v] = work[v] /\ work[v] \in Delivery
          /\ (work[v].at # "idle" => work[v].entry[1] \in Doc)
      BY <1>2, <2>2 DEF IndexingInv, ActorTypes, At, DocEntry
    <3>2. \A e \in Doc : points'[e] >= points[e] /\ points[e] \in 0..Batches
                         /\ points'[e] \in 0..Batches
      BY <1>3, IndexingAssumption DEF IndexingInv, StoreTypes
    <3>3. work[v].done \in Nat
      BY <3>1 DEF Delivery
    <3> QED BY <3>1, <3>2, <3>3, IndexingAssumption DEF IndexingInv, UpsertsAreKept, At, DocOf
  <2> QED BY <2>1, <2>2
<1>9. PointsAreFindable' /\ TouchedAreEmpty'
  BY <1>3, <1>4 DEF IndexingInv, StoreTypes, PointsAreFindable, TouchedAreEmpty, Vouched
<1>10. RowsGoLast'
  BY <1>4 DEF IndexingInv, RowsGoLast, Vouched, DocsOf, Rows
<1> QED BY <1>5, <1>6, <1>7, <1>8, <1>9, <1>10 DEF IndexingInv

\* The worker's one transaction.
LEMMA FinalizeKeeps ==
  ASSUME IndexingInv, NEW w \in Worker, Finalize(w)
  PROVE  IndexingInv'
<1> DEFINE d == DocOf(w)
           outcome == work[w].outcome
<1>0. /\ At(w, "finalize") /\ d \in Doc /\ outcome \in Terminal
      /\ outcome = "indexed" /\ d \notin touched => points[d] = Batches
  BY DEF Finalize, IndexingInv, ActorTypes, UpsertsAreKept, At, DocOf, DocEntry
<1>1. CASE UNCHANGED <<stores, late>> /\ (Acks(w) \/ Raises(w))
  BY <1>1, DeliveryEnds DEF Finalize, history
<1>2. CASE /\ ~ Claimed(d) /\ (d \in Rows \/ outcome = "failed")
           /\ ledger' = ledger \cup {d}
           /\ chunks' = NewChunks(d, outcome)
           /\ SetStatus(d, outcome) /\ Announce(d, outcome)
           /\ late' = Late(d)
           /\ Acks(w) /\ UNCHANGED points
  <2>1. /\ work' \in [Worker -> Delivery]
        /\ \A v \in Worker : work'[v] = IF v = w THEN Resting ELSE work[v]
    BY <1>2, AtRest, OneDelivery DEF IndexingInv, Acks
  <2>2. /\ UNCHANGED <<readable, fileOf, req, touched, points>>
        /\ late \subseteq late' /\ (d \in touched \/ fileOf[d] \notin readable => d \in late')
    BY <1>2 DEF Finalize, Late
  <2>3. /\ \A e \in Doc : e # d => status'[e] = status[e] /\ told'[e] = told[e]
        /\ status'[d] = (IF d \in Rows THEN outcome ELSE status[d]) /\ told'[d] = outcome
        /\ status' \in [Doc -> {"unborn", "pending", "indexing", "indexed", "failed", "gone"}]
        /\ told' \in [Doc -> {"nothing", "registered", "indexed", "failed"}]
    BY <1>0, <1>2 DEF SetStatus, Announce, IndexingInv, StoreTypes, Terminal
  <2>4. chunks' \subseteq Doc /\ chunks \subseteq chunks' /\ (outcome = "indexed" => d \in chunks')
    BY <1>0, <1>2 DEF NewChunks, IndexingInv, StoreTypes
  <2>5. StoreTypes'
    BY <1>0, <1>2, <2>2, <2>3, <2>4 DEF IndexingInv, StoreTypes
  <2> HIDE DEF d, outcome
  <2>6. StatusIsAnnounced'
    BY <1>0, <2>3 DEF IndexingInv, StatusIsAnnounced, Rows, Terminal
  <2>7. IndexedIsSearchable'
    BY <1>0, <1>2, <2>2, <2>3, <2>4 DEF IndexingInv, IndexedIsSearchable, Rows, Terminal
  <2>8. ActorTypes' /\ UpsertsAreKept'
    BY <2>1, <2>2, AtRest DEF IndexingInv, ActorTypes, UpsertsAreKept, At, DocOf
  <2>9. /\ Vouched' \subseteq Vouched \cup {d}
        /\ d \in Vouched' => outcome = "indexed" /\ d \notin touched /\ fileOf[d] \in readable
    BY <1>0, <1>2, <2>2, <2>3 DEF Vouched, IndexingInv, StoreTypes
  <2>10. PointsAreFindable'
    <3>1. \A e \in Vouched : points[e] > 0 => e \in chunks
      BY DEF IndexingInv, PointsAreFindable, Vouched
    <3>2. \A e \in Vouched' : points'[e] > 0 => e \in chunks'
      BY <2>2, <2>4, <2>9, <3>1
    <3> QED BY <3>2 DEF PointsAreFindable, Vouched
  <2>11. TouchedAreEmpty'
    BY <2>2, <2>9 DEF IndexingInv, TouchedAreEmpty
  <2>12. RowsGoLast'
    <3>1. \A f : DocsOf(f)' = DocsOf(f)
      BY <1>0, <2>2, <2>3 DEF DocsOf, Rows, Terminal
    <3>2. \A f : d \in DocsOf(f) => fileOf[d] = f
      BY DEF DocsOf
    <3> QED BY <2>2, <2>9, <3>1, <3>2 DEF IndexingInv, RowsGoLast
  <2> QED BY <2>5, <2>6, <2>7, <2>8, <2>10, <2>11, <2>12 DEF IndexingInv
<1> QED BY <1>1, <1>2 DEF Finalize

-----------------------------------------------------------------------------

\* IndexingInv is inductive: IndexFile, the worker, re-indexing, cancellation and
\* deletion, crashes and duplicated events, for any number of files, documents, workers
\* and requests.
THEOREM IndexingInvariant == IndexingSpec => []IndexingInv
<1>1. IndexingInit => IndexingInv
  <2> SUFFICES ASSUME IndexingInit PROVE IndexingInv
    OBVIOUS
  <2>1. StoreTypes /\ ActorTypes
    BY AtRest, IndexingAssumption DEF IndexingInit, StoreTypes, ActorTypes, At
  <2>2. UpsertsAreKept /\ TouchedAreEmpty /\ RowsGoLast
    BY AtRest DEF IndexingInit, UpsertsAreKept, TouchedAreEmpty, RowsGoLast, Vouched, At
  <2>3. StatusIsAnnounced /\ IndexedIsSearchable /\ PointsAreFindable
    BY DEF IndexingInit, StatusIsAnnounced, IndexedIsSearchable, PointsAreFindable, Terminal
  <2> QED BY <2>1, <2>2, <2>3 DEF IndexingInv
<1>2. IndexingInv /\ [IndexingNext]_indexingVars => IndexingInv'
  <2> SUFFICES ASSUME IndexingInv, [IndexingNext]_indexingVars PROVE IndexingInv'
    OBVIOUS
  <2>1. ASSUME NEW q \in Request,
               \/ GivesUp(q) \/ IndexCheck(q) \/ ReindexRead(q) \/ CancelRead(q)
               \/ MarkFile(q)
        PROVE  IndexingInv'
    BY <2>1, RequestsRead
  <2>2. ASSUME NEW q \in Request,
               \/ IndexAdd(q) \/ ReindexVectors(q) \/ ReindexCommit(q) \/ CancelWrite(q)
               \/ PurgePoints(q) \/ PurgeRows(q)
        PROVE  IndexingInv'
    BY <2>2, IndexAddKeeps, ReindexVectorsKeeps, ReindexCommitKeeps, CancelWriteKeeps,
       PurgePointsKeeps, PurgeRowsKeeps
  <2>3. ASSUME NEW w \in Worker,
               Resolve(w) \/ LoadDocument(w) \/ PipelineFails(w) \/ Crash(w)
        PROVE  IndexingInv'
    BY <2>3, DeliveriesMove
  <2>4. ASSUME NEW w \in Worker, ClaimDocument(w) \/ UpsertBatch(w) \/ Finalize(w)
        PROVE  IndexingInv'
    BY <2>4, ClaimDocumentKeeps, UpsertBatchKeeps, FinalizeKeeps
  <2>5. ASSUME UNCHANGED <<readable, fileOf, stores, work, req, history>>
        PROVE  IndexingInv'
    BY <2>5 DEF IndexingInv, StoreTypes, ActorTypes, UpsertsAreKept, TouchedAreEmpty,
                RowsGoLast, StatusIsAnnounced, IndexedIsSearchable, PointsAreFindable,
                Vouched, DocsOf, Rows, At, DocOf, stores, history
  <2>6. ASSUME NEW d \in Doc, Duplicate(d) PROVE IndexingInv'
    BY <2>5, <2>6 DEF Duplicate
  <2>7. CASE UNCHANGED indexingVars
    BY <2>5, <2>7 DEF indexingVars
  <2> QED BY <2>1, <2>2, <2>3, <2>4, <2>6, <2>7 DEF IndexingNext, WorkerStep
<1> QED BY <1>1, <1>2, PTL DEF IndexingSpec

\* A settled document's status is the event that was sent about it, whoever wrote first:
\* set_status and outbox.append are one transaction in finalize and in the cancellation.
THEOREM StatusIsAlwaysAnnounced == IndexingSpec => []StatusIsAnnounced
<1>1. IndexingInv => StatusIsAnnounced
  BY DEF IndexingInv
<1> QED BY <1>1, IndexingInvariant, PTL

\* A document that says indexed has all its points and its chunk rows, unless a re-index
\* or a deletion took them.
THEOREM IndexedIsAlwaysSearchable == IndexingSpec => []IndexedIsSearchable
<1>1. IndexingInv => IndexedIsSearchable
  BY DEF IndexingInv
<1> QED BY <1>1, IndexingInvariant, PTL

\* The points of an announced document are named by its chunk rows, so that a re-index
\* or a deletion that died half way can be repeated.
THEOREM PointsAreAlwaysFindable == IndexingSpec => []PointsAreFindable
<1>1. IndexingInv => PointsAreFindable
  BY DEF IndexingInv
<1> QED BY <1>1, IndexingInvariant, PTL
=============================================================================
