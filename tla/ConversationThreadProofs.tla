----------------------- MODULE ConversationThreadProofs -----------------------
(***************************************************************************)
(* Safety of a thread for any number of turns, edits, deliveries and       *)
(* faults.                                                                 *)
(***************************************************************************)
EXTENDS ConversationThread, FiniteSetTheorems, SequenceTheorems, TLAPS

\* COALESCE(MAX(seq), 0) of a gap-free transcript is its length.
LEMMA TopIsCount ==
  ASSUME IsFiniteSet(msgs), SeqsAreGapFree
  PROVE  TopSeq = Cardinality(msgs) /\ TopSeq \in Nat
<1> DEFINE n == Cardinality(msgs)
<1>1. n \in Nat
  BY FS_CardinalityType
<1>2. {m.seq : m \in msgs} = 1..n
  BY DEF SeqsAreGapFree
<1>3. n \in {0} \cup {m.seq : m \in msgs} /\ \A m \in msgs : m.seq <= n
  <2>1. \A m \in msgs : m.seq \in 1..n
    BY <1>2
  <2> QED BY <1>1, <1>2, <2>1
<1>4. ASSUME NEW k \in {0} \cup {m.seq : m \in msgs}, \A m \in msgs : m.seq <= k
      PROVE  k = n
  <2>1. k \in Nat /\ k <= n
    BY <1>1, <1>2
  <2>2. CASE n = 0
    BY <2>1, <2>2
  <2>3. CASE n # 0
    <3>1. n \in 1..n
      BY <1>1, <2>3
    <3>2. PICK m \in msgs : m.seq = n
      BY <1>2, <3>1
    <3> QED BY <2>1, <3>2, <1>1, <1>4
  <2> QED BY <2>2, <2>3
<1> HIDE DEF n
<1>5. TopSeq = n
  BY <1>3, <1>4 DEF TopSeq
<1> QED BY <1>1, <1>5 DEF n

\* append_message at the number that was next when the writer looked: if the
\* number is free nobody was faster, and the transcript grows by one.
LEMMA InsertAppends ==
  ASSUME IsFiniteSet(msgs), SeqsAreGapFree, ReadsAreOld, TypeOK,
         NEW a \in Actor, NEW what, stage[a] \in {"opening", "saving"},
         SeqFree(a), Insert(a, what)
  PROVE  /\ IsFiniteSet(msgs') /\ SeqsAreGapFree'
         /\ Cardinality(msgs') = Cardinality(msgs) + 1
         /\ Cardinality(msgs) \in Nat
<1> DEFINE n == Cardinality(msgs)
           c == seen[a].count
           new == [seq |-> c + 1, by |-> a, what |-> what]
<1>1. n \in Nat /\ c \in Nat /\ c <= n
  BY FS_CardinalityType DEF TypeOK, ReadsAreOld
<1>2. {m.seq : m \in msgs} = 1..n
  BY DEF SeqsAreGapFree
<1>3. \A m \in msgs : m.seq # c + 1
  BY DEF SeqFree
<1>4. c + 1 \notin 1..n
  BY <1>2, <1>3
<1>5. c = n
  BY <1>1, <1>4
<1>6. msgs' = msgs \cup {new} /\ new.seq = n + 1
  BY <1>5 DEF Insert
<1>7. new \notin msgs
  BY <1>3
<1>8. IsFiniteSet(msgs') /\ Cardinality(msgs') = n + 1
  BY <1>6, <1>7, FS_AddElement
<1>9. {m.seq : m \in msgs'} = 1..(n + 1)
  <2>1. {m.seq : m \in msgs'} = {m.seq : m \in msgs} \cup {n + 1}
    BY <1>6
  <2> QED BY <1>1, <1>2, <2>1
<1> QED BY <1>1, <1>8, <1>9 DEF SeqsAreGapFree

\* The empty thread satisfies the invariant.
LEMMA InitThreadInv == Init => ThreadInv
<1> SUFFICES ASSUME Init PROVE ThreadInv
  OBVIOUS
<1> USE ThreadAssumption DEF Init
<1>1. IsFiniteSet(msgs) /\ Cardinality(msgs) = 0
  BY FS_EmptySet
<1>2. TypeOK
  BY DEF TypeOK, Row, Task, Nothing, WritersHaveRead
<1>3. SeqsAreGapFree
  BY <1>1 DEF SeqsAreGapFree
<1>4. OneReplyPerTurn /\ NewsPostedOnce
  <2>1. \A t \in Turn : {m \in msgs : m.by = t /\ m.what = "reply"} = {}
    OBVIOUS
  <2>2. \A t \in News : {m \in msgs : m.by = t} = {}
    OBVIOUS
  <2> QED BY <2>1, <2>2, FS_EmptySet DEF OneReplyPerTurn, NewsPostedOnce
<1>5. ReadsAreOld /\ RepliesAreFirst /\ LedgerKnowsNews
  BY DEF ReadsAreOld, RepliesAreFirst, LedgerKnowsNews, Actor
<1> QED BY <1>1, <1>2, <1>3, <1>4, <1>5 DEF ThreadInv

\* A writer's read stays what WritersHaveRead and ReadsAreOld say of it: an
\* actor reads the thread as it is, forgets what it read, or had nothing to
\* forget, and a thread only moves on to a new version.
LEMMA ReadersStep ==
  ASSUME TypeOK, IsFiniteSet(msgs), SeqsAreGapFree, ReadsAreOld,
         NEW a \in Actor, NEW x, Goto(a, x),
         \/ Load(a) /\ x \in {"opening", "saving"} /\ UNCHANGED thread
         \/ Forget(a) /\ x \notin {"opening", "saving"}
         \/ UNCHANGED seen /\ {stage[a], x} \cap {"opening", "saving"} = {},
         version' \in Nat, version <= version',
         version' = version => row' = row,
         Cardinality(msgs') \in Nat, Cardinality(msgs) <= Cardinality(msgs')
  PROVE  /\ seen' \in [Actor -> [count : Nat, version : Nat, row : Row \cup {None}]]
         /\ WritersHaveRead' /\ ReadsAreOld'
<1>0. TopSeq = Cardinality(msgs) /\ TopSeq \in Nat
  BY TopIsCount
<1>1. stage' = [stage EXCEPT ![a] = x] /\ a \in DOMAIN stage /\ a \in DOMAIN seen
  BY DEF Goto, TypeOK
<1>2. CASE Load(a) /\ x \in {"opening", "saving"} /\ UNCHANGED thread
  <2>1. seen' = [seen EXCEPT ![a] = [count |-> TopSeq, version |-> version, row |-> row]]
        /\ UNCHANGED <<version, row, msgs>>
    BY <1>2 DEF Load, thread
  <2>2. seen' \in [Actor -> [count : Nat, version : Nat, row : Row \cup {None}]]
    BY <1>0, <2>1 DEF TypeOK
  <2>3. WritersHaveRead'
    BY <1>1, <1>2, <2>1 DEF WritersHaveRead, TypeOK
  <2>4. ReadsAreOld'
    BY <1>0, <1>1, <1>2, <2>1 DEF ReadsAreOld, TypeOK
  <2> QED BY <2>2, <2>3, <2>4
<1>3. CASE Forget(a) /\ x \notin {"opening", "saving"}
  <2>1. seen' = [seen EXCEPT ![a] = Nothing]
    BY <1>3 DEF Forget
  <2>2. seen' \in [Actor -> [count : Nat, version : Nat, row : Row \cup {None}]]
    BY <2>1 DEF TypeOK, Nothing
  <2>3. WritersHaveRead'
    BY <1>1, <1>3, <2>1 DEF WritersHaveRead, TypeOK
  <2>4. ReadsAreOld'
    BY <1>1, <1>3, <2>1, FS_CardinalityType DEF ReadsAreOld, TypeOK, WritersHaveRead
  <2> QED BY <2>2, <2>3, <2>4
<1>4. CASE UNCHANGED seen /\ {stage[a], x} \cap {"opening", "saving"} = {}
  <2>1. stage[a] \notin {"opening", "saving"} /\ x \notin {"opening", "saving"}
    BY <1>4
  <2>2. WritersHaveRead'
    BY <1>1, <1>4, <2>1 DEF WritersHaveRead, TypeOK
  <2>3. ReadsAreOld'
    BY <1>1, <1>4, <2>1, FS_CardinalityType DEF ReadsAreOld, TypeOK, WritersHaveRead
  <2> QED BY <1>4, <2>2, <2>3 DEF TypeOK
<1> QED BY <1>2, <1>3, <1>4

\* TypeOK without what it says of the reads.
StateTypes ==
  /\ row \in Row /\ version \in Nat
  /\ msgs \subseteq [seq : Nat, by : Actor, what : {"user", "reply", "news"}]
  /\ stage \in [Actor -> {"new", "open", "opening", "streaming", "settling",
                          "saving", "over", "dropped", "acking", "acked"}]
  /\ ledger \subseteq News /\ faults \in 0..MaxFaults

TurnTypes ==
  /\ saw \in [Turn -> Turn \cup {None}] /\ wants \in [Turn -> Turn \cup {None}]
  /\ todo \in [Turn -> Seq(Task)]

ReadTypes ==
  /\ seen \in [Actor -> [count : Nat, version : Nat, row : Row \cup {None}]]
  /\ WritersHaveRead

\* The types, in the three groups the steps are checked by.
LEMMA TypesSplit == TypeOK <=> StateTypes /\ TurnTypes /\ ReadTypes
BY DEF TypeOK, StateTypes, TurnTypes, ReadTypes

\* Both kinds of write, append_message and save, keep the thread's types.
LEMMA InsertTypes ==
  ASSUME TypeOK, NEW a \in Actor, NEW what \in {"user", "reply", "news"}, Insert(a, what)
  PROVE  /\ row' \in Row /\ version' \in Nat
         /\ msgs' \subseteq [seq : Nat, by : Actor, what : {"user", "reply", "news"}]
<1> DEFINE new == [seq |-> seen[a].count + 1, by |-> a, what |-> what]
<1>1. seen[a].count \in Nat
  BY DEF TypeOK
<1>2. new \in [seq : Nat, by : Actor, what : {"user", "reply", "news"}]
  BY <1>1
<1> QED BY <1>2 DEF Insert, TypeOK

\* A save writes a row and no message.
LEMMA SaveTypes ==
  ASSUME TypeOK, NEW a, NEW new \in Row, Save(a, new)
  PROVE  row' \in Row /\ version' \in Nat /\ msgs' = msgs
BY DEF Save, TypeOK

\* Every step keeps the types of the thread, the stages and the ledger.
LEMMA NextStateTypes == ThreadInv /\ Next => StateTypes'
<1> SUFFICES ASSUME ThreadInv, Next PROVE StateTypes'
  OBVIOUS
<1> USE ThreadAssumption
<1>0. StateTypes /\ TurnTypes /\ ReadTypes /\ TypeOK
  BY TypesSplit DEF ThreadInv
<1>1. ASSUME NEW t \in Turn, Preflight(t) \/ OpenRead(t) \/ StreamEnds(t) \/ PendingRead(t)
                               \/ ReplyRead(t)
      PROVE  StateTypes'
  BY <1>0, <1>1 DEF Preflight, OpenRead, StreamEnds, PendingRead, ReplyRead, EndTurn,
     DoneWith, Goto, StateTypes, thread, Actor
<1>2. ASSUME NEW t \in Turn, OpenWrite(t) PROVE StateTypes'
  <2>1. t \in Actor
    BY DEF Actor
  <2> QED BY <1>0, <1>2, <2>1, InsertTypes DEF OpenWrite, EndTurn, Goto, StateTypes, thread
<1>3. ASSUME NEW t \in Turn, PendingSave(t) PROVE StateTypes'
  <2>1. t \in Actor /\ seen[t].row \in Row /\ wants[t] \in Turn \cup {None}
    BY <1>0, <1>3 DEF Actor, ReadTypes, WritersHaveRead, TurnTypes, PendingSave
  <2>2. [seen[t].row EXCEPT !.pending = wants[t]] \in Row
    BY <2>1 DEF Row
  <2>3. row' \in Row /\ version' \in Nat /\ msgs' = msgs
    BY <1>0, <1>3, <2>2, SaveTypes DEF PendingSave
  <2> QED BY <1>0, <1>3, <2>1, <2>3 DEF PendingSave, DoneWith, EndTurn, Goto, StateTypes
<1>4. ASSUME NEW t \in Turn, ReplyWrite(t) PROVE StateTypes'
  <2>1. t \in Actor
    BY DEF Actor
  <2>2. /\ row' \in Row /\ version' \in Nat
        /\ msgs' \subseteq [seq : Nat, by : Actor, what : {"user", "reply", "news"}]
    BY <1>0, <1>4, <2>1, InsertTypes DEF ReplyWrite, thread, StateTypes
  <2> QED BY <1>0, <1>4, <2>1, <2>2 DEF ReplyWrite, DoneWith, EndTurn, Goto, StateTypes
<1>5. ASSUME NEW t \in Turn, Gone(t) PROVE StateTypes'
  BY <1>0, <1>5 DEF Gone, Fault, EndTurn, Goto, StateTypes, thread, Actor
<1>6. ASSUME NEW e \in Edit, EditRead(e) PROVE StateTypes'
  BY <1>0, <1>6 DEF EditRead, Goto, StateTypes, thread, Actor
<1>7. ASSUME NEW e \in Edit, EditSave(e) PROVE StateTypes'
  <2> DEFINE new == IF e \in Deletes THEN [seen[e].row EXCEPT !.deleted = TRUE]
                    ELSE [seen[e].row EXCEPT !.title = e]
  <2>1. e \in Actor /\ seen[e].row \in Row
    BY <1>0, <1>7 DEF Actor, ReadTypes, WritersHaveRead, EditSave
  <2>2. new \in Row
    BY <2>1 DEF Row
  <2>3. Save(e, new)
    BY <1>7 DEF EditSave
  <2> HIDE DEF new
  <2>4. row' \in Row /\ version' \in Nat /\ msgs' = msgs
    BY <1>0, <2>2, <2>3, SaveTypes
  <2> QED BY <1>0, <1>7, <2>1, <2>4 DEF EditSave, Goto, StateTypes
<1>8. ASSUME NEW n \in News, DeliverNothing(n) \/ DeliverRead(n) \/ Ack(n) PROVE StateTypes'
  BY <1>0, <1>8 DEF DeliverNothing, DeliverRead, Ack, Goto, StateTypes, thread, Actor
<1>9. ASSUME NEW n \in News, Redeliver(n) PROVE StateTypes'
  BY <1>0, <1>9 DEF Redeliver, Fault, Goto, StateTypes, thread, Actor
<1>10. ASSUME NEW n \in News, DeliverWrite(n) PROVE StateTypes'
  <2>1. n \in Actor
    BY DEF Actor
  <2>2. /\ row' \in Row /\ version' \in Nat
        /\ msgs' \subseteq [seq : Nat, by : Actor, what : {"user", "reply", "news"}]
    BY <1>0, <1>10, <2>1, InsertTypes DEF DeliverWrite, thread, StateTypes
  <2> QED BY <1>0, <1>10, <2>1, <2>2 DEF DeliverWrite, Goto, StateTypes
<1> QED BY <1>1, <1>2, <1>3, <1>4, <1>5, <1>6, <1>7, <1>8, <1>9, <1>10 DEF Next

\* Every step keeps the types of what a turn has left to do.
LEMMA NextTurnTypes == ThreadInv /\ Next => TurnTypes'
<1> SUFFICES ASSUME ThreadInv, Next PROVE TurnTypes'
  OBVIOUS
<1> USE ThreadAssumption
<1>0. StateTypes /\ TurnTypes /\ RepliesAreFirst
  BY TypesSplit DEF ThreadInv
<1>1. ASSUME NEW t \in Turn, EndTurn(t) PROVE TurnTypes'
  BY <1>0, <1>1 DEF EndTurn, TurnTypes
<1>2. ASSUME NEW t \in Turn, DoneWith(t), stage[t] \in {"settling", "saving"} PROVE TurnTypes'
  <2>1. todo[t] \in Seq(Task) /\ todo[t] # <<>>
    BY <1>0, <1>2 DEF TurnTypes, RepliesAreFirst
  <2>2. Tail(todo[t]) \in Seq(Task)
    BY <2>1
  <2> QED BY <1>0, <1>1, <1>2, <2>2 DEF DoneWith, TurnTypes
<1>3. ASSUME NEW t \in Turn, Preflight(t) PROVE TurnTypes'
  BY <1>0, <1>3 DEF Preflight, StateTypes, TurnTypes, Row
<1>4. ASSUME NEW t \in Turn, OpenRead(t) \/ OpenWrite(t) \/ Gone(t) PROVE TurnTypes'
  BY <1>0, <1>1, <1>4 DEF OpenRead, OpenWrite, Gone, TurnTypes, turnVars
<1>5. ASSUME NEW t \in Turn, StreamEnds(t) PROVE TurnTypes'
  <2>1. /\ "reply" \in Task /\ "pending" \in Task
        /\ \A q : Changed(t, q) \in Seq(Task)
    <3>1. "reply" \in Task /\ "pending" \in Task
      BY DEF Task
    <3>2. <<>> \in Seq(Task) /\ <<"pending">> \in Seq(Task)
      BY <3>1
    <3> QED BY <3>1, <3>2 DEF Changed
  <2>2. CASE \E q \in {None, t, saw[t]} : wants' = [wants EXCEPT ![t] = q]
             /\ todo' = [todo EXCEPT ![t] = Changed(t, wants'[t]) \o <<"reply">>]
             /\ UNCHANGED saw
    <3>1. Changed(t, wants'[t]) \o <<"reply">> \in Seq(Task)
      BY <2>1
    <3> QED BY <1>0, <2>2, <3>1 DEF TurnTypes
  <2>3. ASSUME NEW owed \in Seq(Task), todo' = [todo EXCEPT ![t] = owed],
               UNCHANGED <<saw, wants>>
        PROVE  TurnTypes'
    BY <1>0, <2>3 DEF TurnTypes
  <2>4. /\ Changed(t, None) \in Seq(Task)
        /\ <<"reply">> \o Changed(t, None) \in Seq(Task)
        /\ (<<"reply">> \o Changed(t, None)) \o (<<"reply">> \o Changed(t, None)) \in Seq(Task)
    BY <2>1
  <2> QED BY <1>1, <1>5, <2>2, <2>3, <2>4 DEF StreamEnds
<1>6. ASSUME NEW t \in Turn, PendingRead(t) \/ PendingSave(t) \/ ReplyRead(t) \/ ReplyWrite(t)
      PROVE  TurnTypes'
  BY <1>0, <1>2, <1>6 DEF PendingRead, PendingSave, ReplyRead, ReplyWrite, TurnTypes, turnVars
<1>7. ASSUME UNCHANGED turnVars PROVE TurnTypes'
  BY <1>0, <1>7 DEF TurnTypes, turnVars
<1> QED BY <1>3, <1>4, <1>5, <1>6, <1>7 DEF Next, EditRead, EditSave, DeliverNothing,
           DeliverRead, DeliverWrite, Ack, Redeliver

-----------------------------------------------------------------------------
(* What every step does to the thread and to the reads.                    *)

\* The transcript only grows, and the row changes only with its version.
ThreadMoves ==
  /\ version' \in Nat /\ version <= version'
  /\ version' = version => row' = row
  /\ IsFiniteSet(msgs') /\ SeqsAreGapFree'
  /\ Cardinality(msgs') \in Nat /\ Cardinality(msgs) <= Cardinality(msgs')

\* append_message at a free number appends.
LEMMA InsertMoves ==
  ASSUME ThreadInv, NEW a \in Actor, NEW what, stage[a] \in {"opening", "saving"},
         SeqFree(a), Insert(a, what)
  PROVE  ThreadMoves
<1>1. /\ IsFiniteSet(msgs') /\ SeqsAreGapFree'
      /\ Cardinality(msgs') = Cardinality(msgs) + 1 /\ Cardinality(msgs) \in Nat
  BY InsertAppends DEF ThreadInv
<1>2. version \in Nat /\ version' = version + 1
  BY DEF ThreadInv, TypeOK, Insert
<1> QED BY <1>1, <1>2 DEF ThreadMoves

\* A save, or nothing, leaves the transcript as it is.
LEMMA RowMoves ==
  ASSUME ThreadInv, UNCHANGED msgs,
         UNCHANGED <<row, version>> \/ version' = version + 1
  PROVE  ThreadMoves
<1>1. IsFiniteSet(msgs) /\ Cardinality(msgs) \in Nat /\ SeqsAreGapFree /\ version \in Nat
  BY FS_CardinalityType DEF ThreadInv, TypeOK
<1>2. SeqsAreGapFree'
  BY <1>1 DEF SeqsAreGapFree
<1> QED BY <1>1, <1>2 DEF ThreadMoves

\* Every step moves the thread forward.
LEMMA NextThreadMoves == ThreadInv /\ Next => ThreadMoves
<1> SUFFICES ASSUME ThreadInv, Next PROVE ThreadMoves
  OBVIOUS
<1>1. ASSUME UNCHANGED thread PROVE ThreadMoves
  BY <1>1, RowMoves DEF thread
<1>2. ASSUME NEW a, NEW new, Save(a, new) PROVE ThreadMoves
  BY <1>2, RowMoves DEF Save
<1>3. ASSUME NEW t \in Turn, OpenWrite(t) \/ ReplyWrite(t) PROVE ThreadMoves
  BY <1>1, <1>3, InsertMoves DEF OpenWrite, ReplyWrite, Actor
<1>4. ASSUME NEW n \in News, DeliverWrite(n) PROVE ThreadMoves
  <2>1. n \in Actor
    BY DEF Actor
  <2> QED BY <1>1, <1>4, <2>1, InsertMoves DEF DeliverWrite, thread
<1>5. ASSUME NEW t \in Turn, PendingSave(t) PROVE ThreadMoves
  BY <1>2, <1>5 DEF PendingSave
<1>6. ASSUME NEW e \in Edit, EditSave(e) PROVE ThreadMoves
  BY <1>2, <1>6 DEF EditSave
<1> QED BY <1>1, <1>3, <1>4, <1>5, <1>6 DEF Next, Preflight, OpenRead, StreamEnds,
           PendingRead, ReplyRead, Gone, EditRead, DeliverNothing, DeliverRead, Ack, Redeliver

\* An actor goes to x: to write, having read the thread as it is, or to
\* something else, remembering no read.
Moves(a, x) ==
  /\ Goto(a, x)
  /\ \/ Load(a) /\ x \in {"opening", "saving"} /\ UNCHANGED thread
     \/ Forget(a) /\ x \notin {"opening", "saving"}
     \/ UNCHANGED seen /\ {stage[a], x} \cap {"opening", "saving"} = {}

\* Every step is a step of one actor.
LEMMA NextMoves == ThreadInv /\ Next => \E a \in Actor : \E x : Moves(a, x)
<1> SUFFICES ASSUME ThreadInv, Next PROVE \E a \in Actor : \E x : Moves(a, x)
  OBVIOUS
<1>1. ASSUME NEW t \in Turn, EndTurn(t) PROVE \E x : Moves(t, x)
  <2>1. Moves(t, "over")
    BY <1>1 DEF EndTurn, Moves
  <2> QED BY <2>1
<1>2. ASSUME NEW t \in Turn, DoneWith(t) PROVE \E x : Moves(t, x)
  <2>1. EndTurn(t) \/ Moves(t, "settling")
    BY <1>2 DEF DoneWith, Moves
  <2> QED BY <1>1, <2>1
<1>3. ASSUME NEW t \in Turn, Preflight(t) PROVE Moves(t, "open")
  BY <1>3 DEF Preflight, Moves
<1>4. ASSUME NEW t \in Turn, OpenRead(t) PROVE EndTurn(t) \/ Moves(t, "opening")
  BY <1>4 DEF OpenRead, Moves
<1>5. ASSUME NEW t \in Turn, OpenWrite(t) PROVE EndTurn(t) \/ Moves(t, "streaming")
  BY <1>5 DEF OpenWrite, Moves
<1>6. ASSUME NEW t \in Turn, StreamEnds(t) PROVE EndTurn(t) \/ Moves(t, "settling")
  BY <1>6 DEF StreamEnds, Moves
<1>7. ASSUME NEW t \in Turn, PendingRead(t) \/ ReplyRead(t)
      PROVE  DoneWith(t) \/ Moves(t, "saving")
  BY <1>7 DEF PendingRead, ReplyRead, Moves
<1>8. ASSUME NEW t \in Turn, PendingSave(t) \/ ReplyWrite(t) PROVE DoneWith(t)
  BY <1>8 DEF PendingSave, ReplyWrite
<1>9. ASSUME NEW t \in Turn, Gone(t) PROVE EndTurn(t)
  BY <1>9 DEF Gone
<1>10. ASSUME NEW e \in Edit, EditRead(e) \/ EditSave(e)
       PROVE  Moves(e, "over") \/ Moves(e, "saving")
  BY <1>10 DEF EditRead, EditSave, Moves
<1>11. ASSUME NEW n \in News,
              DeliverNothing(n) \/ DeliverRead(n) \/ DeliverWrite(n) \/ Ack(n) \/ Redeliver(n)
       PROVE  \E x : Moves(n, x)
  <2>1. Moves(n, "dropped") \/ Moves(n, "acking") \/ Moves(n, "saving") \/ Moves(n, "acked")
        \/ Moves(n, "new")
    BY <1>11 DEF DeliverNothing, DeliverRead, DeliverWrite, Ack, Redeliver, Moves
  <2> QED BY <2>1
<1>12. ASSUME NEW t \in Turn,
              \/ Preflight(t) \/ OpenRead(t) \/ OpenWrite(t) \/ StreamEnds(t)
              \/ PendingRead(t) \/ PendingSave(t) \/ ReplyRead(t) \/ ReplyWrite(t)
              \/ Gone(t)
       PROVE  \E x : Moves(t, x)
  BY <1>1, <1>2, <1>3, <1>4, <1>5, <1>6, <1>7, <1>8, <1>9, <1>12
<1>13. Turn \subseteq Actor /\ Edit \subseteq Actor /\ News \subseteq Actor
  BY DEF Actor
<1> QED BY <1>10, <1>11, <1>12, <1>13 DEF Next

\* Every step keeps what a read remembers older than the thread.
LEMMA NextReads == ThreadInv /\ Next => ReadTypes' /\ ReadsAreOld'
<1> SUFFICES ASSUME ThreadInv, Next PROVE ReadTypes' /\ ReadsAreOld'
  OBVIOUS
<1>1. ThreadMoves
  BY NextThreadMoves
<1>2. PICK a \in Actor : \E x : Moves(a, x)
  BY NextMoves
<1>3. PICK x : Moves(a, x)
  BY <1>2
<1> QED BY <1>1, <1>3, ReadersStep DEF ThreadInv, ThreadMoves, Moves, ReadTypes

-----------------------------------------------------------------------------
(* Who posts what.                                                         *)

Posts(a, what) == \E k : msgs' = msgs \cup {[seq |-> k, by |-> a, what |-> what]}

\* A step posts nothing, or a user's message, or the first reply of a turn, or
\* news the ledger does not hold and now does.
LEMMA WhoPosts ==
  ThreadInv /\ Next =>
    \/ UNCHANGED <<msgs, ledger>>
    \/ \E t \in Turn : Posts(t, "user") /\ UNCHANGED ledger
    \/ \E t \in Turn : Posts(t, "reply") /\ ~Replied(t) /\ UNCHANGED ledger
                      /\ stage[t] = "saving"
    \/ \E n \in News : Posts(n, "news") /\ n \notin ledger /\ ledger' = ledger \cup {n}
<1> SUFFICES ASSUME ThreadInv, Next
             PROVE  \/ UNCHANGED <<msgs, ledger>>
                    \/ \E t \in Turn : Posts(t, "user") /\ UNCHANGED ledger
                    \/ \E t \in Turn : Posts(t, "reply") /\ ~Replied(t) /\ UNCHANGED ledger
                                      /\ stage[t] = "saving"
                    \/ \E n \in News : Posts(n, "news") /\ n \notin ledger
                                      /\ ledger' = ledger \cup {n}
  OBVIOUS
<1>1. ASSUME NEW a, NEW what, Insert(a, what) PROVE Posts(a, what)
  BY <1>1 DEF Insert, Posts
<1>2. ASSUME NEW t \in Turn, OpenWrite(t)
      PROVE  UNCHANGED <<msgs, ledger>> \/ (Posts(t, "user") /\ UNCHANGED ledger)
  BY <1>1, <1>2 DEF OpenWrite, thread
<1>3. ASSUME NEW t \in Turn, ReplyWrite(t)
      PROVE  \/ UNCHANGED <<msgs, ledger>>
             \/ Posts(t, "reply") /\ ~Replied(t) /\ UNCHANGED ledger /\ stage[t] = "saving"
  BY <1>1, <1>3 DEF ReplyWrite, Owes, thread, ThreadInv, RepliesAreFirst
<1>4. ASSUME NEW n \in News, DeliverWrite(n)
      PROVE  \/ UNCHANGED <<msgs, ledger>>
             \/ Posts(n, "news") /\ n \notin ledger /\ ledger' = ledger \cup {n}
  BY <1>1, <1>4 DEF DeliverWrite, thread, ThreadInv, LedgerKnowsNews
<1> QED BY <1>2, <1>3, <1>4 DEF Next, Preflight, OpenRead, StreamEnds, PendingRead,
           PendingSave, ReplyRead, Gone, EditRead, EditSave, DeliverNothing, DeliverRead, Ack,
           Redeliver, Save, thread

\* No step writes a second reply of a turn.
LEMMA NextOneReply == ThreadInv /\ Next => OneReplyPerTurn'
<1> SUFFICES ASSUME ThreadInv, Next, NEW t \in Turn
             PROVE  Cardinality({m \in msgs' : m.by = t /\ m.what = "reply"}) <= 1
  BY DEF OneReplyPerTurn
<1> USE ThreadAssumption
<1> DEFINE R == {m \in msgs : m.by = t /\ m.what = "reply"}
           Rn == {m \in msgs' : m.by = t /\ m.what = "reply"}
<1>1. ASSUME Rn = R PROVE Cardinality(Rn) <= 1
  BY <1>1 DEF ThreadInv, OneReplyPerTurn
<1>2. ASSUME NEW u \in Turn, Posts(u, "reply"), ~Replied(u) PROVE Cardinality(Rn) <= 1
  <2>1. PICK k : msgs' = msgs \cup {[seq |-> k, by |-> u, what |-> "reply"]}
    BY <1>2 DEF Posts
  <2>2. CASE u # t
    BY <1>1, <2>1, <2>2
  <2>3. CASE u = t
    <3>1. R = {}
      BY <1>2, <2>3 DEF Replied
    <3>2. Rn = {[seq |-> k, by |-> u, what |-> "reply"]}
      BY <2>1, <2>3, <3>1
    <3> HIDE DEF Rn
    <3>3. Cardinality(Rn) = 1
      BY <3>2, FS_Singleton
    <3> QED BY <3>3
  <2> QED BY <2>2, <2>3
<1>3. ASSUME NEW u, Posts(u, "user") \/ Posts(u, "news") PROVE Rn = R
  BY <1>3 DEF Posts
<1>4. UNCHANGED msgs => Rn = R
  OBVIOUS
<1> HIDE DEF R
<1>5. Cardinality(Rn) <= 1
  <2> HIDE DEF Rn
  <2>1. \/ UNCHANGED msgs
        \/ \E u \in Turn : Posts(u, "reply") /\ ~Replied(u)
        \/ \E u : Posts(u, "user") \/ Posts(u, "news")
    BY WhoPosts
  <2> QED BY <1>1, <1>2, <1>3, <1>4, <2>1
<1> QED BY <1>5

\* The ledger and the news it lets through change together.
LEMMA NextLedger == ThreadInv /\ Next => LedgerKnowsNews' /\ NewsPostedOnce'
<1> SUFFICES ASSUME ThreadInv, Next PROVE LedgerKnowsNews' /\ NewsPostedOnce'
  OBVIOUS
<1> USE ThreadAssumption
<1>0. LedgerKnowsNews /\ NewsPostedOnce /\ TypeOK
  BY DEF ThreadInv
<1>1. ASSUME NEW n \in News
      PROVE  /\ n \in ledger' <=> \E m \in msgs' : m.by = n
             /\ Cardinality({m \in msgs' : m.by = n}) <= 1
  <2> DEFINE P == {m \in msgs : m.by = n}
             Pn == {m \in msgs' : m.by = n}
  <2>1. Cardinality(P) <= 1 /\ (n \in ledger <=> P # {})
    BY <1>0 DEF LedgerKnowsNews, NewsPostedOnce
  <2>3. ASSUME NEW u \in News, Posts(u, "news"), u \notin ledger, ledger' = ledger \cup {u}
        PROVE  Cardinality(Pn) <= 1 /\ (n \in ledger' <=> Pn # {})
    <3>1. PICK k : msgs' = msgs \cup {[seq |-> k, by |-> u, what |-> "news"]}
      BY <2>3 DEF Posts
    <3>2. CASE u # n
      <4>1. Pn = P /\ (n \in ledger' <=> n \in ledger)
        BY <2>3, <3>1, <3>2
      <4> QED BY <2>1, <4>1
    <3>3. CASE u = n
      <4>1. P = {}
        BY <2>1, <2>3, <3>3
      <4>2. Pn = {[seq |-> k, by |-> u, what |-> "news"]} /\ n \in ledger'
        BY <2>3, <3>1, <3>3, <4>1
      <4> HIDE DEF Pn
      <4>3. Cardinality(Pn) = 1 /\ Pn # {}
        BY <4>2, FS_Singleton
      <4> QED BY <4>2, <4>3
    <3> QED BY <3>2, <3>3
  <2>4. ASSUME NEW u \in Turn, Posts(u, "user") \/ Posts(u, "reply"), UNCHANGED ledger
        PROVE  Pn = P /\ (n \in ledger' <=> n \in ledger)
    <3>1. u # n
      OBVIOUS
    <3> QED BY <2>4, <3>1 DEF Posts
  <2>5. UNCHANGED <<msgs, ledger>> => Pn = P /\ (n \in ledger' <=> n \in ledger)
    OBVIOUS
  <2> HIDE DEF P
  <2>6. Cardinality(Pn) <= 1 /\ (n \in ledger' <=> Pn # {})
    <3> HIDE DEF Pn
    <3> QED BY <2>1, <2>3, <2>4, <2>5, WhoPosts
  <2> QED BY <2>6
<1>2. ASSUME NEW n \in News, stage'[n] = "saving" PROVE n \notin ledger'
  <2>1. n \in Actor /\ n \in DOMAIN stage /\ n \notin Turn /\ n \notin Edit
    BY <1>0 DEF TypeOK, Actor
  <2>2. ASSUME NEW a, NEW x, a # n, Goto(a, x) PROVE stage'[n] = stage[n]
    BY <1>0, <2>1, <2>2 DEF Goto, TypeOK
  <2>3. ASSUME NEW x, Goto(n, x) PROVE stage'[n] = x
    BY <1>0, <2>1, <2>3 DEF Goto, TypeOK
  <2>4. stage[n] = "saving" => n \notin ledger
    BY <1>0 DEF LedgerKnowsNews
  <2>5. ASSUME UNCHANGED ledger, NEW a, NEW x, a # n, Goto(a, x) PROVE n \notin ledger'
    BY <1>2, <2>2, <2>4, <2>5
  <2>6. ASSUME NEW u \in News, DeliverWrite(u) PROVE n \notin ledger'
    <3>1. u # n
      BY <1>2, <2>3, <2>6 DEF DeliverWrite
    <3> QED BY <1>2, <2>2, <2>4, <2>6, <3>1 DEF DeliverWrite
  <2>7. ASSUME NEW u \in News, DeliverRead(u) PROVE n \notin ledger'
    <3>1. CASE u = n
      BY <1>2, <2>3, <2>7, <3>1 DEF DeliverRead, Claimed
    <3> QED BY <2>5, <2>7, <3>1 DEF DeliverRead
  <2>8. ASSUME NEW u \in News, DeliverNothing(u) \/ Ack(u) \/ Redeliver(u)
        PROVE  n \notin ledger'
    <3>1. u # n
      BY <1>2, <2>3, <2>8 DEF DeliverNothing, Ack, Redeliver
    <3> QED BY <2>5, <2>8, <3>1 DEF DeliverNothing, Ack, Redeliver
  <2>9. ASSUME NEW e \in Edit, EditRead(e) \/ EditSave(e) PROVE n \notin ledger'
    BY <2>1, <2>5, <2>9 DEF EditRead, EditSave
  <2>10. ASSUME NEW t \in Turn,
                \/ Preflight(t) \/ OpenRead(t) \/ OpenWrite(t) \/ StreamEnds(t)
                \/ PendingRead(t) \/ PendingSave(t) \/ ReplyRead(t) \/ ReplyWrite(t)
                \/ Gone(t)
         PROVE  n \notin ledger'
    <3>1. UNCHANGED ledger /\ t # n
      BY <2>1, <2>10 DEF Preflight, OpenRead, OpenWrite, StreamEnds, PendingRead,
         PendingSave, ReplyRead, ReplyWrite, Gone
    <3>2. \E x : Goto(t, x)
      BY <2>10 DEF Preflight, OpenRead, OpenWrite, StreamEnds, PendingRead, PendingSave,
         ReplyRead, ReplyWrite, Gone, DoneWith, EndTurn
    <3> QED BY <2>5, <3>1, <3>2
  <2> QED BY <2>6, <2>7, <2>8, <2>9, <2>10 DEF Next
<1> QED BY <1>1, <1>2 DEF LedgerKnowsNews, NewsPostedOnce

\* What a turn's own step leaves behind.
LEMMA OwnReply ==
  ASSUME ThreadInv, NEW t \in Turn,
         \/ Preflight(t) \/ OpenRead(t) \/ OpenWrite(t) \/ StreamEnds(t)
         \/ PendingRead(t) \/ PendingSave(t) \/ ReplyRead(t) \/ ReplyWrite(t)
         \/ Gone(t)
  PROVE  /\ stage'[t] \in {"settling", "saving"} => todo'[t] # <<>>
         /\ stage'[t] = "saving" /\ Head(todo'[t]) = "reply" => ~Replied(t)'
<1> DEFINE Goal == /\ stage'[t] \in {"settling", "saving"} => todo'[t] # <<>>
                   /\ stage'[t] = "saving" /\ Head(todo'[t]) = "reply" => ~Replied(t)'
<1>0. /\ t \in DOMAIN stage /\ t \in DOMAIN todo
      /\ todo[t] \in Seq(Task) /\ RepliesAreFirst
  BY DEF ThreadInv, TypeOK, Actor
<1>1. ASSUME NEW x, Goto(t, x) PROVE stage'[t] = x
  BY <1>0, <1>1 DEF Goto
<1>2. ASSUME NEW x, Goto(t, x), x \notin {"settling", "saving"} PROVE Goal
  BY <1>1, <1>2
<1>3. ASSUME EndTurn(t) PROVE Goal
  BY <1>2, <1>3 DEF EndTurn
<1>4. ASSUME DoneWith(t), stage[t] \in {"settling", "saving"} PROVE Goal
  <2>1. todo[t] # <<>>
    BY <1>0, <1>4 DEF RepliesAreFirst
  <2>2. CASE Len(todo[t]) # 1
    <3>1. Tail(todo[t]) # <<>>
      <4>1. Len(todo[t]) \in Nat /\ Len(todo[t]) # 0
        BY <1>0, <2>1, EmptySeq
      <4>2. Len(Tail(todo[t])) = Len(todo[t]) - 1
        BY <1>0, <2>1, HeadTailProperties
      <4>3. Len(Tail(todo[t])) # Len(<<>>)
        BY <2>2, <4>1, <4>2
      <4> QED BY <4>3
    <3>2. todo'[t] = Tail(todo[t]) /\ Goto(t, "settling")
      BY <1>0, <1>4, <2>2 DEF DoneWith
    <3> QED BY <1>1, <3>1, <3>2
  <2> QED BY <1>3, <1>4, <2>2 DEF DoneWith
<1>5. CASE Preflight(t)
  BY <1>2, <1>5 DEF Preflight
<1>6. CASE OpenRead(t)
  BY <1>2, <1>3, <1>6 DEF OpenRead
<1>7. CASE OpenWrite(t)
  BY <1>2, <1>3, <1>7 DEF OpenWrite
<1>8. CASE StreamEnds(t)
  <2>1. \A q : Changed(t, q) \in Seq(Task)
    <3>1. "pending" \in Task
      BY DEF Task
    <3>2. <<>> \in Seq(Task) /\ <<"pending">> \in Seq(Task)
      BY <3>1
    <3> QED BY <3>2 DEF Changed
  <2>2. Changed(t, wants'[t]) \o <<"reply">> # <<>>
    BY <2>1
  <2>3. ASSUME NEW owed, owed # <<>>, todo' = [todo EXCEPT ![t] = owed], Goto(t, "settling")
        PROVE  Goal
    BY <1>0, <1>1, <2>3
  <2> QED BY <1>3, <1>8, <2>2, <2>3 DEF StreamEnds
<1>9. CASE PendingRead(t)
  <2>1. ASSUME Goto(t, "saving"), UNCHANGED <<turnVars, thread>> PROVE Goal
    <3>1. UNCHANGED <<todo, msgs>> /\ todo[t] # <<>> /\ Head(todo[t]) # "reply"
      BY <1>0, <1>9, <2>1 DEF turnVars, thread, PendingRead, Owes, RepliesAreFirst
    <3> QED BY <3>1
  <2> QED BY <1>4, <1>9, <2>1 DEF PendingRead
<1>10. CASE ReplyRead(t)
  <2>1. ASSUME Goto(t, "saving"), UNCHANGED <<turnVars, thread>>, ~Replied(t) PROVE Goal
    <3>1. UNCHANGED <<todo, msgs>> /\ todo[t] # <<>>
      BY <1>0, <1>10, <2>1 DEF turnVars, thread, ReplyRead, Owes, RepliesAreFirst
    <3> QED BY <2>1, <3>1 DEF Replied
  <2> QED BY <1>4, <1>10, <2>1 DEF ReplyRead
<1>11. CASE PendingSave(t) \/ ReplyWrite(t)
  BY <1>4, <1>11 DEF PendingSave, ReplyWrite
<1>12. CASE Gone(t)
  BY <1>3, <1>12 DEF Gone
<1> QED BY <1>5, <1>6, <1>7, <1>8, <1>9, <1>10, <1>11, <1>12

\* A turn about to write its reply has written none.
LEMMA NextReplies == ThreadInv /\ Next => RepliesAreFirst'
<1> SUFFICES ASSUME ThreadInv, Next, NEW t \in Turn
             PROVE  /\ stage'[t] \in {"settling", "saving"} => todo'[t] # <<>>
                    /\ stage'[t] = "saving" /\ Head(todo'[t]) = "reply" => ~Replied(t)'
  BY DEF RepliesAreFirst
<1> USE ThreadAssumption
<1>0. RepliesAreFirst /\ TypeOK
  BY DEF ThreadInv
<1>1. CASE \/ Preflight(t) \/ OpenRead(t) \/ OpenWrite(t) \/ StreamEnds(t)
           \/ PendingRead(t) \/ PendingSave(t) \/ ReplyRead(t) \/ ReplyWrite(t)
           \/ Gone(t)
  BY <1>1, OwnReply
<1>2. ASSUME NEW a \in Actor, a # t, \E x : Goto(a, x), todo'[t] = todo[t],
             Replied(t)' = Replied(t)
      PROVE  /\ stage'[t] \in {"settling", "saving"} => todo'[t] # <<>>
             /\ stage'[t] = "saving" /\ Head(todo'[t]) = "reply" => ~Replied(t)'
  <2>1. stage'[t] = stage[t]
    BY <1>0, <1>2 DEF Goto, TypeOK
  <2> QED BY <1>0, <1>2, <2>1 DEF RepliesAreFirst
<1>3. ASSUME NEW a \in Actor, a # t, NEW what, Insert(a, what) PROVE Replied(t)' = Replied(t)
  BY <1>3 DEF Insert, Replied
<1>4. ASSUME UNCHANGED msgs PROVE Replied(t)' = Replied(t)
  BY <1>4 DEF Replied
<1>5. ASSUME NEW u \in Turn, u # t,
             \/ Preflight(u) \/ OpenRead(u) \/ OpenWrite(u) \/ StreamEnds(u)
             \/ PendingRead(u) \/ PendingSave(u) \/ ReplyRead(u) \/ ReplyWrite(u)
             \/ Gone(u)
      PROVE  todo'[t] = todo[t] /\ Replied(t)' = Replied(t) /\ \E x : Goto(u, x)
  <2>1. u \in Actor /\ todo \in [Turn -> Seq(Task)]
    BY <1>0 DEF Actor, TypeOK
  <2>2. \E x : Goto(u, x)
    BY <1>5 DEF Preflight, OpenRead, OpenWrite, StreamEnds, PendingRead, PendingSave,
       ReplyRead, ReplyWrite, Gone, DoneWith, EndTurn
  <2>3. todo'[t] = todo[t]
    BY <1>5, <2>1 DEF Preflight, OpenRead, OpenWrite, StreamEnds, PendingRead, PendingSave,
       ReplyRead, ReplyWrite, Gone, DoneWith, EndTurn, turnVars
  <2>4. Replied(t)' = Replied(t)
    BY <1>3, <1>4, <1>5, <2>1 DEF Preflight, OpenRead, OpenWrite, StreamEnds, PendingRead,
       PendingSave, ReplyRead, ReplyWrite, Gone, Save, thread
  <2> QED BY <2>2, <2>3, <2>4
<1>6. ASSUME NEW e \in Edit, EditRead(e) \/ EditSave(e)
      PROVE  todo'[t] = todo[t] /\ Replied(t)' = Replied(t) /\ \E x : Goto(e, x)
  BY <1>4, <1>6 DEF EditRead, EditSave, Save, thread, turnVars
<1>7. ASSUME NEW n \in News,
             DeliverNothing(n) \/ DeliverRead(n) \/ DeliverWrite(n) \/ Ack(n) \/ Redeliver(n)
      PROVE  todo'[t] = todo[t] /\ Replied(t)' = Replied(t) /\ \E x : Goto(n, x)
  <2>1. n \in Actor /\ n # t
    BY DEF Actor
  <2>2. Replied(t)' = Replied(t)
    BY <1>3, <1>4, <1>7, <2>1 DEF DeliverNothing, DeliverRead, DeliverWrite, Ack, Redeliver,
       thread
  <2> QED BY <1>7, <2>2 DEF DeliverNothing, DeliverRead, DeliverWrite, Ack, Redeliver, turnVars
<1>8. /\ Turn \subseteq Actor /\ Edit \subseteq Actor /\ News \subseteq Actor
      /\ t \notin Edit /\ t \notin News
  BY DEF Actor
<1> QED BY <1>1, <1>2, <1>5, <1>6, <1>7, <1>8 DEF Next

-----------------------------------------------------------------------------
(* The theorems.                                                           *)

\* Every step keeps the invariant.
LEMMA NextThreadInv == ThreadInv /\ [Next]_vars => ThreadInv'
<1>1. ASSUME ThreadInv, Next PROVE ThreadInv'
  <2>1. TypeOK'
    BY <1>1, NextStateTypes, NextTurnTypes, NextReads, TypesSplit
       DEF TypeOK, StateTypes, TurnTypes, ReadTypes
  <2>2. IsFiniteSet(msgs') /\ SeqsAreGapFree'
    BY <1>1, NextThreadMoves DEF ThreadMoves
  <2>3. ReadsAreOld' /\ RepliesAreFirst' /\ LedgerKnowsNews' /\ OneReplyPerTurn' /\ NewsPostedOnce'
    BY <1>1, NextReads, NextReplies, NextLedger, NextOneReply
  <2> QED BY <2>1, <2>2, <2>3 DEF ThreadInv
<1>2. ASSUME ThreadInv, UNCHANGED vars PROVE ThreadInv'
  BY <1>2 DEF vars, thread, turnVars, ThreadInv, TypeOK, WritersHaveRead, SeqsAreGapFree,
     ReadsAreOld, RepliesAreFirst, LedgerKnowsNews, OneReplyPerTurn, NewsPostedOnce, Replied
<1> QED BY <1>1, <1>2

\* The inductive invariant holds of every behaviour of the thread.
THEOREM ThreadInvariant == Spec => []ThreadInv
<1>1. Init => ThreadInv
  BY InitThreadInv
<1>2. ThreadInv /\ [Next]_vars => ThreadInv'
  BY NextThreadInv
<1> QED BY <1>1, <1>2, PTL DEF Spec

\* Every variable keeps its type and nobody writes what it has not read first:
\* the use cases of use_cases.py and the turn's settlement in orchestrator.py.
THEOREM ThreadTypes == Spec => []TypeOK
<1>1. ThreadInv => TypeOK
  BY DEF ThreadInv
<1> QED BY <1>1, ThreadInvariant, PTL

\* append_message and uq_msg_seq: the transcript's numbers are 1..n however
\* many writers race for the next one.
THEOREM TranscriptGapFree == Spec => []SeqsAreGapFree
<1>1. ThreadInv => SeqsAreGapFree
  BY DEF ThreadInv
<1> QED BY <1>1, ThreadInvariant, PTL

\* _persist_reply and _persist_partial: however often the settlement of a turn
\* comes back to its reply, the thread holds at most one.
THEOREM RepliesOnce == Spec => []OneReplyPerTurn
<1>1. ThreadInv => OneReplyPerTurn
  BY DEF ThreadInv
<1> QED BY <1>1, ThreadInvariant, PTL

\* The delivery handler's ledger: any number of redeliveries post one message.
THEOREM NewsOnce == Spec => []NewsPostedOnce
<1>1. ThreadInv => NewsPostedOnce
  BY DEF ThreadInv
<1> QED BY <1>1, ThreadInvariant, PTL

\* save's optimistic lock: a save that goes through found the row it had read.
LEMMA SaveIsCurrent ==
  ASSUME ThreadInv, NEW a \in Actor, NEW new, stage[a] \in {"opening", "saving"}, Save(a, new)
  PROVE  row' = row \/ (row' = new /\ seen[a].row = row)
BY DEF Save, Current, ThreadInv, ReadsAreOld

\* save writes back every column, and no concurrent edit is lost by it.
THEOREM EditsSurvive == Spec => NoLostEdit
<1> DEFINE Kept == /\ row'.title # row.title => row'.pending = row.pending
                   /\ row'.pending # row.pending => row'.deleted = row.deleted
                   /\ row'.deleted # row.deleted => row'.deleted /\ row'.title = row.title
<1>1. ThreadInv /\ [Next]_vars => [Kept]_vars
  <2> SUFFICES ASSUME ThreadInv, Next PROVE Kept
    OBVIOUS
  <2>1. row \in Row
    BY DEF ThreadInv, TypeOK
  <2>2. CASE UNCHANGED row
    BY <2>2
  <2>3. ASSUME NEW t \in Turn, PendingSave(t) PROVE Kept
    <3>1. row' = row \/ row' = [row EXCEPT !.pending = wants[t]]
      BY <2>3, SaveIsCurrent DEF PendingSave, Actor
    <3> QED BY <2>1, <3>1 DEF Row
  <2>4. ASSUME NEW e \in Edit, EditSave(e) PROVE Kept
    <3> DEFINE new == IF e \in Deletes THEN [seen[e].row EXCEPT !.deleted = TRUE]
                      ELSE [seen[e].row EXCEPT !.title = e]
    <3>1. e \in Actor /\ stage[e] = "saving" /\ Save(e, new)
      BY <2>4 DEF EditSave, Actor
    <3> HIDE DEF new
    <3>2. row' = row \/ (row' = new /\ seen[e].row = row)
      BY <3>1, SaveIsCurrent
    <3>3. \/ row' = row
          \/ row' = [row EXCEPT !.deleted = TRUE]
          \/ row' = [row EXCEPT !.title = e]
      BY <3>2 DEF new
    <3> QED BY <2>1, <3>3 DEF Row
  <2> QED BY <2>2, <2>3, <2>4 DEF Next, Preflight, OpenRead, OpenWrite, StreamEnds,
             PendingRead, ReplyRead, ReplyWrite, Gone, EditRead, DeliverNothing, DeliverRead,
             DeliverWrite, Ack, Redeliver, Insert, thread
<1> QED BY <1>1, ThreadInvariant, PTL DEF Spec, NoLostEdit
=============================================================================
