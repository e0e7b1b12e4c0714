------------------------- MODULE ConversationThread -------------------------
(***************************************************************************)
(* One conversation and everybody who writes to it:                        *)
(*   modules/conversations/application/use_cases.py   AppendMessage,       *)
(*       RenameConversation, PinConversationModel, ExpectClarification,    *)
(*       SoftDeleteConversation                                            *)
(*   modules/conversations/adapters/sql_repository.py SqlConversationRepository *)
(*   agents/orchestrator.py     the turn: _open_turn, _settle_clarification, *)
(*       _persist_reply, _settle_cut, _persist_partial, _write_pending     *)
(*   workers/bootstrap.py       the summary's delivery and failure handlers *)
(*                                                                         *)
(* Every write reads the thread first and writes in a later statement.     *)
(* save writes the whole row if its version is still the one that was      *)
(* read; append_message inserts at the sequence number that was next, which *)
(* uq_msg_seq refuses when somebody took it, and bumps the version         *)
(* whatever it is.                                                         *)
(*                                                                         *)
(* A question is named by the turn that asked it.                          *)
(***************************************************************************)
EXTENDS Integers, Sequences, FiniteSets

CONSTANTS
  Turn,       \* agent turns on the thread
  Edit,       \* requests that rename, re-route or delete it
  News,       \* summary events to deliver into it
  Deletes,    \* SUBSET Edit: the soft deletes among them
  MaxFaults,  \* bound: processes that die
  None

Actor == Turn \cup Edit \cup News

ASSUME ThreadAssumption ==
  /\ Deletes \subseteq Edit
  /\ Turn \cap Edit = {} /\ Turn \cap News = {} /\ Edit \cap News = {}
  /\ None \notin Actor
  /\ MaxFaults \in Nat

VARIABLES
  row,       \* the mutable columns: title, pending_clarification, deleted_at
  version,
  msgs,      \* messages: [seq, by, what]
  stage,     \* [Actor -> where it stands]
  seen,      \* [Actor -> what its read returned, or Nothing]
  saw,       \* [Turn -> the question its pre-flight read: _TurnRecord.pending]
  wants,     \* [Turn -> the question it leaves outstanding]
  todo,      \* [Turn -> what it still owes the thread, in order]
  ledger,    \* SUBSET News: events claimed (DD-09)
  faults

thread == <<row, version, msgs>>
turnVars == <<saw, wants, todo>>
vars == <<thread, stage, seen, turnVars, ledger, faults>>

Nothing == [count |-> 0, version |-> 0, row |-> None]

Init ==
  /\ row = [title |-> None, pending |-> None, deleted |-> FALSE]
  /\ version = 1 /\ msgs = {}
  /\ stage = [a \in Actor |-> "new"]
  /\ seen = [a \in Actor |-> Nothing]
  /\ saw = [t \in Turn |-> None] /\ wants = [t \in Turn |-> None]
  /\ todo = [t \in Turn |-> <<>>]
  /\ ledger = {} /\ faults = 0

Fault == faults < MaxFaults /\ faults' = faults + 1
Goto(a, where) == stage' = [stage EXCEPT ![a] = where]

-----------------------------------------------------------------------------
(* SqlConversationRepository.                                              *)

\* COALESCE(MAX(seq), 0).
TopSeq == CHOOSE n \in {0} \cup {m.seq : m \in msgs} : \A m \in msgs : m.seq <= n

\* get: a deleted thread is returned too, the caller looks at it.
Load(a) ==
  seen' = [seen EXCEPT ![a] = [count |-> TopSeq, version |-> version, row |-> row]]
Forget(a) == seen' = [seen EXCEPT ![a] = Nothing]

\* Mutant of SeqFree: no uq_msg_seq.
SeqAlwaysFree(a) == TRUE

SeqFree(a) == \A m \in msgs : m.seq # seen[a].count + 1

\* append_message, one transaction: insert and bump.
Insert(a, what) ==
  /\ msgs' = msgs \cup {[seq |-> seen[a].count + 1, by |-> a, what |-> what]}
  /\ version' = version + 1
  /\ UNCHANGED row

\* Mutant of Current: the UPDATE has no version in its WHERE.
CurrentAlways(a) == TRUE

Current(a) == seen[a].version = version

\* save: every mutable column, if the row is still at the version read.
Save(a, new) ==
  /\ IF Current(a) THEN row' = new /\ version' = version + 1
     ELSE UNCHANGED <<row, version>>
  /\ UNCHANGED msgs

-----------------------------------------------------------------------------
(* The turn: AgentOrchestrator.                                            *)

\* The turn is over, however: what it held in memory is gone.
EndTurn(t) ==
  /\ Goto(t, "over") /\ Forget(t)
  /\ saw' = [saw EXCEPT ![t] = None]
  /\ wants' = [wants EXCEPT ![t] = None]
  /\ todo' = [todo EXCEPT ![t] = <<>>]

\* The pre-flight reads the outstanding question; a deleted thread has none.
Preflight(t) ==
  /\ stage[t] = "new"
  /\ saw' = [saw EXCEPT ![t] = IF row.deleted THEN None ELSE row.pending]
  /\ Goto(t, "open")
  /\ UNCHANGED <<thread, seen, wants, todo, ledger, faults>>

\* _open_turn stores the user's message; a deleted thread or a lost race is a
\* 409, and the turn never runs.
OpenRead(t) ==
  /\ stage[t] = "open"
  /\ IF row.deleted THEN EndTurn(t)
     ELSE Goto(t, "opening") /\ Load(t) /\ UNCHANGED turnVars
  /\ UNCHANGED <<thread, ledger, faults>>

OpenWrite(t) ==
  /\ stage[t] = "opening"
  /\ IF SeqFree(t)
       THEN Insert(t, "user") /\ Goto(t, "streaming") /\ Forget(t) /\ UNCHANGED turnVars
       ELSE EndTurn(t) /\ UNCHANGED thread
  /\ UNCHANGED <<ledger, faults>>

\* _write_pending costs no statement when the question is what it was.
Changed(t, q) == IF q = saw[t] THEN <<>> ELSE <<"pending">>

\* The stream ends, and what the turn owes its thread is fixed: a final event
\* settles the question it asks (a new one, the one it was answering again, or
\* none) and then the reply; a cut keeps the text that was streamed, if any,
\* and then forgets the question.  When the machinery around the agent raised,
\* the finally goes through the cut once more.
StreamEnds(t) ==
  /\ stage[t] = "streaming"
  /\ \/ /\ \E q \in {None, t, saw[t]} : wants' = [wants EXCEPT ![t] = q]
        /\ todo' = [todo EXCEPT ![t] = Changed(t, wants'[t]) \o <<"reply">>]
        /\ Goto(t, "settling")
        /\ UNCHANGED <<seen, saw>>
     \/ LET forget == Changed(t, None)
            keep == <<"reply">> \o forget
        IN \E owed \in {forget, keep, keep \o keep} :
             IF owed = <<>> THEN EndTurn(t)
             ELSE /\ todo' = [todo EXCEPT ![t] = owed]
                  /\ Goto(t, "settling")
                  /\ UNCHANGED <<seen, saw, wants>>
  /\ UNCHANGED <<thread, ledger, faults>>

Owes(t, what) == stage[t] \in {"settling", "saving"} /\ Head(todo[t]) = what

\* One thing done, skipped, or failed and logged: never an error for the reader.
DoneWith(t) ==
  IF Len(todo[t]) = 1 THEN EndTurn(t)
  ELSE /\ todo' = [todo EXCEPT ![t] = Tail(@)]
       /\ Goto(t, "settling") /\ Forget(t)
       /\ UNCHANGED <<saw, wants>>

\* Mutant of Replied: record.message is not looked at.
RepliedNever(t) == FALSE

\* record.message.
Replied(t) == \E m \in msgs : m.by = t /\ m.what = "reply"

\* expect_clarification refuses a deleted thread.
PendingRead(t) ==
  /\ stage[t] = "settling" /\ Owes(t, "pending")
  /\ IF row.deleted THEN DoneWith(t)
     ELSE Load(t) /\ Goto(t, "saving") /\ UNCHANGED turnVars
  /\ UNCHANGED <<thread, ledger, faults>>

\* A version conflict is logged and swallowed.
PendingSave(t) ==
  /\ stage[t] = "saving" /\ Owes(t, "pending")
  /\ Save(t, [seen[t].row EXCEPT !.pending = wants[t]])
  /\ DoneWith(t)
  /\ UNCHANGED <<ledger, faults>>

\* _persist_reply and _persist_partial.
ReplyRead(t) ==
  /\ stage[t] = "settling" /\ Owes(t, "reply")
  /\ IF Replied(t) \/ row.deleted THEN DoneWith(t)
     ELSE Load(t) /\ Goto(t, "saving") /\ UNCHANGED turnVars
  /\ UNCHANGED <<thread, ledger, faults>>

ReplyWrite(t) ==
  /\ stage[t] = "saving" /\ Owes(t, "reply")
  /\ IF SeqFree(t) THEN Insert(t, "reply") ELSE UNCHANGED thread
  /\ DoneWith(t)
  /\ UNCHANGED <<ledger, faults>>

\* The process dies, or the unwind of an abandoned stream does not finish.
Gone(t) ==
  /\ stage[t] \in {"open", "opening", "streaming", "settling", "saving"}
  /\ Fault
  /\ EndTurn(t)
  /\ UNCHANGED <<thread, ledger>>

-----------------------------------------------------------------------------
(* RenameConversation, PinConversationModel, SoftDeleteConversation.       *)

\* A deleted thread refuses every edit but its deletion, and a lost race is a
\* 409 the caller sees.
EditRead(e) ==
  /\ stage[e] = "new"
  /\ IF row.deleted /\ e \notin Deletes THEN Goto(e, "over") /\ UNCHANGED seen
     ELSE Goto(e, "saving") /\ Load(e)
  /\ UNCHANGED <<thread, turnVars, ledger, faults>>

EditSave(e) ==
  /\ stage[e] = "saving"
  /\ Save(e, IF e \in Deletes THEN [seen[e].row EXCEPT !.deleted = TRUE]
             ELSE [seen[e].row EXCEPT !.title = e])
  /\ Goto(e, "over") /\ Forget(e)
  /\ UNCHANGED <<turnVars, ledger, faults>>

-----------------------------------------------------------------------------
(* build_knowledge_summary_delivery_handler and its sibling for failures.  *)

\* Mutant of Claimed: the ledger's answer is ignored.
ClaimedNever(n) == FALSE

Claimed(n) == n \in ledger

\* Nothing to deliver any more: the summary was destroyed meanwhile.
DeliverNothing(n) ==
  /\ stage[n] = "new"
  /\ Goto(n, "dropped")
  /\ UNCHANGED <<thread, seen, turnVars, ledger, faults>>

\* The transaction claims the event and reads the thread.  A duplicate returns;
\* a deleted thread is an AppError: logged, rolled back, acknowledged.
DeliverRead(n) ==
  /\ stage[n] = "new"
  /\ IF Claimed(n) \/ row.deleted THEN Goto(n, "acking") /\ UNCHANGED seen
     ELSE Goto(n, "saving") /\ Load(n)
  /\ UNCHANGED <<thread, turnVars, ledger, faults>>

\* It appends the message and commits.  A lost race is an AppError too.
DeliverWrite(n) ==
  /\ stage[n] = "saving"
  /\ IF SeqFree(n) THEN Insert(n, "news") /\ ledger' = ledger \cup {n}
     ELSE UNCHANGED <<thread, ledger>>
  /\ Goto(n, "acking") /\ Forget(n)
  /\ UNCHANGED <<turnVars, faults>>

Ack(n) ==
  /\ stage[n] = "acking"
  /\ Goto(n, "acked")
  /\ UNCHANGED <<thread, seen, turnVars, ledger, faults>>

\* The worker dies before XACK: the entry comes back.
Redeliver(n) ==
  /\ stage[n] \in {"saving", "acking"}
  /\ Fault
  /\ Goto(n, "new") /\ Forget(n)
  /\ UNCHANGED <<thread, turnVars, ledger>>

-----------------------------------------------------------------------------

Next ==
  \/ \E t \in Turn :
       \/ Preflight(t) \/ OpenRead(t) \/ OpenWrite(t) \/ StreamEnds(t)
       \/ PendingRead(t) \/ PendingSave(t) \/ ReplyRead(t) \/ ReplyWrite(t)
       \/ Gone(t)
  \/ \E e \in Edit : EditRead(e) \/ EditSave(e)
  \/ \E n \in News :
       DeliverNothing(n) \/ DeliverRead(n) \/ DeliverWrite(n) \/ Ack(n) \/ Redeliver(n)

Spec == Init /\ [][Next]_vars

-----------------------------------------------------------------------------
(* Properties.                                                             *)

Row == [title : Edit \cup {None}, pending : Turn \cup {None}, deleted : BOOLEAN]
Task == {"pending", "reply"}

\* Who is about to write has read, and nobody else remembers a read.
WritersHaveRead ==
  \A a \in Actor :
    IF stage[a] \in {"opening", "saving"}
      THEN seen[a].row \in Row /\ seen[a].version <= version
      ELSE seen[a] = Nothing

\* Every variable keeps its type, and who is about to write has read.
TypeOK ==
  /\ row \in Row /\ version \in Nat
  /\ msgs \subseteq [seq : Nat, by : Actor, what : {"user", "reply", "news"}]
  /\ stage \in [Actor -> {"new", "open", "opening", "streaming", "settling",
                          "saving", "over", "dropped",
                          "acking", "acked"}]
  /\ saw \in [Turn -> Turn \cup {None}] /\ wants \in [Turn -> Turn \cup {None}]
  /\ todo \in [Turn -> Seq(Task)]
  /\ ledger \subseteq News /\ faults \in 0..MaxFaults
  /\ seen \in [Actor -> [count : Nat, version : Nat, row : Row \cup {None}]]
  /\ WritersHaveRead

\* INV-CV1: whoever races whom, the transcript's numbers are 1..n, each once.
SeqsAreGapFree == {m.seq : m \in msgs} = 1..Cardinality(msgs)

\* The optimistic lock: a whole-row save changes one column and puts back the
\* others as they are, so no rename revives a deleted thread and no turn
\* undoes a rename it never saw.
NoLostEdit ==
  [][/\ row'.title # row.title => row'.pending = row.pending
     /\ row'.pending # row.pending => row'.deleted = row.deleted
     /\ row'.deleted # row.deleted => row'.deleted /\ row'.title = row.title]_vars

\* _persist_partial, "once, never twice": however the stream ended, a turn
\* leaves at most one reply.
OneReplyPerTurn ==
  \A t \in Turn : Cardinality({m \in msgs : m.by = t /\ m.what = "reply"}) <= 1

\* The DD-09 ledger: a redelivered event posts its message once.
NewsPostedOnce ==
  \A n \in News : Cardinality({m \in msgs : m.by = n}) <= 1

\* bootstrap.py, the delivery handler: an AppError from the append means "the
\* thread was deleted or is unknown", and anything else is retried; so news
\* that is acknowledged was posted, or the thread is gone.
NewsArrives ==
  \A n \in News : stage[n] = "acked" =>
    row.deleted \/ \E m \in msgs : m.by = n

-----------------------------------------------------------------------------
(* Why: the inductive invariant behind the properties.                     *)

\* What a writer read is a past state of the thread: no longer a transcript
\* than there is now, and the very row when the version has not moved.
ReadsAreOld ==
  \A a \in Actor : stage[a] \in {"opening", "saving"} =>
    /\ seen[a].count <= Cardinality(msgs)
    /\ seen[a].version = version => seen[a].row = row

\* Who is settling still owes something, and who writes a reply has none yet.
RepliesAreFirst ==
  \A t \in Turn :
    /\ stage[t] \in {"settling", "saving"} => todo[t] # <<>>
    /\ stage[t] = "saving" /\ Head(todo[t]) = "reply" => ~Replied(t)

\* The ledger holds exactly the events that were posted, and nobody is about
\* to post one it holds.
LedgerKnowsNews ==
  \A n \in News :
    /\ n \in ledger <=> \E m \in msgs : m.by = n
    /\ stage[n] = "saving" => n \notin ledger

ThreadInv ==
  TypeOK /\ IsFiniteSet(msgs) /\ SeqsAreGapFree /\ ReadsAreOld
  /\ RepliesAreFirst /\ LedgerKnowsNews /\ OneReplyPerTurn /\ NewsPostedOnce
=============================================================================
