---------------------------- MODULE EventDelivery ----------------------------
(***************************************************************************)
(* What the transactional outbox promises the rest of the platform, with   *)
(* no relay, no Redis and no failures in sight: an event whose transaction *)
(* committed is eventually delivered, an event whose transaction rolled    *)
(* back never is, and an event is delivered only after every event that    *)
(* was already committed when its own transaction began.  Delivering an    *)
(* event a second time changes nothing here: the promise is at-least-once. *)
(***************************************************************************)
EXTENDS Naturals

CONSTANT Event

VARIABLES
  txn,          \* [Event -> TxnState]: the producing transaction of an event
  createdAt,    \* [Event -> Nat]: when that transaction began
  committedAt,  \* [Event -> Nat]: when it committed, 0 until then
  clock,        \* the database server's clock
  delivered     \* SUBSET Event: the events that reached their stream

vars == <<txn, createdAt, committedAt, clock, delivered>>

TxnState == {"none", "open", "committed", "aborted"}

Init ==
  /\ txn = [e \in Event |-> "none"]
  /\ createdAt = [e \in Event |-> 0]
  /\ committedAt = [e \in Event |-> 0]
  /\ clock = 1
  /\ delivered = {}

\* A unit of work begins; every event it appends carries its start time.
Begin(S) ==
  /\ S # {}
  /\ \A e \in S : txn[e] = "none"
  /\ txn' = [e \in Event |-> IF e \in S THEN "open" ELSE txn[e]]
  /\ createdAt' = [e \in Event |-> IF e \in S THEN clock ELSE createdAt[e]]
  /\ clock' = clock + 1
  /\ UNCHANGED <<committedAt, delivered>>

\* The events of one unit of work: they share a start time.
SameTxn(e) == {f \in Event : txn[f] = "open" /\ createdAt[f] = createdAt[e]}

Commit(e) ==
  /\ txn[e] = "open"
  /\ txn' = [f \in Event |-> IF f \in SameTxn(e) THEN "committed" ELSE txn[f]]
  /\ committedAt' =
       [f \in Event |-> IF f \in SameTxn(e) THEN clock ELSE committedAt[f]]
  /\ clock' = clock + 1
  /\ UNCHANGED <<createdAt, delivered>>

Rollback(e) ==
  /\ txn[e] = "open"
  /\ txn' = [f \in Event |-> IF f \in SameTxn(e) THEN "aborted" ELSE txn[f]]
  /\ UNCHANGED <<createdAt, committedAt, clock, delivered>>

\* f was durable before e's transaction even started.
Before(f, e) == txn[f] = "committed" /\ committedAt[f] < createdAt[e]

Deliver(e) ==
  /\ txn[e] = "committed"
  /\ \A f \in Event : Before(f, e) => f \in delivered
  /\ delivered' = delivered \cup {e}
  /\ UNCHANGED <<txn, createdAt, committedAt, clock>>

Next ==
  \/ \E S \in SUBSET Event : Begin(S)
  \/ \E e \in Event : Commit(e) \/ Rollback(e) \/ Deliver(e)

SafeSpec == Init /\ [][Next]_vars

Spec == SafeSpec /\ \A e \in Event : WF_vars(Deliver(e))

=============================================================================
