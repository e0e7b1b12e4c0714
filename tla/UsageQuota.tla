----------------------------- MODULE UsageQuota -----------------------------
(***************************************************************************)
(* One workspace's token quota and the turns that run against it:          *)
(*   modules/usage/application/use_cases.py     EnforceLimit, ReserveQuota, *)
(*                   CommitReservation, ReleaseReservation, SetLimits      *)
(*   modules/usage/adapters/sql_repository.py   SqlUsageLedgerRepository   *)
(*   infrastructure/persistence/quota_lock.py   AdvisoryQuotaLock          *)
(*   agents/orchestrator.py         _begin_turn, _admit, _metered, _capture *)
(*                                                                         *)
(* A turn reserves one token before it runs and replaces the reservation   *)
(* by its charge, in one transaction, when its stream ends.  A reservation *)
(* nobody gives back stops counting after Ttl.  Reads are READ COMMITTED:  *)
(* every statement sees what is committed when it runs.                    *)
(*                                                                         *)
(* A rule is one limit with the turns it governs (the workspace, an agent  *)
(* or a provider); one metric and one period stand for all of them.        *)
(***************************************************************************)
EXTENDS Integers, FiniteSets

CONSTANTS
  Turn, Rule,
  Bucket,        \* [Rule -> SUBSET Turn]: whom the rule governs
  Caps,          \* the values an operator may set a limit to
  Ttl,           \* Limits.stream_max_duration_s: the slot's life
  MaxCharge,     \* bound: tokens one turn consumes
  MaxFaults,     \* bound: crashes and failed statements
  None

ASSUME QuotaAssumption ==
  /\ IsFiniteSet(Turn)
  /\ None \notin Turn
  /\ Bucket \in [Rule -> SUBSET Turn]
  /\ Caps \subseteq Nat
  /\ Ttl \in Nat \ {0} /\ MaxCharge \in Nat /\ MaxFaults \in Nat

VARIABLES
  limits,     \* [Rule -> Caps]: usage_limits
  rollup,     \* [Rule -> Nat]: usage_rollups, the bucket's tokens_sum
  ledger,     \* SUBSET Turn: turns with a usage_records row
  reserved,   \* SUBSET Turn: usage_reservations
  ttl,        \* [Turn -> what is left before expires_at]
  lock,       \* who holds the workspace's advisory lock
  stage,      \* [Turn -> where the turn stands]
  cap,        \* [Turn -> [Rule -> limit]]: get_limits, as the request read it
  total,      \* [Turn -> [Rule -> Nat]]: rollup, as the request read it
  inflight,   \* [Turn -> [Rule -> SUBSET Turn]]: the slots it counted
  counted,    \* [Turn -> [Rule -> SUBSET Turn]]: history, whose charges are in total
  done,       \* [Turn -> SUBSET (Rule \X {"total", "held"})]: the reads made so far
  tokens,     \* [Turn -> tokens the turn consumed]
  faults

books == <<limits, rollup, ledger, reserved>>
asked == <<cap, total, inflight, counted, done>>
vars == <<books, ttl, lock, stage, asked, tokens, faults>>

Rules(t) == {r \in Rule : t \in Bucket[r]}

\* Mutant of Live: reserved() counts rows whatever their expires_at.
LiveForever == reserved

\* reserved(): expires_at > now.
Live == {t \in reserved : ttl[t] > 0}

NoRead == [r \in Rule |-> 0]
NoTurns == [r \in Rule |-> {}]

Init ==
  /\ limits \in [Rule -> Caps]
  /\ rollup = NoRead
  /\ ledger = {} /\ reserved = {}
  /\ ttl = [t \in Turn |-> 0]
  /\ lock = None
  /\ stage = [t \in Turn |-> "new"]
  /\ cap = [t \in Turn |-> NoRead]
  /\ total = [t \in Turn |-> NoRead]
  /\ inflight = [t \in Turn |-> NoTurns]
  /\ counted = [t \in Turn |-> NoTurns]
  /\ done = [t \in Turn |-> {}]
  /\ tokens = [t \in Turn |-> 0]
  /\ faults = 0

Fault == faults < MaxFaults /\ faults' = faults + 1
Goto(t, where) == stage' = [stage EXCEPT ![t] = where]

-----------------------------------------------------------------------------
(* ReserveQuota.execute, one transaction.                                  *)

\* Mutant of Hold: the lock is taken outside the transaction and gone at once.
HoldNothing(t) == UNCHANGED lock

\* pg_advisory_xact_lock: wait until nobody holds it, hold it to the end.
Hold(t) == lock = None /\ lock' = t

\* Mutant of EndTransaction: a session lock, which a denial keeps.
EndTransactionHolding(t) ==
  /\ lock' = IF lock = t /\ stage'[t] # "denied" THEN None ELSE lock
  /\ cap' = [cap EXCEPT ![t] = NoRead]
  /\ total' = [total EXCEPT ![t] = NoRead]
  /\ inflight' = [inflight EXCEPT ![t] = NoTurns]
  /\ counted' = [counted EXCEPT ![t] = NoTurns]
  /\ done' = [done EXCEPT ![t] = {}]

\* COMMIT and ROLLBACK both free the lock; what the request read is dropped.
EndTransaction(t) ==
  /\ lock' = IF lock = t THEN None ELSE lock
  /\ cap' = [cap EXCEPT ![t] = NoRead]
  /\ total' = [total EXCEPT ![t] = NoRead]
  /\ inflight' = [inflight EXCEPT ![t] = NoTurns]
  /\ counted' = [counted EXCEPT ![t] = NoTurns]
  /\ done' = [done EXCEPT ![t] = {}]

\* A turn arrives: _begin_turn, up to _admit.
Begin(t) ==
  /\ stage[t] = "new"
  /\ Goto(t, "waiting")
  /\ UNCHANGED <<books, ttl, lock, asked, tokens, faults>>

Ask(t) ==
  /\ stage[t] = "waiting"
  /\ Hold(t)
  /\ Goto(t, "asking")
  /\ cap' = [cap EXCEPT ![t] = limits]
  /\ UNCHANGED <<books, ttl, total, inflight, counted, done, tokens,
                 faults>>

\* EnforceLimit reads the bucket's total, then its live reservations, in two
\* statements, one rule after the other.
ReadTotal(t, r) ==
  /\ stage[t] = "asking" /\ r \in Rules(t)
  /\ <<r, "total">> \notin done[t]
  /\ \A q \in Rule : <<q, "total">> \in done[t] => <<q, "held">> \in done[t]
  /\ total' = [total EXCEPT ![t][r] = rollup[r]]
  /\ counted' = [counted EXCEPT ![t][r] = ledger \cap Bucket[r]]
  /\ done' = [done EXCEPT ![t] = @ \cup {<<r, "total">>}]
  /\ UNCHANGED <<books, ttl, lock, stage, cap, inflight, tokens, faults>>

ReadHeld(t, r) ==
  /\ stage[t] = "asking"
  /\ <<r, "total">> \in done[t] /\ <<r, "held">> \notin done[t]
  /\ inflight' = [inflight EXCEPT ![t][r] = Live \cap Bucket[r]]
  /\ done' = [done EXCEPT ![t] = @ \cup {<<r, "held">>}]
  /\ UNCHANGED <<books, ttl, lock, stage, cap, total, counted, tokens,
                 faults>>

\* evaluate, for the one token the request holds.
Fits(t, r) == total[t][r] + Cardinality(inflight[t][r]) + 1 <= cap[t][r]

Decided(t) ==
  /\ stage[t] = "asking"
  /\ \A r \in Rules(t) : <<r, "held">> \in done[t]

Deny(t) ==
  /\ Decided(t) /\ \E r \in Rules(t) : ~Fits(t, r)
  /\ Goto(t, "denied")
  /\ EndTransaction(t)
  /\ UNCHANGED <<books, ttl, tokens, faults>>

\* Sweep the expired rows, insert the slot, commit.
Reserve(t) ==
  /\ Decided(t) /\ \A r \in Rules(t) : Fits(t, r)
  /\ reserved' = Live \cup {t}
  /\ ttl' = [ttl EXCEPT ![t] = Ttl]
  /\ \/ Goto(t, "admitted") /\ UNCHANGED faults
     \/ Goto(t, "over") /\ Fault        \* committed, and the reply is lost
  /\ EndTransaction(t)
  /\ UNCHANGED <<limits, rollup, ledger, tokens>>

-----------------------------------------------------------------------------
(* The turn: _begin_turn, _metered, _capture.                              *)

\* The agent exists and the user's message is stored.
Open(t) ==
  /\ stage[t] = "admitted"
  /\ Goto(t, "streaming")
  /\ UNCHANGED <<books, ttl, lock, asked, tokens, faults>>

\* An unknown agent, an unknown or deleted thread: _give_back.
OpenFails(t) ==
  /\ stage[t] = "admitted"
  /\ Goto(t, "settling")
  /\ UNCHANGED <<books, ttl, lock, asked, tokens, faults>>

\* Mutant of StreamEnds: the meter is read at the final event, so a stream that
\* is cut or abandoned reads as one that consumed nothing.
StreamEndsUnread(t, n) ==
  /\ stage[t] = "streaming"
  /\ tokens' = [tokens EXCEPT ![t] = n]
  /\ Goto(t, IF n = MaxCharge THEN "settling" ELSE "over")
  /\ UNCHANGED <<books, ttl, lock, asked, faults>>

\* The final event, an error, the cap or a reader who leaves: whatever ended
\* the stream, the finally settles what the meter has counted so far.
StreamEnds(t, n) ==
  /\ stage[t] = "streaming"
  /\ tokens' = [tokens EXCEPT ![t] = n]
  /\ Goto(t, "settling")
  /\ UNCHANGED <<books, ttl, lock, asked, faults>>

\* CommitReservation: release and append in one transaction.
Charge(t) ==
  /\ reserved' = reserved \ {t}
  /\ ledger' = ledger \cup {t}
  /\ rollup' = [r \in Rule |-> rollup[r] + IF t \in Bucket[r] THEN tokens[t] ELSE 0]

\* _capture: a run that consumed nothing only gives its slot back.
Settle(t) ==
  /\ stage[t] = "settling"
  /\ IF tokens[t] > 0 THEN Charge(t)
     ELSE reserved' = reserved \ {t} /\ UNCHANGED <<ledger, rollup>>
  /\ Goto(t, "over")
  /\ UNCHANGED <<limits, ttl, lock, asked, tokens, faults>>

\* Neither commit nor release may fail the answer: the error is logged and
\* the slot stays until it expires.
SettleFails(t) ==
  /\ stage[t] = "settling"
  /\ Fault
  /\ Goto(t, "over")
  /\ UNCHANGED <<books, ttl, lock, asked, tokens>>

\* The process dies; PostgreSQL rolls back a transaction that is open.
Crash(t) ==
  /\ stage[t] \in {"waiting", "asking", "admitted", "streaming", "settling"}
  /\ Fault
  /\ Goto(t, "over")
  /\ EndTransaction(t)
  /\ UNCHANGED <<books, ttl, tokens>>

\* SetLimits replaces the workspace's limits in one transaction.
SetLimits(r, n) ==
  /\ limits[r] # n
  /\ limits' = [limits EXCEPT ![r] = n]
  /\ UNCHANGED <<rollup, ledger, reserved, ttl, lock, stage, asked, tokens, faults>>

Countdown(left) == [t \in Turn |-> IF left[t] > 0 THEN left[t] - 1 ELSE 0]

\* Time passes.  A stream may outlast its slot: the slot's clock starts at the
\* admission, the stream's deadline only when the reader first pulls.
Tick ==
  /\ \E t \in Turn : ttl[t] > 0
  /\ ttl' = Countdown(ttl)
  /\ UNCHANGED <<books, lock, stage, asked, tokens, faults>>

-----------------------------------------------------------------------------

AskStep(t) ==
  \/ Ask(t)
  \/ \E r \in Rule : ReadTotal(t, r) \/ ReadHeld(t, r)
  \/ Deny(t) \/ Reserve(t)

TurnStep(t) ==
  \/ Begin(t) \/ AskStep(t)
  \/ Open(t) \/ OpenFails(t)
  \/ \E n \in 0..MaxCharge : StreamEnds(t, n)
  \/ Settle(t) \/ SettleFails(t) \/ Crash(t)

Next ==
  \/ \E t \in Turn : TurnStep(t)
  \/ \E r \in Rule, n \in Caps : SetLimits(r, n)
  \/ Tick

SafeSpec == Init /\ [][Next]_vars

\* Time passes, and a request that waits for the lock or has it goes on.  Nobody
\* is obliged to ask, and a reader may stop pulling for good.
Spec == SafeSpec /\ WF_vars(Tick) /\ \A t \in Turn : WF_vars(AskStep(t))

-----------------------------------------------------------------------------
(* Properties.                                                             *)

Stages == {"new", "waiting", "asking", "denied", "admitted", "streaming",
           "settling", "over"}

\* Every variable keeps its type, and only a request that is being decided
\* holds the lock.
TypeOK ==
  /\ limits \in [Rule -> Caps] /\ rollup \in [Rule -> Nat]
  /\ ledger \subseteq Turn /\ reserved \subseteq Turn
  /\ ttl \in [Turn -> 0..Ttl]
  /\ lock \in Turn \cup {None}
  /\ stage \in [Turn -> Stages]
  /\ cap \in [Turn -> [Rule -> Nat]] /\ total \in [Turn -> [Rule -> Nat]]
  /\ inflight \in [Turn -> [Rule -> SUBSET Turn]]
  /\ counted \in [Turn -> [Rule -> SUBSET Turn]]
  /\ done \in [Turn -> SUBSET (Rule \X {"total", "held"})]
  /\ tokens \in [Turn -> 0..MaxCharge]
  /\ faults \in 0..MaxFaults
  /\ lock # None => stage[lock] = "asking"

\* Who is inside the transaction has the lock, and only who is inside has
\* read anything.
OneAtATime ==
  \A t \in Turn : IF stage[t] = "asking" THEN lock = t ELSE done[t] = {}

\* While a request is inside, no slot appears that it has not counted.
SlotsOnlyGo ==
  \A t \in Turn : stage[t] = "asking" =>
    \A r \in Rule : <<r, "held">> \in done[t]
                      => Live \cap Bucket[r] \subseteq inflight[t][r]

\* A turn has a slot only after its admission, a charge only at its end.
BooksFollowTurns ==
  \A t \in Turn :
    /\ stage[t] \in {"new", "waiting", "asking", "denied"} => t \notin reserved
    /\ t \in ledger => stage[t] = "over" /\ t \notin reserved

\* What the steps preserve: the parts above together.
QuotaInv == TypeOK /\ OneAtATime /\ SlotsOnlyGo /\ BooksFollowTurns

\* INV-U3: whoever else asks, charges, gives back or expires meanwhile, an
\* admission leaves no more live slots under a rule than the limit it was
\* decided by.
AdmissionsFit ==
  [][\A t \in Turn : (t \notin reserved /\ t \in reserved') =>
       \A r \in Rules(t) : Cardinality(Live' \cap Bucket[r]) <= cap[t][r]]_vars

\* CommitReservation: a request is never charged and still held.
HeldIsNotCharged == reserved \cap ledger = {}

\* 11 section 8: whatever ended the stream, what the turn consumed is in the
\* ledger when it is over, unless a statement failed or the process died.
ConsumedIsBilled ==
  faults = 0 => \A t \in Turn :
    stage[t] = "over" => (tokens[t] > 0 <=> t \in ledger) /\ t \notin reserved

\* A slot nobody gives back stops counting: no crash costs a workspace its
\* headroom for good.
SlotsEnd == \A t \in Turn : (t \in Live) ~> (t \notin Live)

\* Every request for a slot is answered: the lock is always given back.
AsksAreAnswered ==
  \A t \in Turn : (stage[t] = "waiting")
                    ~> (stage[t] \in {"denied", "admitted", "over"})

\* CommitReservation: "a workspace must never be briefly charged twice for one
\* request nor briefly charged for neither".  A decision about to be taken
\* counted every turn that is charged by now, as a charge or as a slot.
NobodyUncounted ==
  \A t \in Turn : Decided(t) =>
    \A r \in Rules(t) : ledger \cap Bucket[r] \subseteq counted[t][r] \cup inflight[t][r]
=============================================================================
