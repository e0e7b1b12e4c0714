------------------------ MODULE QuotaAndReplayProofs ------------------------
(***************************************************************************)
(* UsageQuota, for every number of turns, rules and limits: an admission   *)
(* never leaves more live slots under a rule than the limit it was decided *)
(* by, and no turn is held and charged at once.                            *)
(*                                                                         *)
(* EventReplay, for every number of events, runs, losses and days: an      *)
(* event has its effect once unless a sweep of the ledger overtook the run *)
(* that sent it again, a run that nothing disturbs leaves behind no row it *)
(* selected, and no run sends what the group is still owed. OnceInv says   *)
(* where a copy may be while its claim is remembered and where it may not  *)
(* be once the claim is forgotten; a step that brings no copy into flight  *)
(* and only narrows down what a run wants keeps it                         *)
(* (NothingComesIntoFlight). RunIsSound says that what a run has read of   *)
(* Redis still holds when it is used; the others only move the group       *)
(* forward (OthersKeepSound).                                              *)
(*                                                                         *)
(* The two parts share no state.                                           *)
(***************************************************************************)
EXTENDS UsageQuota, EventReplay, FiniteSetTheorems, WellFoundedInduction, TLAPS

-----------------------------------------------------------------------------
(* UsageQuota.                                                             *)

\* Nothing is asked for, held or charged yet.
LEMMA InitQuotaInv == Init => QuotaInv
BY QuotaAssumption
   DEF Init, QuotaInv, TypeOK, OneAtATime, SlotsOnlyGo, BooksFollowTurns,
       NoRead, NoTurns, Stages

\* One action at a time: every variable keeps its type.
LEMMA NextTypeOK == TypeOK /\ OneAtATime /\ [Next]_vars => TypeOK'
<1> SUFFICES ASSUME TypeOK, OneAtATime, [Next]_vars PROVE TypeOK'
  OBVIOUS
<1> USE QuotaAssumption DEF TypeOK, Stages, books, asked
<1>1. CASE UNCHANGED vars
  BY <1>1 DEF vars
<1>2. ASSUME NEW t \in Turn, Begin(t) PROVE TypeOK'
  BY <1>2 DEF Begin, Goto
<1>3. ASSUME NEW t \in Turn, Ask(t) PROVE TypeOK'
  BY <1>3 DEF Ask, Hold, Goto
<1>4. ASSUME NEW t \in Turn, NEW r \in Rule, ReadTotal(t, r) PROVE TypeOK'
  <2>1. total' \in [Turn -> [Rule -> Nat]]
    BY <1>4 DEF ReadTotal
  <2>2. counted' \in [Turn -> [Rule -> SUBSET Turn]]
    BY <1>4 DEF ReadTotal
  <2>3. done' \in [Turn -> SUBSET (Rule \X {"total", "held"})]
    BY <1>4 DEF ReadTotal
  <2> QED BY <1>4, <2>1, <2>2, <2>3 DEF ReadTotal
<1>5. ASSUME NEW t \in Turn, NEW r \in Rule, ReadHeld(t, r) PROVE TypeOK'
  <2>1. inflight' \in [Turn -> [Rule -> SUBSET Turn]]
    BY <1>5 DEF ReadHeld, Live
  <2>2. done' \in [Turn -> SUBSET (Rule \X {"total", "held"})]
    BY <1>5 DEF ReadHeld
  <2> QED BY <1>5, <2>1, <2>2 DEF ReadHeld
<1>6. ASSUME NEW t \in Turn, NEW s \in Stages, EndTransaction(t), Goto(t, s)
      PROVE  /\ cap' \in [Turn -> [Rule -> Nat]] /\ total' \in [Turn -> [Rule -> Nat]]
             /\ inflight' \in [Turn -> [Rule -> SUBSET Turn]]
             /\ counted' \in [Turn -> [Rule -> SUBSET Turn]]
             /\ done' \in [Turn -> SUBSET (Rule \X {"total", "held"})]
             /\ stage' \in [Turn -> Stages]
             /\ lock' \in Turn \cup {None}
             /\ lock' # None => stage'[lock'] = "asking"
  <2>1. /\ cap' \in [Turn -> [Rule -> Nat]] /\ total' \in [Turn -> [Rule -> Nat]]
        /\ inflight' \in [Turn -> [Rule -> SUBSET Turn]]
        /\ counted' \in [Turn -> [Rule -> SUBSET Turn]]
        /\ done' \in [Turn -> SUBSET (Rule \X {"total", "held"})]
    BY <1>6 DEF EndTransaction, NoRead, NoTurns
  <2>2. lock' = IF lock = t THEN None ELSE lock
    BY <1>6 DEF EndTransaction
  <2>3. stage' = [stage EXCEPT ![t] = s]
    BY <1>6 DEF Goto
  <2> QED BY <2>1, <2>2, <2>3
<1>7. ASSUME NEW t \in Turn, Deny(t) PROVE TypeOK'
  BY <1>6, <1>7 DEF Deny
<1>8. ASSUME NEW t \in Turn, Reserve(t) PROVE TypeOK'
  <2>1. PICK s \in Stages : Goto(t, s)
    BY <1>8 DEF Reserve
  <2>2. /\ reserved' \subseteq Turn /\ ttl' \in [Turn -> 0..Ttl]
        /\ faults' \in 0..MaxFaults
        /\ UNCHANGED <<limits, rollup, ledger, tokens>>
    BY <1>8 DEF Reserve, Live, Fault
  <2>3. EndTransaction(t)
    BY <1>8 DEF Reserve
  <2> QED BY <1>6, <2>1, <2>2, <2>3
<1>9. ASSUME NEW t \in Turn, Open(t) PROVE TypeOK'
  BY <1>9 DEF Open, Goto
<1>10. ASSUME NEW t \in Turn, OpenFails(t) PROVE TypeOK'
  BY <1>10 DEF OpenFails, Goto
<1>11. ASSUME NEW t \in Turn, NEW n \in 0..MaxCharge, StreamEnds(t, n) PROVE TypeOK'
  BY <1>11 DEF StreamEnds, Goto
<1>12. ASSUME NEW t \in Turn, Settle(t) PROVE TypeOK'
  <2>1. rollup' \in [Rule -> Nat]
    <3>1. CASE tokens[t] > 0
      <4>1. \A r \in Rule : rollup[r] \in Nat /\ tokens[t] \in Nat
        OBVIOUS
      <4>2. rollup' = [r \in Rule |-> rollup[r] + IF t \in Bucket[r] THEN tokens[t] ELSE 0]
        BY <1>12, <3>1 DEF Settle, Charge
      <4>3. \A r \in Rule : rollup[r] + (IF t \in Bucket[r] THEN tokens[t] ELSE 0) \in Nat
        BY <4>1
      <4> QED BY <4>2, <4>3
    <3>2. CASE ~(tokens[t] > 0)
      BY <1>12, <3>2 DEF Settle
    <3> QED BY <3>1, <3>2
  <2>2. /\ ledger' \subseteq Turn /\ reserved' \subseteq Turn
        /\ UNCHANGED <<limits, ttl, lock, asked, tokens, faults>>
        /\ stage[t] = "settling" /\ stage' = [stage EXCEPT ![t] = "over"]
    BY <1>12 DEF Settle, Charge, Goto
  <2> QED BY <2>1, <2>2
<1>13. ASSUME NEW t \in Turn, SettleFails(t) PROVE TypeOK'
  BY <1>13 DEF SettleFails, Goto, Fault
<1>14. ASSUME NEW t \in Turn, Crash(t) PROVE TypeOK'
  <2>1. Goto(t, "over") /\ EndTransaction(t) /\ faults' \in 0..MaxFaults
        /\ UNCHANGED <<books, ttl, tokens>>
    BY <1>14 DEF Crash, Fault
  <2> QED BY <1>6, <2>1
<1>15. ASSUME NEW r \in Rule, NEW n \in Caps, SetLimits(r, n) PROVE TypeOK'
  BY <1>15 DEF SetLimits
<1>16. CASE Tick
  BY <1>16 DEF Tick, Countdown
<1> QED
  BY <1>1, <1>2, <1>3, <1>4, <1>5, <1>7, <1>8, <1>9, <1>10, <1>11, <1>12,
     <1>13, <1>14, <1>15, <1>16 DEF Next, TurnStep, AskStep

\* One action at a time: the lock keeps the slots a request counted.
LEMMA NextQuotaInv == QuotaInv /\ [Next]_vars => QuotaInv'
<1> SUFFICES ASSUME QuotaInv, [Next]_vars PROVE QuotaInv'
  OBVIOUS
<1> USE QuotaAssumption DEF books, asked
<1>0. TypeOK /\ TypeOK'
  BY NextTypeOK DEF QuotaInv
<1> DEFINE Rest == OneAtATime /\ SlotsOnlyGo /\ BooksFollowTurns
<1>a. SUFFICES Rest'
  BY <1>0 DEF QuotaInv
<1> USE DEF QuotaInv, OneAtATime, SlotsOnlyGo, BooksFollowTurns, TypeOK, Live
<1>1. CASE UNCHANGED vars
  BY <1>1 DEF vars
<1>2. ASSUME NEW t \in Turn, Begin(t) PROVE Rest'
  BY <1>2 DEF Begin, Goto
<1>3. ASSUME NEW t \in Turn, Ask(t) PROVE Rest'
  <2>1. \A u \in Turn : stage[u] # "asking"
    BY <1>3 DEF Ask, Hold
  <2> QED BY <1>3, <2>1 DEF Ask, Hold, Goto
<1>4. ASSUME NEW t \in Turn, NEW r \in Rule, ReadTotal(t, r) PROVE Rest'
  BY <1>4 DEF ReadTotal
<1>5. ASSUME NEW t \in Turn, NEW r \in Rule, ReadHeld(t, r) PROVE Rest'
  <2>1. /\ UNCHANGED <<stage, lock, reserved, ledger, ttl>> /\ stage[t] = "asking"
        /\ inflight' = [inflight EXCEPT ![t][r] = Live \cap Bucket[r]]
        /\ done' = [done EXCEPT ![t] = @ \cup {<<r, "held">>}]
    BY <1>5 DEF ReadHeld
  <2>2. ASSUME NEW u \in Turn, stage[u] = "asking", NEW q \in Rule,
               <<q, "held">> \in done'[u]
        PROVE  Live \cap Bucket[q] \subseteq inflight'[u][q]
    <3>1. CASE u = t /\ q = r
      BY <2>1, <3>1
    <3>2. CASE ~(u = t /\ q = r)
      <4>1. inflight'[u][q] = inflight[u][q]
        BY <2>1, <3>2
      <4>2. <<q, "held">> \in done[u]
        BY <2>1, <2>2, <3>2
      <4> QED BY <4>1, <4>2, <2>2
    <3> QED BY <3>1, <3>2
  <2>3. SlotsOnlyGo'
    BY <2>1, <2>2
  <2>4. OneAtATime' /\ BooksFollowTurns'
    BY <2>1
  <2> QED BY <2>3, <2>4
<1>7. ASSUME NEW t \in Turn, Deny(t) PROVE Rest'
  BY <1>7 DEF Deny, Decided, Goto, EndTransaction
<1>8. ASSUME NEW t \in Turn, Reserve(t) PROVE Rest'
  <2>1. \A u \in Turn : u # t => stage[u] # "asking" /\ stage'[u] = stage[u]
    BY <1>8 DEF Reserve, Decided, Goto
  <2>2. stage'[t] \in {"admitted", "over"} /\ t \notin ledger /\ ledger' = ledger
    BY <1>8 DEF Reserve, Decided, Goto
  <2>3. reserved' = Live \cup {t} /\ done' = [done EXCEPT ![t] = {}]
    BY <1>8 DEF Reserve, EndTransaction
  <2>4. OneAtATime' /\ SlotsOnlyGo'
    BY <2>1, <2>2, <2>3
  <2> QED BY <2>1, <2>2, <2>3, <2>4
<1>9. ASSUME NEW t \in Turn, Open(t) PROVE Rest'
  BY <1>9 DEF Open, Goto
<1>10. ASSUME NEW t \in Turn, OpenFails(t) PROVE Rest'
  BY <1>10 DEF OpenFails, Goto
<1>11. ASSUME NEW t \in Turn, NEW n \in 0..MaxCharge, StreamEnds(t, n) PROVE Rest'
  BY <1>11 DEF StreamEnds, Goto
<1>12. ASSUME NEW t \in Turn, Settle(t) PROVE Rest'
  BY <1>12 DEF Settle, Charge, Goto
<1>13. ASSUME NEW t \in Turn, SettleFails(t) PROVE Rest'
  BY <1>13 DEF SettleFails, Goto
<1>14. ASSUME NEW t \in Turn, Crash(t) PROVE Rest'
  BY <1>14 DEF Crash, Goto, EndTransaction
<1>15. ASSUME NEW r \in Rule, NEW n \in Caps, SetLimits(r, n) PROVE Rest'
  BY <1>15 DEF SetLimits
<1>16. CASE Tick
  <2>1. \A u \in Turn : ttl'[u] > 0 => ttl[u] > 0
    BY <1>16 DEF Tick, Countdown
  <2> QED BY <1>16, <2>1 DEF Tick
<1> QED
  BY <1>1, <1>2, <1>3, <1>4, <1>5, <1>7, <1>8, <1>9, <1>10, <1>11, <1>12,
     <1>13, <1>14, <1>15, <1>16 DEF Next, TurnStep, AskStep

\* The quota's variables keep their types and only a request under decision
\* holds the workspace's lock.
THEOREM QuotaTypes == SafeSpec => []TypeOK
<1>1. QuotaInv => TypeOK
  BY DEF QuotaInv
<1> QED BY InitQuotaInv, NextQuotaInv, <1>1, PTL DEF SafeSpec

\* A turn is never charged while its reservation still counts against the
\* workspace: commit replaces one by the other.
THEOREM QuotaChargesOnce == SafeSpec => []HeldIsNotCharged
<1>1. QuotaInv => HeldIsNotCharged
  BY DEF QuotaInv, TypeOK, BooksFollowTurns, HeldIsNotCharged
<1> QED BY InitQuotaInv, NextQuotaInv, <1>1, PTL DEF SafeSpec

\* INV-U3 for any number of concurrent turns, rules and limits: an admission
\* leaves at most as many live slots as the limit it was decided by.
THEOREM QuotaAdmissionsFit == SafeSpec => AdmissionsFit
<1> DEFINE Adm == \A t \in Turn : (t \notin reserved /\ t \in reserved') =>
       \A r \in Rules(t) : Cardinality(Live' \cap Bucket[r]) <= cap[t][r]
<1>1. QuotaInv /\ [Next]_vars => [Adm]_vars
  <2> SUFFICES ASSUME QuotaInv, Next, NEW t \in Turn, t \notin reserved,
                      t \in reserved', NEW r \in Rules(t)
               PROVE  Cardinality(Live' \cap Bucket[r]) <= cap[t][r]
    OBVIOUS
  <2> USE QuotaAssumption
  <2>0. r \in Rule /\ TypeOK
    BY DEF Rules, QuotaInv
  <2>1. PICK u \in Turn : Reserve(u)
    BY DEF Next, TurnStep, AskStep, Begin, Ask, ReadTotal, ReadHeld, Deny,
           Open, OpenFails, StreamEnds, Settle, Charge, SettleFails, Crash,
           SetLimits, Tick, books
  <2>2. u = t
    BY <2>1 DEF Reserve, Live
  <2>3. Live' \cap Bucket[r] \subseteq inflight[t][r] \cup {t}
    <3>1. Live \cap Bucket[r] \subseteq inflight[t][r]
      BY <2>0, <2>1, <2>2 DEF Reserve, Decided, QuotaInv, SlotsOnlyGo
    <3>2. Live' \subseteq Live \cup {t}
      BY <2>1, <2>2 DEF Reserve, Live
    <3> QED BY <3>1, <3>2
  <2>4. IsFiniteSet(inflight[t][r])
    BY <2>0, FS_Subset DEF TypeOK
  <2>5. /\ IsFiniteSet(inflight[t][r] \cup {t})
        /\ Cardinality(inflight[t][r] \cup {t}) <= Cardinality(inflight[t][r]) + 1
        /\ Cardinality(inflight[t][r]) \in Nat
    <3>1. Cardinality(inflight[t][r]) \in Nat
      BY <2>4, FS_CardinalityType
    <3>2. /\ IsFiniteSet(inflight[t][r] \cup {t})
          /\ Cardinality(inflight[t][r] \cup {t}) =
             IF t \in inflight[t][r] THEN Cardinality(inflight[t][r])
             ELSE Cardinality(inflight[t][r]) + 1
      BY <2>4, FS_AddElement
    <3> QED BY <3>1, <3>2
  <2>6. /\ IsFiniteSet(Live' \cap Bucket[r])
        /\ Cardinality(Live' \cap Bucket[r]) <= Cardinality(inflight[t][r] \cup {t})
    BY <2>3, <2>5, FS_Subset
  <2>7. Cardinality(Live' \cap Bucket[r]) \in Nat
        /\ Cardinality(inflight[t][r] \cup {t}) \in Nat
    BY <2>5, <2>6, FS_CardinalityType
  <2>8. total[t][r] + Cardinality(inflight[t][r]) + 1 <= cap[t][r]
    BY <2>1, <2>2 DEF Reserve, Fits
  <2>9. total[t][r] \in Nat /\ cap[t][r] \in Nat
    BY <2>0 DEF TypeOK
  <2> QED BY <2>5, <2>6, <2>7, <2>8, <2>9
<1> QED BY InitQuotaInv, NextQuotaInv, <1>1, PTL DEF SafeSpec, AdmissionsFit

\* Only a settlement and a fault end a turn that was admitted: every other step leaves the
\* turns that are over, their meters and their charges as they are.
LEMMA NextConsumedIsBilled ==
  QuotaInv /\ ConsumedIsBilled /\ [Next]_vars => ConsumedIsBilled'
<1> SUFFICES ASSUME QuotaInv, ConsumedIsBilled, [Next]_vars PROVE ConsumedIsBilled'
  OBVIOUS
<1> USE QuotaAssumption DEF books, asked
<1>0. TypeOK /\ BooksFollowTurns
  BY DEF QuotaInv
<1>1. ASSUME faults' = faults + 1 PROVE ConsumedIsBilled'
  BY <1>0, <1>1 DEF ConsumedIsBilled, TypeOK
<1>2. ASSUME UNCHANGED <<faults, ledger>>, reserved' \subseteq reserved,
             \A u \in Turn : stage'[u] = "over" => stage[u] = "over" /\ tokens'[u] = tokens[u]
      PROVE  ConsumedIsBilled'
  BY <1>2 DEF ConsumedIsBilled
<1>3. CASE UNCHANGED vars
  BY <1>2, <1>3 DEF vars
<1>4. ASSUME NEW t \in Turn,
             \/ Begin(t) \/ Ask(t) \/ Open(t) \/ OpenFails(t) \/ Deny(t)
             \/ \E r \in Rule : ReadTotal(t, r) \/ ReadHeld(t, r)
      PROVE  ConsumedIsBilled'
  <2>1. /\ UNCHANGED <<faults, ledger, reserved, tokens>>
        /\ \E s \in Stages \ {"over"} : Goto(t, s) \/ UNCHANGED stage
    BY <1>4 DEF Begin, Ask, Open, OpenFails, Deny, ReadTotal, ReadHeld, Stages
  <2>2. \A u \in Turn : stage'[u] = "over" => stage[u] = "over"
    BY <1>0, <2>1 DEF Goto, TypeOK
  <2> QED BY <1>2, <2>1, <2>2
<1>5. ASSUME NEW t \in Turn, Reserve(t) PROVE ConsumedIsBilled'
  <2>1. CASE Fault
    BY <1>1, <2>1 DEF Fault
  <2>2. CASE Goto(t, "admitted") /\ UNCHANGED faults
    <3>1. /\ UNCHANGED <<faults, ledger, tokens>> /\ reserved' \subseteq reserved \cup {t}
          /\ \A u \in Turn : stage'[u] = "over" => stage[u] = "over" /\ u # t
      BY <1>0, <1>5, <2>2 DEF Reserve, Live, Goto, TypeOK
    <3> QED BY <3>1 DEF ConsumedIsBilled
  <2> QED BY <1>5, <2>1, <2>2 DEF Reserve
<1>6. ASSUME NEW t \in Turn, NEW n \in 0..MaxCharge, StreamEnds(t, n) PROVE ConsumedIsBilled'
  <2>1. /\ UNCHANGED <<faults, ledger, reserved>>
        /\ \A u \in Turn : stage'[u] = "over" => stage[u] = "over" /\ tokens'[u] = tokens[u]
    BY <1>0, <1>6 DEF StreamEnds, Goto, TypeOK
  <2> QED BY <1>2, <2>1
<1>7. ASSUME NEW t \in Turn, Settle(t) PROVE ConsumedIsBilled'
  <2>1. /\ UNCHANGED <<faults, tokens>> /\ t \notin ledger /\ reserved' = reserved \ {t}
        /\ ledger' = IF tokens[t] > 0 THEN ledger \cup {t} ELSE ledger
        /\ \A u \in Turn : u # t => stage'[u] = stage[u]
    BY <1>0, <1>7 DEF Settle, Charge, Goto, TypeOK, BooksFollowTurns
  <2> QED BY <2>1 DEF ConsumedIsBilled
<1>8. ASSUME NEW t \in Turn, SettleFails(t) \/ Crash(t) PROVE ConsumedIsBilled'
  BY <1>1, <1>8 DEF SettleFails, Crash, Fault
<1>9. ASSUME NEW r \in Rule, NEW n \in Caps, SetLimits(r, n) PROVE ConsumedIsBilled'
  BY <1>2, <1>9 DEF SetLimits
<1>10. CASE Tick
  BY <1>2, <1>10 DEF Tick
<1> QED
  BY <1>3, <1>4, <1>5, <1>6, <1>7, <1>8, <1>9, <1>10 DEF Next, TurnStep, AskStep

\* What a turn consumed is billed and its slot is back once it is over, whatever ended its
\* stream and whoever else runs, unless a statement failed or a process died.
THEOREM QuotaBillsWhatIsConsumed == SafeSpec => []ConsumedIsBilled
<1>1. Init => ConsumedIsBilled
  BY DEF Init, ConsumedIsBilled
<1> QED BY InitQuotaInv, NextQuotaInv, NextConsumedIsBilled, <1>1, PTL DEF SafeSpec

-----------------------------------------------------------------------------
(* EventReplay: Redis.                                                     *)

\* Every non-empty set of naturals has a least member.
LEMMA LeastOfNaturals ==
  ASSUME NEW T \in SUBSET Nat, T # {}
  PROVE  \E x \in T : \A y \in T : x <= y
<1> DEFINE R == OpToRel(<, Nat)
<1>1. IsWellFoundedOn(R, Nat)
  BY NatLessThanWellFounded
<1>2. \A x, y \in Nat : x < y => <<x, y>> \in R
  BY DEF OpToRel
<1> HIDE DEF R
<1>3. PICK x \in T : \A y \in T : ~(<<y, x>> \in R)
  BY <1>1, WFMin
<1>4. \A y \in T : ~(y < x)
  BY <1>2, <1>3
<1> QED BY <1>4

\* A non-empty bounded set of naturals has a greatest member.
LEMMA GreatestOfNaturals ==
  ASSUME NEW T \in SUBSET Nat, T # {}, NEW n \in Nat, \A x \in T : x < n
  PROVE  \E x \in T : \A y \in T : y <= x
<1> DEFINE U == {b \in Nat : \A x \in T : x <= b}
<1>1. U \in SUBSET Nat /\ n \in U
  OBVIOUS
<1> HIDE DEF U
<1>2. PICK b \in U : \A c \in U : b <= c
  BY <1>1, LeastOfNaturals
<1>3. b \in Nat /\ \A x \in T : x <= b
  BY <1>2 DEF U
<1>4. CASE b \in T
  BY <1>3, <1>4
<1>5. CASE b \notin T
  <2>0. PICK t \in T : TRUE
    OBVIOUS
  <2>1. b # 0
    <3>1. t \in Nat /\ t <= b /\ t # b
      BY <1>3, <1>5
    <3> QED BY <1>3, <3>1
  <2>2. b - 1 \in Nat /\ \A x \in T : x <= b - 1
    BY <1>3, <1>5, <2>1
  <2>3. b <= b - 1
    BY <1>2, <2>2 DEF U
  <2> QED BY <1>3, <2>3
<1> QED BY <1>4, <1>5

\* Of several rows one is the oldest.
LEMMA FirstIsThere ==
  ASSUME StoreTypes, NEW S \in SUBSET Event, S # {}, \A e \in S : row[e].state # "none"
  PROVE  First(S) \in S
<1> DEFINE C == {row[e].created : e \in S}
<1>1. C \in SUBSET Nat /\ C # {}
  BY DEF StoreTypes
<1>2. PICK c \in C : \A d \in C : c <= d
  <2> HIDE DEF C
  <2> QED BY <1>1, LeastOfNaturals
<1> DEFINE T == {e \in S : row[e].created = c}
<1>3. T \in SUBSET Nat /\ T # {}
  BY <1>2, EventAssumption
<1>4. PICK t \in T : \A u \in T : t <= u
  <2> HIDE DEF T
  <2> QED BY <1>3, LeastOfNaturals
<1>5. ASSUME NEW d \in S, d # t PROVE Earlier(t, d)
  <2>1. row[t].created = c /\ c <= row[d].created /\ c \in Nat /\ row[d].created \in Nat
    BY <1>1, <1>2, <1>4
  <2>2. t \in Nat /\ d \in Nat
    BY <1>4, EventAssumption
  <2>3. row[d].created = c => t <= d
    BY <1>4
  <2> QED BY <1>5, <2>1, <2>2, <2>3 DEF Earlier
<1> QED BY <1>4, <1>5 DEF First

\* Who is owed: some entry past the cursor, or pending.
LEMMA OwedMeans ==
  /\ \A e : e \in Owed <=> /\ redis.made
                           /\ \E x \in redis.log : /\ x.ev = e
                                                   /\ x.id > redis.cursor \/ x.id \in redis.pel
  /\ \A e : e \in Owed' <=> /\ redis'.made
                            /\ \E x \in redis'.log :
                                 /\ x.ev = e
                                 /\ x.id > redis'.cursor \/ x.id \in redis'.pel
BY DEF Owed, OwedIn, Owes

\* XADD: one more entry, which the group is owed; with a MAXLEN others may go.
LEMMA Xadds ==
  ASSUME StreamIds, NEW e \in Event, NEW head, Xadd(e, head)
  PROVE  /\ StreamIds'
         /\ redis' = [redis EXCEPT !.log = redis'.log]
         /\ [id |-> nextId, ev |-> e] \in redis'.log
         /\ redis'.log \subseteq redis.log \cup {[id |-> nextId, ev |-> e]}
         /\ Owed' \subseteq Owed \cup {e} /\ (redis.made => e \in Owed')
         /\ head = 0 => /\ redis'.log = redis.log \cup {[id |-> nextId, ev |-> e]}
                        /\ Owed \subseteq Owed'
                        /\ Cardinality(redis'.log) = Cardinality(redis.log) + 1
<1> DEFINE oldest == {x \in redis.log : Cardinality({y \in redis.log : y.id < x.id}) < head}
           new == [id |-> nextId, ev |-> e]
           log == (redis.log \ oldest) \cup {new}
<1>1. /\ redis \in [log : SUBSET [id : Nat, ev : Event], made : BOOLEAN, cursor : Nat,
                    pel : SUBSET Nat, dlq : SUBSET Event]
      /\ IsFiniteSet(redis.log) /\ nextId \in Nat /\ nextId' = nextId + 1
      /\ \A x \in redis.log : x.id < nextId /\ x.id \in Nat
      /\ \A x, y \in redis.log : x.id = y.id => x = y
      /\ redis.cursor < nextId /\ redis.cursor \in Nat
  BY DEF StreamIds, Xadd
<1>2. redis' = [redis EXCEPT !.log = log]
  BY DEF Xadd
<1>3. new \in [id : Nat, ev : Event] /\ new.id = nextId /\ new.ev = e /\ new \notin redis.log
  BY <1>1
<1>4. head = 0 => oldest = {}
  <2> SUFFICES ASSUME head = 0, NEW x \in redis.log,
                      Cardinality({y \in redis.log : y.id < x.id}) < 0
               PROVE  FALSE
    OBVIOUS
  <2>1. IsFiniteSet({y \in redis.log : y.id < x.id})
    BY <1>1, FS_Subset
  <2> QED BY <2>1, FS_CardinalityType
<1>5. IsFiniteSet(log) /\ IsFiniteSet(redis.log \cup {new})
      /\ Cardinality(redis.log \cup {new}) = Cardinality(redis.log) + 1
  <2>1. IsFiniteSet(redis.log \ oldest)
    <3> HIDE DEF oldest
    <3>1. redis.log \ oldest \in SUBSET redis.log
      OBVIOUS
    <3> QED BY <1>1, <3>1, FS_Subset
  <2> QED BY <1>1, <1>3, <2>1, FS_AddElement
<1> HIDE DEF oldest, new
<1>6. /\ redis'.log = log /\ redis'.made = redis.made /\ redis'.cursor = redis.cursor
      /\ redis'.pel = redis.pel /\ redis'.dlq = redis.dlq
  BY <1>1, <1>2
<1>7. StreamIds'
  <2>1. log \in SUBSET [id : Nat, ev : Event]
    BY <1>1, <1>3
  <2>2. redis' \in [log : SUBSET [id : Nat, ev : Event], made : BOOLEAN, cursor : Nat,
                    pel : SUBSET Nat, dlq : SUBSET Event]
    BY <1>1, <1>2, <2>1
  <2>3. \A x \in log : x.id < nextId'
    BY <1>1, <1>3
  <2>4. \A x, y \in log : x.id = y.id => x = y
    BY <1>1, <1>3
  <2> HIDE DEF log
  <2> QED BY <1>1, <1>5, <1>6, <2>2, <2>3, <2>4 DEF StreamIds
<1>8. Owed' \subseteq Owed \cup {e} /\ (redis.made => e \in Owed')
  BY <1>1, <1>3, <1>6, OwedMeans
<1>9. head = 0 => /\ redis'.log = redis.log \cup {new} /\ Owed \subseteq Owed'
                  /\ Cardinality(redis'.log) = Cardinality(redis.log) + 1
  BY <1>4, <1>5, <1>6, OwedMeans
<1> QED BY <1>1, <1>2, <1>6, <1>7, <1>8, <1>9 DEF new

\* A group that is missing is created at the tail: it is owed nothing.
LEMMA GroupsAreMade ==
  ASSUME StreamIds, redis' = WithGroup, nextId' = nextId
  PROVE  /\ StreamIds' /\ redis'.made /\ Owed' = Owed
         /\ redis'.log = redis.log /\ redis'.dlq = redis.dlq
         /\ redis.made => redis' = redis
<1>1. CASE redis.made
  <2>1. redis' = redis
    BY <1>1 DEF WithGroup
  <2>2. StreamIds'
    BY <2>1 DEF StreamIds
  <2> QED BY <1>1, <2>1, <2>2, OwedMeans
<1>2. CASE ~redis.made
  <2>1. /\ redis \in [log : SUBSET [id : Nat, ev : Event], made : BOOLEAN, cursor : Nat,
                      pel : SUBSET Nat, dlq : SUBSET Event]
        /\ IsFiniteSet(redis.log) /\ nextId \in Nat /\ redis.cursor < nextId
        /\ \A x \in redis.log : x.id < nextId /\ x.id \in Nat
        /\ \A x, y \in redis.log : x.id = y.id => x = y
    BY DEF StreamIds
  <2>2. Tail \in Nat /\ Tail < nextId /\ \A x \in redis.log : x.id <= Tail
    <3>1. CASE redis.log = {}
      BY <2>1, <3>1 DEF Tail, StreamIds
    <3>2. CASE redis.log # {}
      <4>1. Ids(redis.log) \in SUBSET Nat /\ Ids(redis.log) # {}
            /\ \A i \in Ids(redis.log) : i < nextId
        BY <2>1, <3>2 DEF Ids
      <4>2. \E i \in Ids(redis.log) : \A j \in Ids(redis.log) : j <= i
        BY <2>1, <4>1, GreatestOfNaturals
      <4>3. Tail \in Ids(redis.log) /\ \A j \in Ids(redis.log) : j <= Tail
        BY <3>2, <4>2 DEF Tail
      <4>4. \A x \in redis.log : x.id \in Ids(redis.log)
        BY DEF Ids
      <4> QED BY <4>1, <4>3, <4>4
    <3> QED BY <3>1, <3>2
  <2>3. redis' = [redis EXCEPT !.made = TRUE, !.cursor = Tail, !.pel = {}]
    BY <1>2 DEF WithGroup
  <2> HIDE DEF Tail
  <2>4. /\ redis' \in [log : SUBSET [id : Nat, ev : Event], made : BOOLEAN, cursor : Nat,
                       pel : SUBSET Nat, dlq : SUBSET Event]
        /\ redis'.made /\ redis'.cursor = Tail /\ redis'.pel = {}
        /\ redis'.log = redis.log /\ redis'.dlq = redis.dlq
    BY <2>1, <2>2, <2>3
  <2>5. StreamIds'
    BY <2>1, <2>2, <2>4 DEF StreamIds
  <2>6. \A x \in redis.log : ~(x.id > Tail)
    BY <2>1, <2>2
  <2> QED BY <1>2, <2>4, <2>5, <2>6, OwedMeans
<1> QED BY <1>1, <1>2 DEF StreamIds

\* What Redis gives back after a loss is no more than it had.
LEMMA LossesOnlyLose ==
  ASSUME StreamIds, Lose
  PROVE  StreamIds' /\ Owed' \subseteq Owed /\ redis'.dlq \subseteq redis.dlq
<1>1. /\ redis \in [log : SUBSET [id : Nat, ev : Event], made : BOOLEAN, cursor : Nat,
                    pel : SUBSET Nat, dlq : SUBSET Event]
      /\ IsFiniteSet(redis.log) /\ nextId \in Nat /\ nextId' = nextId
      /\ redis.cursor < nextId /\ redis.cursor \in Nat
      /\ \A x \in redis.log : x.id < nextId /\ x.id \in Nat
      /\ \A x, y \in redis.log : x.id = y.id => x = y
  BY DEF StreamIds, Lose
<1>2. CASE redis' = Flushed
  <2>1. /\ redis' \in [log : SUBSET [id : Nat, ev : Event], made : BOOLEAN, cursor : Nat,
                       pel : SUBSET Nat, dlq : SUBSET Event]
        /\ redis'.log = {} /\ redis'.cursor = 0 /\ redis'.dlq = {}
    BY <1>2 DEF Flushed
  <2>2. StreamIds'
    BY <1>1, <2>1, FS_EmptySet DEF StreamIds
  <2> QED BY <2>1, <2>2, OwedMeans
<1>3. ASSUME NEW last \in Ids(redis.log), redis' = UpTo(last)
      PROVE  StreamIds' /\ Owed' \subseteq Owed /\ redis'.dlq \subseteq redis.dlq
  <2>1. last \in Nat /\ last < nextId
    BY <1>1 DEF Ids
  <2>2. /\ redis'.log = {x \in redis.log : x.id <= last} /\ redis'.dlq = redis.dlq
        /\ redis'.cursor = (IF redis.cursor > last THEN last ELSE redis.cursor)
        /\ redis'.pel = {i \in redis.pel : i <= last} /\ redis'.made = redis.made
        /\ redis' \in [log : SUBSET [id : Nat, ev : Event], made : BOOLEAN, cursor : Nat,
                       pel : SUBSET Nat, dlq : SUBSET Event]
    BY <1>1, <1>3, <2>1 DEF UpTo
  <2>3. IsFiniteSet(redis'.log)
    BY <1>1, <2>2, FS_Subset
  <2>4. StreamIds'
    BY <1>1, <2>1, <2>2, <2>3 DEF StreamIds
  <2>5. ASSUME NEW x \in redis'.log, x.id > redis'.cursor \/ x.id \in redis'.pel
        PROVE  x \in redis.log /\ (x.id > redis.cursor \/ x.id \in redis.pel)
    BY <1>1, <2>1, <2>2, <2>5
  <2>6. Owed' \subseteq Owed
    BY <2>2, <2>5, OwedMeans
  <2> QED BY <2>2, <2>4, <2>6
<1> QED BY <1>2, <1>3 DEF Lose

\* A read moves an entry from past the cursor to the pending list, if it moves it.
LEMMA ReadsMove ==
  ASSUME StreamIds, NEW x \in redis.log, Read(x)
  PROVE  /\ StreamIds' /\ Owed' = Owed /\ x.ev \in Owed /\ x.ev \in Event
         /\ redis'.log = redis.log /\ redis'.dlq = redis.dlq /\ redis'.made = redis.made
         /\ redis.cursor <= redis'.cursor
         /\ \A i \in redis'.pel : i \in redis.pel \/ i > redis.cursor
<1>1. /\ redis \in [log : SUBSET [id : Nat, ev : Event], made : BOOLEAN, cursor : Nat,
                    pel : SUBSET Nat, dlq : SUBSET Event]
      /\ redis.made /\ nextId' = nextId /\ redis.cursor \in Nat
      /\ \A y \in redis.log : y.id < nextId /\ y.id \in Nat
      /\ x.ev \in Event
  BY DEF StreamIds, Read
<1>2. CASE x.id \in redis.pel /\ UNCHANGED redis
  <2>1. StreamIds'
    BY <1>1, <1>2 DEF StreamIds
  <2> QED BY <1>1, <1>2, <2>1, OwedMeans
<1>3. CASE /\ x.id > redis.cursor
           /\ \A y \in redis.log : y.id > redis.cursor => x.id <= y.id
           /\ redis' = [redis EXCEPT !.cursor = x.id, !.pel = @ \cup {x.id}]
  <2>1. /\ redis' \in [log : SUBSET [id : Nat, ev : Event], made : BOOLEAN, cursor : Nat,
                       pel : SUBSET Nat, dlq : SUBSET Event]
        /\ redis'.log = redis.log /\ redis'.dlq = redis.dlq /\ redis'.made = redis.made
        /\ redis'.cursor = x.id /\ redis'.pel = redis.pel \cup {x.id}
    BY <1>1, <1>3
  <2>2. StreamIds'
    BY <1>1, <2>1 DEF StreamIds
  <2>3. ASSUME NEW y \in redis.log
        PROVE  (y.id > redis.cursor \/ y.id \in redis.pel)
                 <=> (y.id > redis'.cursor \/ y.id \in redis'.pel)
    BY <1>1, <1>3, <2>1
  <2>4. \A e : e \in Owed' <=> e \in Owed
    BY <1>1, <2>1, <2>3, OwedMeans
  <2>5. Owed' = Owed
    BY <2>4
  <2>6. x.ev \in Owed
    BY <1>1, <1>3, OwedMeans
  <2>7. redis.cursor <= redis'.cursor /\ \A i \in redis'.pel : i \in redis.pel \/ i > redis.cursor
    BY <1>1, <1>3, <2>1
  <2> QED BY <1>1, <2>1, <2>2, <2>5, <2>6, <2>7
<1> QED BY <1>2, <1>3 DEF Read

-----------------------------------------------------------------------------
(* EventReplay: types, and what a run has read by where it stands.         *)

\* The row the relay or the run is about to publish.
LEMMA FirstsAreSent ==
  ASSUME ReplayTypes, SentOnce
  PROVE  /\ Publish => LET e == First({d \in Event : row[d].state = "new"}) IN
                         e \in Event /\ row[e].state = "new"
         /\ tool.todo # {} => First(tool.todo) \in tool.todo
<1>1. /\ StoreTypes
      /\ tool.todo \in SUBSET Event /\ \A e \in tool.todo : row[e].state # "none"
  BY DEF ReplayTypes, RunTypes, RunPhases, SentOnce, Sent
<1>2. tool.todo # {} => First(tool.todo) \in tool.todo
  BY <1>1, FirstIsThere
<1>3. ASSUME Publish
      PROVE  First({d \in Event : row[d].state = "new"}) \in {d \in Event : row[d].state = "new"}
  <2> DEFINE S == {d \in Event : row[d].state = "new"}
  <2>1. S \in SUBSET Event /\ S # {} /\ \A d \in S : row[d].state # "none"
    BY <1>3 DEF Publish
  <2> HIDE DEF S
  <2> QED BY <1>1, <2>1, FirstIsThere DEF S
<1> QED BY <1>2, <1>3

\* The tables, the handler and their history keep their types.
LEMMA StoreTypesKeep ==
  ASSUME ReplayTypes, SentOnce, ReplayNext
  PROVE  StoreTypes'
<1>1. StoreTypes /\ StreamIds
  BY DEF ReplayTypes
<1>2. CASE UNCHANGED <<clock, row, processed, effects, busy, settled>>
  BY <1>1, <1>2 DEF StoreTypes
<1>3. CASE DayPasses
  BY <1>1, <1>3 DEF DayPasses, StoreTypes, stores, historyVars
<1>4. CASE Publish
  <2> DEFINE e == First({d \in Event : row[d].state = "new"})
  <2>1. e \in Event /\ row[e].state = "new"
    BY <1>4, FirstsAreSent
  <2>2. /\ row' = [row EXCEPT ![e].state = "published", ![e].published = clock]
        /\ UNCHANGED <<clock, processed, busy, effects, settled>>
    BY <1>4 DEF Publish
  <2> HIDE DEF e
  <2>3. row' \in [Event -> [state : {"none", "new", "published", "swept"},
                            created : Times, published : Times]]
    BY <1>1, <2>1, <2>2 DEF StoreTypes, Times
  <2>4. \A d \in Event : row'[d].created = row[d].created
                         /\ (row'[d].state # "none" => row[d].state # "none")
    BY <1>1, <2>1, <2>2 DEF StoreTypes
  <2> QED BY <1>1, <2>2, <2>3, <2>4 DEF StoreTypes
<1>5. CASE SweepLedger
  BY <1>1, <1>5 DEF SweepLedger, StoreTypes, historyVars, Times
<1>6. CASE SweepOutbox
  BY <1>1, <1>6 DEF SweepOutbox, StoreTypes, historyVars
<1>7. ASSUME NEW x \in redis.log, Read(x) \/ DeadLetter(x) PROVE StoreTypes'
  <2>1. x.ev \in Event
    BY <1>1 DEF StreamIds
  <2> QED BY <1>1, <1>7, <2>1 DEF Read, DeadLetter, StoreTypes, stores, historyVars
<1>8. ASSUME NEW e \in busy, Handle(e) PROVE StoreTypes'
  <2>1. e \in Event /\ UNCHANGED <<clock, row>> /\ busy' = {}
    BY <1>1, <1>8 DEF StoreTypes, Handle
  <2>2. CASE processed[e] # Never
    BY <1>1, <1>8, <2>1, <2>2 DEF Handle, StoreTypes
  <2>3. CASE processed[e] = Never
    <3>1. /\ processed' = [processed EXCEPT ![e] = clock]
          /\ effects' = [effects EXCEPT ![e] = @ + 1] /\ settled' = settled \cup {e}
      BY <1>8, <2>3 DEF Handle
    <3> QED BY <1>1, <2>1, <3>1 DEF StoreTypes, Times
  <2> QED BY <2>2, <2>3
<1>9. CASE Drop
  BY <1>1, <1>9 DEF Drop, StoreTypes, stores, historyVars
<1>10. ASSUME NEW e \in Event, Commit(e) PROVE StoreTypes'
  <2>1. /\ row' = [row EXCEPT ![e].state = "new", ![e].created = clock]
        /\ UNCHANGED <<clock, processed, busy, effects, settled>>
    BY <1>10 DEF Commit, historyVars
  <2>0. clock \in Times /\ row[e] \in [state : {"none", "new", "published", "swept"},
                                       created : Times, published : Times]
    BY <1>1 DEF StoreTypes, Times
  <2>2. row' \in [Event -> [state : {"none", "new", "published", "swept"},
                            created : Times, published : Times]]
    BY <1>1, <2>0, <2>1 DEF StoreTypes
  <2>3. \A d \in Event : d # e => row'[d] = row[d]
    BY <1>1, <2>1 DEF StoreTypes
  <2>4. row'[e].created = clock
    BY <1>1, <2>1 DEF StoreTypes
  <2> QED BY <1>1, <2>1, <2>2, <2>3, <2>4 DEF StoreTypes
<1>11. ASSUME NEW e \in redis.dlq, Purge(e) PROVE StoreTypes'
  <2>1. e \in Event
    BY <1>1 DEF StreamIds
  <2> QED BY <1>1, <1>11, <2>1 DEF Purge, StoreTypes, stores
<1>12. CASE ReplayStep
  <2>1. UNCHANGED <<clock, row, processed, effects, busy, settled>>
    BY <1>12 DEF ReplayStep, Start, AttachClaims, GroupState, PendingState, Scan, ScanDlq, Length,
         Payloads, Republish, RepublishFails, Finish, Select, Reading, stores, historyVars
  <2> QED BY <1>2, <2>1
<1>13. CASE Lose \/ EnsureGroup \/ (\E x \in redis.log : Ack(x)) \/ (\E e \in redis.dlq : Requeue(e))
  <2>1. UNCHANGED <<clock, row, processed, effects, busy, settled>>
    BY <1>13 DEF Lose, EnsureGroup, Ack, Requeue, stores, historyVars
  <2> QED BY <1>2, <2>1
<1> QED
  BY <1>3, <1>4, <1>5, <1>6, <1>7, <1>8, <1>9, <1>10, <1>11, <1>12, <1>13 DEF ReplayNext, WorkerStep

\* The stream, its group and the dead letters keep their shape.
LEMMA StreamIdsKeep ==
  ASSUME ReplayTypes, SentOnce, ReplayNext
  PROVE  StreamIds'
<1>1. StreamIds /\ RunTypes
  BY DEF ReplayTypes
<1>2. CASE UNCHANGED <<redis, nextId>>
  BY <1>1, <1>2 DEF StreamIds
<1>3. CASE Lose
  BY <1>1, <1>3, LossesOnlyLose
<1>4. ASSUME NEW e \in Event, NEW head, Xadd(e, head) PROVE StreamIds'
  BY <1>1, <1>4, Xadds
<1>5. CASE Publish
  BY <1>4, <1>5, FirstsAreSent DEF Publish
<1>6. CASE EnsureGroup \/ Start
  <2>1. redis' = WithGroup /\ nextId' = nextId
    BY <1>6 DEF EnsureGroup, Start, Reading
  <2> QED BY <1>1, <2>1, GroupsAreMade
<1>7. ASSUME NEW x \in redis.log, Read(x) PROVE StreamIds'
  BY <1>1, <1>7, ReadsMove
<1>8. ASSUME NEW x \in redis.log, Ack(x) \/ DeadLetter(x) PROVE StreamIds'
  <2>1. x.ev \in Event
    BY <1>1 DEF StreamIds
  <2>2. nextId' = nextId /\ \/ redis' = [redis EXCEPT !.pel = @ \ {x.id}]
                            \/ redis' = [redis EXCEPT !.pel = @ \ {x.id}, !.dlq = @ \cup {x.ev}]
    BY <1>8 DEF Ack, DeadLetter
  <2>3. CASE redis' = [redis EXCEPT !.pel = @ \ {x.id}]
    BY <1>1, <2>2, <2>3 DEF StreamIds
  <2>4. CASE redis' = [redis EXCEPT !.pel = @ \ {x.id}, !.dlq = @ \cup {x.ev}]
    BY <1>1, <2>1, <2>2, <2>4 DEF StreamIds
  <2> QED BY <2>2, <2>3, <2>4
<1>9. ASSUME NEW e \in redis.dlq, Requeue(e) PROVE StreamIds'
  <2>1. e \in Event
    BY <1>1 DEF StreamIds
  <2> QED BY <1>4, <1>9, <2>1 DEF Requeue
<1>10. ASSUME NEW e \in redis.dlq, Purge(e) PROVE StreamIds'
  <2>1. nextId' = nextId /\ redis' = [redis EXCEPT !.dlq = @ \ {e}]
    BY <1>10 DEF Purge
  <2> QED BY <1>1, <2>1 DEF StreamIds
<1>11. CASE Republish \/ RepublishFails
  <2>1. tool.todo # {} /\ First(tool.todo) \in Event
    BY <1>1, <1>11, FirstsAreSent DEF Republish, RepublishFails, RunTypes
  <2> QED BY <1>2, <1>4, <1>11, <2>1 DEF Republish, RepublishFails, streamVars
<1>12. CASE DayPasses \/ SweepLedger \/ SweepOutbox \/ Drop \/ (\E e \in busy : Handle(e))
            \/ (\E e \in Event : Commit(e))
  BY <1>2, <1>12 DEF DayPasses, SweepLedger, SweepOutbox, Drop, Handle, Commit, streamVars
<1>13. CASE \/ AttachClaims \/ GroupState \/ PendingState \/ Scan \/ ScanDlq
            \/ Length \/ Payloads \/ Finish \/ \E since \in 0..clock : Select(since)
  BY <1>2, <1>13 DEF AttachClaims, GroupState, PendingState, Scan, ScanDlq, Length, Payloads,
                     Finish, Select, Reading, streamVars
<1> QED
  BY <1>3, <1>5, <1>6, <1>7, <1>8, <1>9, <1>10, <1>11, <1>12, <1>13
     DEF ReplayNext, WorkerStep, ReplayStep

\* What a run has read belongs to where it stands, and a run does not linger.
LEMMA RunKeeps ==
  ASSUME ReplayTypes, SentOnce, ReplayNext
  PROVE  RunTypes' /\ RunPhases'
<1>1. StoreTypes /\ RunTypes /\ RunPhases
  BY DEF ReplayTypes
<1>2. redis.made \in BOOLEAN /\ redis.cursor \in Nat /\ redis.pel \in SUBSET Nat
  BY DEF ReplayTypes, StreamIds
<1> USE DEF RunTypes, RunPhases, Phase
<1>3. CASE UNCHANGED <<tool, clock>>
  BY <1>1, <1>3
<1>4. CASE DayPasses
  BY <1>1, <1>4, KeepAssumption DEF DayPasses, StoreTypes
<1>5. ASSUME tool' \in {Disturbed, Crowded(tool), Crowded(Disturbed), Swept}, clock' = clock
      PROVE  RunTypes' /\ RunPhases'
  <2>0. clock' = clock
    BY <1>5
  <2>1. ASSUME tool' = Disturbed PROVE RunTypes' /\ RunPhases'
    BY <1>1, <2>0, <2>1 DEF Disturbed
  <2>2. ASSUME tool' = Crowded(tool) PROVE RunTypes' /\ RunPhases'
    BY <1>1, <2>0, <2>2 DEF Crowded
  <2>3. ASSUME tool' = Crowded(Disturbed) PROVE RunTypes' /\ RunPhases'
    BY <1>1, <2>0, <2>3 DEF Crowded, Disturbed
  <2>4. ASSUME tool' = Swept PROVE RunTypes' /\ RunPhases'
    BY <1>1, <2>0, <2>4 DEF Swept
  <2> QED BY <1>5, <2>1, <2>2, <2>3, <2>4
<1>6. CASE tool' = NoRun /\ clock' = clock
  BY <1>1, <1>6 DEF NoRun
<1>7. CASE Lose \/ Publish \/ SweepLedger \/ (\E e \in redis.dlq : Requeue(e))
  BY <1>5, <1>7 DEF Lose, Publish, SweepLedger, Requeue
<1>8. CASE SweepOutbox \/ WorkerStep \/ (\E e \in Event : Commit(e)) \/ (\E e \in redis.dlq : Purge(e))
  BY <1>3, <1>8 DEF SweepOutbox, WorkerStep, EnsureGroup, Drop, Handle, Read, Ack, DeadLetter,
                    Commit, Purge
<1>9. CASE RepublishFails \/ Finish
  BY <1>6, <1>9 DEF RepublishFails, Finish
<1>10. CASE Start
  BY <1>1, <1>10 DEF Start, Reading, NoRun
<1>11. ASSUME NEW since \in 0..clock, Select(since) PROVE RunTypes' /\ RunPhases'
  <2>1. clock' = clock /\ clock \in Nat /\ MaxLinger \in Nat /\ clock <= clock + MaxLinger
    BY <1>1, <1>11, KeepAssumption DEF Select, Reading, StoreTypes
  <2>2. RunTypes'
    BY <1>1, <1>11, <2>1 DEF Select
  <2>3. RunPhases'
    BY <1>1, <1>11, <2>1 DEF Select
  <2> QED BY <2>2, <2>3
<1>12. CASE AttachClaims
  BY <1>1, <1>12 DEF AttachClaims, Reading
<1>13. CASE GroupState \/ PendingState
  <2>1. CASE GroupState
    BY <1>1, <1>2, <2>1 DEF GroupState, Reading
  <2>2. CASE PendingState
    BY <1>1, <1>2, <2>2 DEF PendingState, Reading
  <2> QED BY <1>13, <2>1, <2>2
<1>14. CASE Scan
  BY <1>1, <1>14 DEF Scan, Reading
<1>15. CASE ScanDlq
  BY <1>1, <1>15 DEF ScanDlq, Replayable, Reading
<1>16. CASE Length
  BY <1>1, <1>6, <1>16 DEF Length, Reading
<1>17. CASE Payloads
  BY <1>1, <1>17 DEF Payloads, Reading
<1>18. CASE Republish
  BY <1>1, <1>18 DEF Republish
<1> QED
  BY <1>4, <1>7, <1>8, <1>9, <1>10, <1>11, <1>12, <1>13, <1>14, <1>15, <1>16, <1>17, <1>18
     DEF ReplayNext, ReplayStep

-----------------------------------------------------------------------------
(* EventReplay: an event has its effect once.                              *)

\* A step that commits no effect, forgets no claim and selects nothing: copies that come
\* into flight are remembered or new, and a run only narrows down what it wants.
LEMMA CopiesAreRemembered ==
  ASSUME ReplayTypes, OnceInv, UNCHANGED <<clock, processed, effects, raced>>,
         settled \subseteq settled',
         Sent \subseteq Sent', \A e \in Sent : row'[e].created = row[e].created,
         NEW extra \in SUBSET Sent', InFlight' \subseteq InFlight \cup extra,
         \A e \in extra : /\ e \notin Forgotten
                          /\ processed[e] # Never => clock <= processed[e] + LedgerKeep,
         redis'.dlq \subseteq Sent, tool'.rows \subseteq tool.rows,
         tool'.wanted \subseteq tool.wanted,
         tool'.todo \subseteq tool.todo \cup {e \in tool.wanted : ~TooOld(e)},
         tool'.now = tool.now \/ tool'.rows \cup tool'.wanted \cup tool'.todo = {},
         tool'.at = "claims" => tool.at = "claims" /\ (tool.swept => tool'.swept)
  PROVE  OnceInv'
<1>1. \A e \in Event : effects[e] >= 1 => e \in Sent
  BY DEF OnceInv, SentOnce
<1>2. Forgotten' = Forgotten /\ Forgotten \subseteq Sent
  BY <1>1 DEF Forgotten
<1>3. SentOnce'
  <2>1. (InFlight \cup redis.dlq \cup tool.rows \subseteq Sent)'
    BY DEF OnceInv, SentOnce
  <2>2. ASSUME NEW e \in Event, processed[e] # Never
        PROVE  /\ row'[e].created <= processed[e] /\ processed[e] <= clock
               /\ effects[e] >= 1 /\ e \in settled'
    BY <1>1, <2>2 DEF OnceInv, SentOnce
  <2> QED BY <1>1, <2>1, <2>2 DEF SentOnce
<1>4. ClaimsAreFresh'
  <2>1. \A e \in (InFlight' \ raced) : processed[e] # Never => clock <= processed[e] + LedgerKeep
    BY DEF OnceInv, ClaimsAreFresh
  <2>2. \A e \in tool'.wanted \cup tool'.todo : processed[e] # Never => tool'.now <= processed[e]
    BY DEF OnceInv, ClaimsAreFresh
  <2> QED BY <2>1, <2>2 DEF ClaimsAreFresh
<1>5. ForgottenStayAway'
  <2> SUFFICES ASSUME NEW e \in Forgotten
               PROVE  /\ e \notin InFlight' \cup tool'.todo
                      /\ row'[e].created < clock - LedgerKeep
                      /\ e \in tool'.wanted => TooOld(e)'
                      /\ tool'.at = "claims" /\ e \in tool'.rows => tool'.swept \/ TooOld(e)'
    BY <1>2 DEF ForgottenStayAway
  <2>1. row'[e].created = row[e].created
    BY <1>2
  <2>2. tool'.now = tool.now => (TooOld(e)' <=> TooOld(e))
    BY <2>1 DEF TooOld
  <2> QED BY <2>1, <2>2 DEF OnceInv, ForgottenStayAway
<1>6. SecondEffectNeedsARace'
  BY DEF OnceInv, SecondEffectNeedsARace
<1> QED BY <1>3, <1>4, <1>5, <1>6 DEF OnceInv

\* The same, when no copy comes into flight.
LEMMA NothingComesIntoFlight ==
  ASSUME ReplayTypes, OnceInv, UNCHANGED <<clock, processed, effects, raced>>,
         settled \subseteq settled',
         Sent' = Sent, \A e \in Sent : row'[e].created = row[e].created,
         InFlight' \subseteq InFlight,
         redis'.dlq \subseteq Sent, tool'.rows \subseteq tool.rows,
         tool'.wanted \subseteq tool.wanted,
         tool'.todo \subseteq tool.todo \cup {e \in tool.wanted : ~TooOld(e)},
         tool'.now = tool.now \/ tool'.rows \cup tool'.wanted \cup tool'.todo = {},
         tool'.at = "claims" => tool.at = "claims" /\ (tool.swept => tool'.swept)
  PROVE  OnceInv'
<1> DEFINE extra == {}
<1>1. /\ extra \in SUBSET Sent' /\ InFlight' \subseteq InFlight \cup extra
      /\ \A e \in extra : /\ e \notin Forgotten
                          /\ processed[e] # Never => clock <= processed[e] + LedgerKeep
      /\ Sent \subseteq Sent'
  OBVIOUS
<1> HIDE DEF extra
<1> QED BY <1>1, CopiesAreRemembered

\* The clock, the sweep of the ledger, the effects and the run's first two readings.
LEMMA TickKeepsOnce ==
  ASSUME ReplayTypes, OnceInv, DayPasses
  PROVE  OnceInv'
<1>1. clock \in Nat /\ clock' = clock + 1 /\ LedgerKeep \in Nat
      /\ processed \in [Event -> Nat \cup {-1}]
      /\ row \in [Event -> [state : {"none", "new", "published", "swept"},
                            created : Nat \cup {-1}, published : Nat \cup {-1}]]
  BY KeepAssumption DEF ReplayTypes, StoreTypes, DayPasses, Times, Never
<1>2. /\ UNCHANGED <<row, processed, redis, busy, tool, effects, settled, raced>>
      /\ InFlight = {} /\ InFlight' = {}
  BY DEF DayPasses, stores, streamVars, historyVars, InFlight, Owed, OwedIn
<1>3. Forgotten' = Forgotten /\ Sent' = Sent
  BY <1>2 DEF Forgotten, Sent
<1>4. SentOnce'
  BY <1>1, <1>2, <1>3 DEF OnceInv, SentOnce
<1>5. ClaimsAreFresh'
  BY <1>2 DEF OnceInv, ClaimsAreFresh
<1>6. ForgottenStayAway'
  BY <1>1, <1>2, <1>3 DEF OnceInv, ForgottenStayAway, TooOld, Forgotten
<1>7. SecondEffectNeedsARace'
  BY <1>2 DEF OnceInv, SecondEffectNeedsARace
<1> QED BY <1>4, <1>5, <1>6, <1>7 DEF OnceInv

\* An effect is committed with its claim: an event in flight that had one is still claimed.
LEMMA HandleKeepsOnce ==
  ASSUME ReplayTypes, OnceInv, NEW e \in busy, Handle(e), processed[e] = Never
  PROVE  OnceInv'
<1>1. /\ e \in Event /\ e \in InFlight /\ e \in Sent /\ e \notin Forgotten
      /\ clock \in Nat /\ LedgerKeep \in Nat /\ effects \in [Event -> Nat]
      /\ processed \in [Event -> Times]
      /\ row[e].created <= clock
  BY KeepAssumption DEF ReplayTypes, StoreTypes, OnceInv, InFlight, SentOnce, Sent, ForgottenStayAway
<1>2. /\ processed' = [processed EXCEPT ![e] = clock] /\ effects' = [effects EXCEPT ![e] = @ + 1]
      /\ settled' = settled \cup {e} /\ busy' = {}
      /\ UNCHANGED <<clock, row, redis, tool, raced>>
  BY DEF Handle, streamVars
<1>3. InFlight' \subseteq InFlight /\ Sent' = Sent
  BY <1>2 DEF InFlight, Owed, OwedIn, Sent
<1>4. \A d \in Event : d # e => processed'[d] = processed[d] /\ effects'[d] = effects[d]
  BY <1>1, <1>2
<1>5. processed'[e] = clock /\ effects'[e] = effects[e] + 1 /\ effects[e] \in Nat /\ clock # Never
  BY <1>1, <1>2 DEF Never
<1>6. SentOnce'
  <2>1. (InFlight \cup redis.dlq \cup tool.rows \subseteq Sent)'
    BY <1>2, <1>3 DEF OnceInv, SentOnce
  <2>2. ASSUME NEW d \in Event
        PROVE  /\ processed'[d] # Never => /\ row[d].created <= processed'[d] /\ processed'[d] <= clock
                                           /\ effects'[d] >= 1 /\ d \in settled'
               /\ effects'[d] >= 1 => d \in Sent
    <3>1. CASE d = e
      BY <1>1, <1>2, <1>5, <3>1
    <3>2. CASE d # e
      BY <1>2, <1>4, <3>2 DEF OnceInv, SentOnce
    <3> QED BY <3>1, <3>2
  <2> QED BY <1>2, <1>3, <2>1, <2>2 DEF SentOnce
<1>7. ClaimsAreFresh'
  <2>1. \A d \in InFlight' \ raced : processed'[d] # Never => clock <= processed'[d] + LedgerKeep
    <3> SUFFICES ASSUME NEW d \in InFlight, d \notin raced, processed'[d] # Never
                 PROVE  clock <= processed'[d] + LedgerKeep
      BY <1>3
    <3>0. d \in Event
      BY DEF OnceInv, SentOnce, Sent
    <3>1. CASE d = e
      BY <1>1, <1>5, <3>1
    <3>2. CASE d # e
      BY <1>4, <3>0, <3>2 DEF OnceInv, ClaimsAreFresh
    <3> QED BY <3>1, <3>2
  <2>2. \A d \in tool.wanted \cup tool.todo : processed'[d] # Never => tool.now <= processed'[d]
    <3> SUFFICES ASSUME NEW d \in tool.wanted \cup tool.todo, processed'[d] # Never
                 PROVE  tool.now <= processed'[d]
      OBVIOUS
    <3>0. d \in Event /\ tool.now <= clock
      BY DEF ReplayTypes, RunTypes, RunPhases
    <3> QED BY <1>4, <1>5, <3>0 DEF OnceInv, ClaimsAreFresh
  <2> QED BY <1>2, <2>1, <2>2 DEF ClaimsAreFresh
<1>8. Forgotten' \subseteq Forgotten
  BY <1>2, <1>4, <1>5 DEF Forgotten
<1>9. ForgottenStayAway'
  BY <1>2, <1>3, <1>8 DEF OnceInv, ForgottenStayAway, TooOld
<1>10. SecondEffectNeedsARace'
  <2>1. effects[e] = 0 \/ e \in raced
    BY <1>1, <1>5 DEF Forgotten
  <2>2. effects'[e] <= 1 \/ e \in raced'
    BY <1>2, <1>5, <2>1
  <2> QED BY <1>2, <1>4, <2>2 DEF OnceInv, SecondEffectNeedsARace
<1> QED BY <1>6, <1>7, <1>9, <1>10 DEF OnceInv

\* Only claims that nothing in flight and no run wants are old enough to be swept.
LEMMA SweepKeepsOnce ==
  ASSUME ReplayTypes, OnceInv, SweepLedger
  PROVE  OnceInv'
<1> DEFINE old == {e \in Event : processed[e] # Never /\ processed[e] < clock - LedgerKeep}
<1>1. /\ clock \in Nat /\ LedgerKeep \in Nat /\ MaxLinger \in Nat /\ MaxLinger <= LedgerKeep
      /\ \A e \in Event : processed[e] # Never => processed[e] \in Nat
      /\ \A e \in Event : row[e].created \in Int
      /\ tool.now \in Nat /\ tool.wanted \cup tool.todo \subseteq Event
      /\ tool.wanted \cup tool.todo # {} => clock <= tool.now + MaxLinger
  BY KeepAssumption DEF ReplayTypes, StoreTypes, RunTypes, RunPhases, Times, Never
<1>2. /\ processed' = [e \in Event |-> IF e \in old THEN Never ELSE processed[e]] /\ tool' = Swept
      /\ UNCHANGED <<clock, row, redis, busy, effects, settled, raced>>
  BY DEF SweepLedger, streamVars, historyVars
<1>3. /\ tool'.at = tool.at /\ tool'.now = tool.now /\ tool'.rows = tool.rows
      /\ tool'.wanted = tool.wanted /\ tool'.todo = tool.todo
      /\ tool.swept => tool'.swept
      /\ tool.at = "claims" => tool'.swept
  BY <1>2 DEF Swept, ReplayTypes, RunTypes
<1>4. InFlight' = InFlight /\ Sent' = Sent
  BY <1>2 DEF InFlight, Owed, OwedIn, Sent
<1>5. ASSUME NEW e \in old PROVE /\ e \notin tool.wanted \cup tool.todo
                                 /\ row[e].created < clock - LedgerKeep
                                 /\ e \in InFlight => e \in raced
  <2>1. /\ e \in Event /\ processed[e] # Never /\ processed[e] < clock - LedgerKeep
        /\ processed[e] \in Nat
        /\ row[e].created <= processed[e] /\ row[e].created \in Int
    BY <1>1 DEF OnceInv, SentOnce
  <2>2. e \notin tool.wanted \cup tool.todo
    <3> SUFFICES ASSUME e \in tool.wanted \cup tool.todo PROVE FALSE
      OBVIOUS
    <3>1. tool.now <= processed[e] /\ clock <= tool.now + MaxLinger
      BY <1>1, <2>1 DEF OnceInv, ClaimsAreFresh
    <3> QED BY <1>1, <2>1, <3>1
  <2>3. ~(clock <= processed[e] + LedgerKeep)
    BY <1>1, <2>1
  <2> QED BY <1>1, <2>1, <2>2, <2>3 DEF OnceInv, ClaimsAreFresh
<1>6. \A e \in Event : processed'[e] # Never => processed'[e] = processed[e]
  BY <1>2
<1>7. Forgotten' \subseteq Forgotten \cup (old \ raced)
  BY <1>2 DEF Forgotten
<1> HIDE DEF old
<1>8. SentOnce'
  BY <1>2, <1>3, <1>4, <1>6 DEF OnceInv, SentOnce
<1>9. ClaimsAreFresh'
  <2>1. \A e \in InFlight : e \in Event
    BY DEF OnceInv, SentOnce, Sent
  <2> QED BY <1>1, <1>2, <1>3, <1>4, <1>6, <2>1 DEF OnceInv, ClaimsAreFresh
<1>10. ForgottenStayAway'
  <2> SUFFICES ASSUME NEW e \in Forgotten'
               PROVE  /\ e \notin InFlight \cup tool.todo
                      /\ row[e].created < clock - LedgerKeep
                      /\ e \in tool.wanted => TooOld(e)
                      /\ tool.at = "claims" /\ e \in tool.rows => tool'.swept \/ TooOld(e)
    BY <1>2, <1>3, <1>4 DEF ForgottenStayAway, TooOld
  <2>1. CASE e \in Forgotten
    BY <1>3, <2>1 DEF OnceInv, ForgottenStayAway
  <2>2. CASE e \in old \ raced
    BY <1>3, <1>5, <2>2
  <2> QED BY <1>7, <2>1, <2>2
<1>11. SecondEffectNeedsARace'
  BY <1>2 DEF OnceInv, SecondEffectNeedsARace
<1> QED BY <1>8, <1>9, <1>10, <1>11 DEF OnceInv

\* now() comes with the rows, and what is forgotten by then is too old.
LEMMA SelectKeepsOnce ==
  ASSUME ReplayTypes, OnceInv, NEW since \in 0..clock, Select(since)
  PROVE  OnceInv'
<1>1. /\ UNCHANGED <<clock, row, processed, redis, busy, effects, settled, raced>>
      /\ tool'.now = clock /\ tool'.wanted = {} /\ tool'.todo = {}
      /\ tool'.rows = {e \in Event : row[e].state = "published"
                               /\ row[e].published >= since /\ row[e].published < clock}
  BY DEF Select, Reading, stores, ReplayTypes, RunTypes, RunPhases
<1>2. InFlight' = InFlight /\ Sent' = Sent /\ Forgotten' = Forgotten
  BY <1>1 DEF InFlight, Owed, OwedIn, Sent, Forgotten
<1>3. tool'.rows \subseteq Sent
  BY <1>1 DEF Sent
<1>4. SentOnce'
  BY <1>1, <1>2, <1>3 DEF OnceInv, SentOnce
<1>5. ClaimsAreFresh'
  BY <1>1, <1>2 DEF OnceInv, ClaimsAreFresh
<1>6. ForgottenStayAway'
  BY <1>1, <1>2 DEF OnceInv, ForgottenStayAway, TooOld
<1>7. SecondEffectNeedsARace'
  BY <1>1 DEF OnceInv, SecondEffectNeedsARace
<1> QED BY <1>4, <1>5, <1>6, <1>7 DEF OnceInv

\* A run a sweep overtook has its rows marked; the others have no claim, and had none at now().
LEMMA AttachKeepsOnce ==
  ASSUME ReplayTypes, OnceInv, AttachClaims
  PROVE  OnceInv'
<1>1. /\ UNCHANGED <<clock, row, processed, redis, busy, effects, settled>>
      /\ tool.at = "claims" /\ tool'.at # "claims" /\ tool'.now = tool.now /\ tool'.rows = tool.rows
      /\ tool'.todo = {} /\ tool'.wanted = {e \in tool.rows : processed[e] = Never}
      /\ raced \subseteq raced' /\ (tool.swept => tool.rows \subseteq raced')
  BY DEF AttachClaims, Reading, stores, ReplayTypes, RunTypes, RunPhases
<1>2. InFlight' = InFlight /\ Sent' = Sent /\ Forgotten' = Forgotten \ raced'
  BY <1>1 DEF InFlight, Owed, OwedIn, Sent, Forgotten
<1>3. SentOnce'
  BY <1>1, <1>2 DEF OnceInv, SentOnce
<1>4. ClaimsAreFresh'
  BY <1>1, <1>2 DEF OnceInv, ClaimsAreFresh
<1>5. ForgottenStayAway'
  BY <1>1, <1>2 DEF OnceInv, ForgottenStayAway, TooOld
<1>6. SecondEffectNeedsARace'
  BY <1>1 DEF OnceInv, SecondEffectNeedsARace
<1> QED BY <1>3, <1>4, <1>5, <1>6 DEF OnceInv

\* An XADD of an event that the ledger remembers, if it was ever handled.
LEMMA XaddKeepsOnce ==
  ASSUME ReplayTypes, OnceInv, NEW e \in Sent', NEW head, Xadd(e, head),
         UNCHANGED <<clock, processed, effects, settled, raced, busy>>,
         e \notin Forgotten, processed[e] # Never => clock <= processed[e] + LedgerKeep,
         Sent \subseteq Sent', \A d \in Sent : row'[d].created = row[d].created,
         tool'.rows \subseteq tool.rows, tool'.wanted \subseteq tool.wanted,
         tool'.todo \subseteq tool.todo,
         tool'.now = tool.now \/ tool'.rows \cup tool'.wanted \cup tool'.todo = {},
         tool'.at = "claims" => tool.at = "claims" /\ (tool.swept => tool'.swept)
  PROVE  OnceInv'
<1>1. StreamIds /\ e \in Event
  BY DEF ReplayTypes, Sent
<1>2. /\ redis' = [redis EXCEPT !.log = redis'.log]
      /\ Owed' \subseteq Owed \cup {e}
  BY <1>1, Xadds
<1>3. redis'.dlq = redis.dlq /\ redis.dlq \subseteq Sent
  BY <1>1, <1>2 DEF StreamIds, OnceInv, SentOnce
<1>4. InFlight' \subseteq InFlight \cup {e}
  BY <1>2 DEF InFlight
<1> DEFINE extra == {e}
<1>5. /\ extra \in SUBSET Sent' /\ InFlight' \subseteq InFlight \cup extra
      /\ \A d \in extra : /\ d \notin Forgotten
                          /\ processed[d] # Never => clock <= processed[d] + LedgerKeep
      /\ redis'.dlq \subseteq Sent /\ settled \subseteq settled'
      /\ tool'.todo \subseteq tool.todo \cup {d \in tool.wanted : ~TooOld(d)}
  BY <1>3, <1>4
<1> HIDE DEF extra
<1> QED BY <1>5, CopiesAreRemembered

\* The relay publishes an event for the first time.
LEMMA PublishKeepsOnce ==
  ASSUME ReplayTypes, OnceInv, Publish
  PROVE  OnceInv'
<1> DEFINE e == First({d \in Event : row[d].state = "new"})
<1>1. e \in Event /\ row[e].state = "new"
  BY FirstsAreSent DEF OnceInv
<1>2. /\ row' = [row EXCEPT ![e].state = "published", ![e].published = clock]
      /\ tool' = Crowded(tool) /\ UNCHANGED <<clock, processed, busy, effects, settled, raced>>
      /\ \E head \in {0, Excess} : Xadd(e, head)
  BY DEF Publish
<1> HIDE DEF e
<1>3. PICK head \in {0, Excess} : Xadd(e, head)
  BY <1>2
<1>4. /\ \A d \in Event : d # e => row'[d] = row[d]
      /\ row'[e].state = "published"
  BY <1>1, <1>2 DEF ReplayTypes, StoreTypes
<1>5. e \notin Sent /\ Sent' = Sent \cup {e} /\ \A d \in Sent : row'[d].created = row[d].created
  BY <1>1, <1>4 DEF Sent
<1>6. effects[e] = 0 /\ processed[e] = Never
  BY <1>1, <1>5 DEF ReplayTypes, StoreTypes, OnceInv, SentOnce
<1>7. e \notin Forgotten
  BY <1>6 DEF Forgotten
<1>8. /\ tool'.rows = tool.rows /\ tool'.wanted = tool.wanted /\ tool'.todo = tool.todo
      /\ tool'.now = tool.now /\ tool'.at = tool.at /\ tool'.swept = tool.swept
  BY <1>2 DEF Crowded, ReplayTypes, RunTypes
<1> QED BY <1>2, <1>3, <1>5, <1>6, <1>7, <1>8, XaddKeepsOnce

\* A dead letter is requeued while the ledger remembers.
LEMMA RequeueKeepsOnce ==
  ASSUME ReplayTypes, OnceInv, NEW e \in redis.dlq, Requeue(e)
  PROVE  OnceInv'
<1>1. e \in Event /\ e \in Sent /\ Sent' = Sent
  BY DEF OnceInv, SentOnce, Sent, Requeue, stores
<1>2. /\ tool' = Crowded(Disturbed)
      /\ UNCHANGED <<clock, row, processed, busy, effects, settled, raced>>
      /\ Xadd(e, 0) /\ clock - row[e].created <= LedgerKeep
  BY DEF Requeue, stores, historyVars
<1>3. /\ clock \in Nat /\ row[e].created \in Int /\ LedgerKeep \in Nat
      /\ processed[e] # Never => processed[e] \in Nat /\ row[e].created <= processed[e]
  BY <1>1, KeepAssumption DEF ReplayTypes, StoreTypes, Times, Never, OnceInv, SentOnce
<1>4. processed[e] # Never => clock <= processed[e] + LedgerKeep
  BY <1>2, <1>3
<1>5. e \notin Forgotten
  BY <1>2, <1>3 DEF OnceInv, ForgottenStayAway
<1>6. /\ tool'.rows = tool.rows /\ tool'.wanted = tool.wanted /\ tool'.todo = tool.todo
      /\ tool'.now = tool.now /\ tool'.at = tool.at /\ tool'.swept = tool.swept
  BY <1>2 DEF Crowded, Disturbed, ReplayTypes, RunTypes
<1> QED BY <1>1, <1>2, <1>4, <1>5, <1>6, XaddKeepsOnce

\* What a run puts back, it wanted: the ledger remembers whatever happened since now().
LEMMA RepublishKeepsOnce ==
  ASSUME ReplayTypes, OnceInv, Republish \/ RepublishFails
  PROVE  OnceInv'
<1> DEFINE e == First(tool.todo)
<1>1. tool.todo # {} /\ tool.at = "publish" /\ e \in tool.todo
  BY FirstsAreSent DEF Republish, RepublishFails, OnceInv
<1>2. UNCHANGED <<clock, row, processed, busy, effects, settled, raced>>
  BY DEF Republish, RepublishFails, stores, historyVars
<1>3. (\E head : Xadd(e, head)) \/ UNCHANGED redis
  BY DEF Republish, RepublishFails, streamVars
<1>4. /\ tool'.rows \subseteq tool.rows /\ tool'.wanted \subseteq tool.wanted
      /\ tool'.todo \subseteq tool.todo /\ tool'.at # "claims"
      /\ tool'.now = tool.now \/ tool'.rows \cup tool'.wanted \cup tool'.todo = {}
  <2>1. CASE tool' = [tool EXCEPT !.todo = @ \ {e}]
    BY <1>1, <2>1 DEF ReplayTypes, RunTypes
  <2>2. CASE tool' = NoRun
    BY <2>2 DEF NoRun
  <2> QED BY <2>1, <2>2 DEF Republish, RepublishFails
<1> HIDE DEF e
<1>5. e \in Event /\ e \in Sent /\ Sent' = Sent /\ e \notin Forgotten
  BY <1>1, <1>2 DEF ReplayTypes, RunPhases, OnceInv, SentOnce, Sent, ForgottenStayAway
<1>6. processed[e] # Never => clock <= processed[e] + LedgerKeep
  <2>1. /\ clock \in Nat /\ LedgerKeep \in Nat /\ MaxLinger \in Nat /\ MaxLinger <= LedgerKeep
        /\ processed[e] # Never => processed[e] \in Nat /\ tool.now <= processed[e]
        /\ tool.now \in Nat /\ clock <= tool.now + MaxLinger
    BY <1>1, <1>5, KeepAssumption
       DEF ReplayTypes, StoreTypes, RunTypes, RunPhases, Times, Never, OnceInv, ClaimsAreFresh
  <2> QED BY <2>1
<1>7. CASE \E head : Xadd(e, head)
  BY <1>2, <1>4, <1>5, <1>6, <1>7, XaddKeepsOnce
<1>8. CASE UNCHANGED redis
  <2>1. InFlight' = InFlight /\ redis'.dlq \subseteq Sent
    BY <1>2, <1>8 DEF InFlight, Owed, OwedIn, OnceInv, SentOnce
  <2>2. /\ settled \subseteq settled' /\ \A d \in Sent : row'[d].created = row[d].created
        /\ tool'.todo \subseteq tool.todo \cup {d \in tool.wanted : ~TooOld(d)}
    BY <1>2, <1>4
  <2> QED BY <1>2, <1>4, <1>5, <2>1, <2>2, NothingComesIntoFlight
<1> QED BY <1>3, <1>7, <1>8

\* The worker, the dead letters and a loss of Redis bring nothing into flight.
LEMMA RedisKeepsOnce ==
  ASSUME ReplayTypes, OnceInv,
         Lose \/ EnsureGroup \/ Drop \/ (\E x \in redis.log : Read(x) \/ Ack(x) \/ DeadLetter(x))
           \/ (\E e \in redis.dlq : Purge(e))
  PROVE  OnceInv'
<1>1. /\ UNCHANGED <<clock, row, processed, effects, raced>> /\ settled \subseteq settled'
  BY DEF Lose, EnsureGroup, Drop, Read, Ack, DeadLetter, Purge, stores, historyVars
<1>2. Sent' = Sent /\ redis.dlq \subseteq Sent /\ InFlight \subseteq Sent /\ StreamIds
  BY <1>1 DEF Sent, OnceInv, SentOnce, ReplayTypes
<1>3. /\ tool'.rows = tool.rows /\ tool'.wanted = tool.wanted /\ tool'.todo = tool.todo
      /\ tool'.now = tool.now /\ tool'.at = tool.at /\ tool'.swept = tool.swept
  BY DEF Lose, EnsureGroup, Drop, Read, Ack, DeadLetter, Purge, Disturbed, ReplayTypes, RunTypes
<1>4. InFlight' \subseteq InFlight /\ redis'.dlq \subseteq Sent
  <2>1. CASE Lose
    <3>1. Owed' \subseteq Owed /\ redis'.dlq \subseteq redis.dlq /\ busy' = busy
      BY <1>2, <2>1, LossesOnlyLose DEF Lose
    <3> QED BY <1>2, <3>1 DEF InFlight
  <2>2. CASE EnsureGroup
    <3>1. Owed' = Owed /\ redis'.dlq = redis.dlq /\ busy' = busy
      BY <1>2, <2>2, GroupsAreMade DEF EnsureGroup
    <3> QED BY <1>2, <3>1 DEF InFlight
  <2>3. CASE Drop
    BY <1>2, <2>3 DEF Drop, InFlight, streamVars, Owed, OwedIn
  <2>4. ASSUME NEW x \in redis.log, Read(x)
        PROVE  InFlight' \subseteq InFlight /\ redis'.dlq \subseteq Sent
    <3>1. Owed' = Owed /\ x.ev \in Owed /\ redis'.dlq = redis.dlq /\ busy' = {x.ev}
      BY <1>2, <2>4, ReadsMove DEF Read
    <3> QED BY <1>2, <3>1 DEF InFlight
  <2>5. ASSUME NEW x \in redis.log, Ack(x) \/ DeadLetter(x)
        PROVE  InFlight' \subseteq InFlight /\ redis'.dlq \subseteq Sent
    <3>1. /\ redis'.log = redis.log /\ redis'.made = redis.made /\ redis'.cursor = redis.cursor
          /\ redis'.pel \subseteq redis.pel /\ redis'.dlq \subseteq redis.dlq \cup busy
          /\ busy' \subseteq busy
      <4>1. CASE Ack(x)
        BY <1>2, <4>1 DEF Ack, StreamIds
      <4>2. CASE DeadLetter(x)
        BY <1>2, <4>2 DEF DeadLetter, StreamIds
      <4> QED BY <2>5, <4>1, <4>2
    <3>2. Owed' \subseteq Owed
      BY <3>1, OwedMeans
    <3> QED BY <1>2, <3>1, <3>2 DEF InFlight
  <2>6. ASSUME NEW e \in redis.dlq, Purge(e)
        PROVE  InFlight' \subseteq InFlight /\ redis'.dlq \subseteq Sent
    <3>1. /\ redis'.log = redis.log /\ redis'.made = redis.made /\ redis'.cursor = redis.cursor
          /\ redis'.pel = redis.pel /\ redis'.dlq \subseteq redis.dlq /\ busy' = busy
      BY <1>2, <2>6 DEF Purge, StreamIds
    <3>2. Owed' = Owed
      BY <3>1, OwedMeans
    <3> QED BY <1>2, <3>1, <3>2 DEF InFlight
  <2> QED BY <2>1, <2>2, <2>3, <2>4, <2>5, <2>6
<1>5. \A d \in Sent : row'[d].created = row[d].created
  BY <1>1
<1>6. tool'.todo \subseteq tool.todo \cup {d \in tool.wanted : ~TooOld(d)}
  BY <1>3
<1> QED BY <1>1, <1>2, <1>3, <1>4, <1>5, <1>6, NothingComesIntoFlight

\* The tables: a commit, a sweep of the outbox and an effect that was there already.
LEMMA TablesKeepOnce ==
  ASSUME ReplayTypes, OnceInv,
         SweepOutbox \/ (\E e \in Event : Commit(e))
           \/ (\E e \in busy : Handle(e) /\ processed[e] # Never)
  PROVE  OnceInv'
<1>1. /\ UNCHANGED <<clock, processed, redis, tool, effects, settled, raced>> /\ busy' \subseteq busy
  BY DEF SweepOutbox, Commit, Handle, streamVars, historyVars
<1>2. Sent' = Sent /\ \A d \in Sent : row'[d].created = row[d].created
  <2>1. CASE SweepOutbox
    BY <2>1 DEF SweepOutbox, Sent, ReplayTypes, StoreTypes
  <2>2. ASSUME NEW e \in Event, Commit(e)
        PROVE  Sent' = Sent /\ \A d \in Sent : row'[d].created = row[d].created
    <3>1. /\ \A d \in Event : d # e => row'[d] = row[d]
          /\ row[e].state = "none" /\ row'[e].state = "new"
      BY <2>2 DEF Commit, ReplayTypes, StoreTypes
    <3> QED BY <3>1 DEF Sent
  <2>3. CASE row' = row
    BY <2>3 DEF Sent
  <2> QED BY <2>1, <2>2, <2>3 DEF Handle
<1>3. InFlight' \subseteq InFlight /\ redis'.dlq \subseteq Sent
  BY <1>1 DEF InFlight, Owed, OwedIn, OnceInv, SentOnce
<1>4. /\ settled \subseteq settled'
      /\ tool'.todo \subseteq tool.todo \cup {d \in tool.wanted : ~TooOld(d)}
  BY <1>1
<1> QED BY <1>1, <1>2, <1>3, <1>4, NothingComesIntoFlight

\* A run starts, reads, narrows down and ends.
LEMMA RunKeepsOnce ==
  ASSUME ReplayTypes, OnceInv,
         \/ Start \/ GroupState \/ PendingState \/ Scan \/ ScanDlq \/ Length \/ Payloads \/ Finish
  PROVE  OnceInv'
<1>1. /\ UNCHANGED <<clock, row, processed, busy, effects, settled, raced>>
  BY DEF Start, GroupState, PendingState, Scan, ScanDlq, Length, Payloads, Finish, Reading,
         stores, historyVars
<1>2. Sent' = Sent /\ redis.dlq \subseteq Sent /\ StreamIds
  BY <1>1 DEF Sent, OnceInv, SentOnce, ReplayTypes
<1>3. InFlight' \subseteq InFlight /\ redis'.dlq \subseteq Sent
  <2>1. CASE Start
    <3>1. Owed' = Owed /\ redis'.dlq = redis.dlq
      BY <1>2, <2>1, GroupsAreMade DEF Start, Reading
    <3> QED BY <1>1, <1>2, <3>1 DEF InFlight
  <2>2. CASE UNCHANGED redis
    BY <1>1, <1>2, <2>2 DEF InFlight, Owed, OwedIn
  <2> QED BY <2>1, <2>2 DEF GroupState, PendingState, Scan, ScanDlq, Length, Payloads, Finish,
                            streamVars
<1>4. /\ tool'.rows \subseteq tool.rows /\ tool'.wanted \subseteq tool.wanted
      /\ tool'.todo \subseteq tool.todo \cup {e \in tool.wanted : ~TooOld(e)}
      /\ tool'.at # "claims"
      /\ tool'.now = tool.now \/ tool'.rows \cup tool'.wanted \cup tool'.todo = {}
  <2>1. tool \in [at : Phase, now : Nat, rows : SUBSET Event, wanted : SUBSET Event,
                  made : BOOLEAN, cursor : Nat, pel : SUBSET Nat, todo : SUBSET Event,
                  swept : BOOLEAN, disturbed : BOOLEAN, crowded : BOOLEAN]
    BY DEF ReplayTypes, RunTypes
  <2>2. CASE Start \/ Finish \/ tool' = NoRun
    BY <2>2 DEF Start, Finish, NoRun
  <2>3. CASE GroupState \/ PendingState
    BY <2>1, <2>3 DEF GroupState, PendingState
  <2>4. CASE Scan
    BY <2>1, <2>4 DEF Scan
  <2>5. CASE ScanDlq
    <3>1. ASSUME NEW e \in Event, Replayable(e) PROVE e \in tool.wanted /\ ~TooOld(e)
      <4>1. row[e].created \in Int /\ tool.now \in Nat /\ LedgerKeep \in Nat
        BY <2>1, KeepAssumption DEF ReplayTypes, StoreTypes, Times, Never
      <4> QED BY <3>1, <4>1 DEF Replayable, TooOld
    <3>2. /\ tool'.rows = tool.rows /\ tool'.wanted = {} /\ tool'.now = tool.now
          /\ tool'.at # "claims" /\ tool'.todo = {e \in Event : Replayable(e)}
      BY <2>1, <2>5 DEF ScanDlq
    <3> QED BY <3>1, <3>2
  <2>6. CASE Payloads
    BY <2>1, <2>6 DEF Payloads
  <2>7. CASE Length /\ tool' # NoRun
    BY <2>1, <2>7 DEF Length
  <2> QED BY <2>2, <2>3, <2>4, <2>5, <2>6, <2>7
<1> QED BY <1>1, <1>2, <1>3, <1>4, NothingComesIntoFlight

\* The invariant of the replay, for every number of events, runs and losses.
THEOREM ReplayInvariant == ReplaySpec => [](ReplayTypes /\ OnceInv)
<1>1. ReplayInit => ReplayTypes /\ OnceInv
  <2> SUFFICES ASSUME ReplayInit PROVE ReplayTypes /\ OnceInv
    OBVIOUS
  <2>1. ReplayTypes
    <3>1. StoreTypes /\ RunTypes /\ RunPhases
      BY DEF ReplayInit, StoreTypes, RunTypes, RunPhases, NoRun, Times, Phase, Never
    <3>2. StreamIds
      <4>1. redis \in [log : SUBSET [id : Nat, ev : Event], made : BOOLEAN, cursor : Nat,
                       pel : SUBSET Nat, dlq : SUBSET Event]
            /\ redis.log = {} /\ redis.cursor = 0 /\ nextId = 1
        BY DEF ReplayInit, Flushed
      <4> QED BY <4>1, FS_EmptySet DEF StreamIds
    <3> QED BY <3>1, <3>2 DEF ReplayTypes
  <2>2. Owed = {} /\ InFlight = {} /\ Forgotten = {} /\ redis.dlq = {}
    BY DEF ReplayInit, Owed, OwedIn, InFlight, Forgotten, Flushed
  <2> QED BY <2>1, <2>2 DEF ReplayInit, OnceInv, SentOnce, ClaimsAreFresh, ForgottenStayAway,
                            SecondEffectNeedsARace, NoRun
<1>2. ReplayTypes /\ OnceInv /\ [ReplayNext]_replayVars => (ReplayTypes /\ OnceInv)'
  <2> SUFFICES ASSUME ReplayTypes, OnceInv, [ReplayNext]_replayVars PROVE ReplayTypes' /\ OnceInv'
    OBVIOUS
  <2>1. CASE UNCHANGED replayVars
    BY <2>1 DEF replayVars, stores, streamVars, historyVars, ReplayTypes, OnceInv, StoreTypes, RunTypes,
                StreamIds, RunPhases, SentOnce, ClaimsAreFresh, ForgottenStayAway,
                SecondEffectNeedsARace, InFlight, Owed, OwedIn, Sent, Forgotten, TooOld
  <2>2. ASSUME ReplayNext PROVE ReplayTypes'
    BY <2>2, StoreTypesKeep, StreamIdsKeep, RunKeeps DEF ReplayTypes, OnceInv
  <2>3. ASSUME ReplayNext PROVE OnceInv'
    BY <2>3, TickKeepsOnce, HandleKeepsOnce, SweepKeepsOnce, SelectKeepsOnce, AttachKeepsOnce,
       PublishKeepsOnce, RequeueKeepsOnce, RepublishKeepsOnce, RedisKeepsOnce, TablesKeepOnce,
       RunKeepsOnce DEF ReplayNext, WorkerStep, ReplayStep
  <2> QED BY <2>1, <2>2, <2>3
<1> QED BY <1>1, <1>2, PTL DEF ReplaySpec

\* replay.py, "sending it again is safe": for any number of events, losses, requeues and
\* runs an event has its effect once, unless a sweep overtook the run that sent it again.
THEOREM EffectsComeOnce == ReplaySpec => []SecondEffectNeedsARace
<1>1. ReplayTypes /\ OnceInv => SecondEffectNeedsARace
  BY DEF OnceInv
<1> QED BY <1>1, ReplayInvariant, PTL

-----------------------------------------------------------------------------
(* EventReplay: a run that nothing disturbs leaves nothing behind.         *)

\* What others do under a run leaves the run where it is ...
SameRun ==
  /\ tool'.at = tool.at /\ tool'.now = tool.now /\ tool'.rows = tool.rows
  /\ tool'.wanted = tool.wanted /\ tool'.made = tool.made /\ tool'.cursor = tool.cursor
  /\ tool'.pel = tool.pel /\ tool'.todo = tool.todo /\ tool'.disturbed = tool.disturbed
  /\ tool.crowded => tool'.crowded

\* ... and the rows it selected what they are: reads and acknowledgements move the group
\* forward, a new entry is owed, and nobody becomes unsafe.
SameRows ==
  \A e \in Sent : /\ row'[e].created = row[e].created
                  /\ row[e].state = "swept" => row'[e].state = "swept"

Forward ==
  /\ redis'.made /\ redis.cursor <= redis'.cursor
  /\ \A i \in redis'.pel : i \in redis.pel \/ i > redis.cursor
  /\ \A x \in redis'.log : x \in redis.log \/ x.ev \in Owed'
  /\ Owed' \subseteq Owed \cup (Event \ Sent)
  /\ Safe \subseteq Safe'
  /\ (tool.at \in {"payloads", "publish"} /\ ~tool'.crowded) => redis'.log = redis.log

\* A run survives the others.
LEMMA OthersKeepSound ==
  ASSUME ReplayTypes, ReplayTypes', OnceInv, RunIsSound, SameRun, SameRows, Forward,
         tool.at # "idle", ~tool.disturbed
  PROVE  RunIsSound'
<1>1. /\ redis.cursor \in Nat /\ redis'.cursor \in Nat /\ tool.cursor \in Nat
      /\ \A i \in redis'.pel : i \in Nat
  BY DEF ReplayTypes, StreamIds, RunTypes
<1>2. tool.rows \subseteq Sent /\ tool.wanted \cup tool.todo \subseteq tool.rows
  BY DEF OnceInv, SentOnce, ReplayTypes, RunPhases
<1>3. tool.at \in {"pending", "scan"} => tool.made /\ tool.cursor <= redis'.cursor
  BY <1>1 DEF RunIsSound, Forward
<1>4. tool.at = "scan" => \A i \in redis'.pel : i \in tool.pel \/ i > tool.cursor
  BY <1>1 DEF RunIsSound, Forward
<1>5. \A x \in redis'.log : Owes(tool.made, tool.cursor, tool.pel, x) => x.ev \in Safe'
  BY DEF RunIsSound, Forward, Safe
<1>6. tool.at # "claims" =>
        \A e \in tool.rows \ (tool.wanted \cup tool.todo) :
          TooOld(e)' \/ row'[e].state = "swept" \/ e \in Safe'
  BY <1>2 DEF RunIsSound, Forward, SameRun, SameRows, TooOld
<1>7. tool.at \in {"dlq", "length", "payloads", "publish"} =>
        (tool.wanted \cup tool.todo) \cap Owed' = {}
  BY <1>2 DEF RunIsSound, Forward
<1>8. (tool.at \in {"payloads", "publish"} /\ tool.todo # {} /\ ~tool'.crowded) =>
        Cardinality(redis'.log) + Cardinality(tool.todo) <= MaxLen
  BY DEF RunIsSound, Forward, SameRun
<1>9. redis'.made
  BY DEF Forward
<1> QED BY <1>3, <1>4, <1>5, <1>6, <1>7, <1>8, <1>9 DEF RunIsSound, SameRun

\* The stream, the group and the dead letters stay as they are.
LEMMA StillForward ==
  ASSUME ReplayTypes, redis.made, UNCHANGED <<redis, cut>>, settled \subseteq settled'
  PROVE  Forward
<1>1. redis.cursor <= redis.cursor
  BY DEF ReplayTypes, StreamIds
<1>2. Owed' = Owed
  BY OwedMeans DEF Owed, OwedIn
<1>3. Safe \subseteq Safe'
  BY <1>2 DEF Safe
<1> QED BY <1>1, <1>2, <1>3 DEF Forward

\* The clock, the tables, the handler.
LEMMA TablesKeepSound ==
  ASSUME ReplayTypes, ReplayTypes', OnceInv, RunIsSound, tool.at # "idle", ~tool.disturbed,
         DayPasses \/ SweepLedger \/ SweepOutbox \/ Drop \/ (\E e \in busy : Handle(e))
           \/ (\E e \in Event : Commit(e))
  PROVE  RunIsSound'
<1>1. UNCHANGED <<redis, cut>> /\ settled \subseteq settled'
  BY DEF DayPasses, SweepLedger, SweepOutbox, Drop, Handle, Commit, streamVars, historyVars
<1>2. redis.made
  BY DEF RunIsSound
<1>3. Forward
  BY <1>1, <1>2, StillForward
<1>4. SameRun
  BY DEF DayPasses, SweepLedger, SweepOutbox, Drop, Handle, Commit, Swept, SameRun, ReplayTypes, RunTypes
<1>5. SameRows
  <2>1. CASE SweepOutbox
    BY <2>1 DEF SweepOutbox, SameRows, Sent, ReplayTypes, StoreTypes
  <2>2. ASSUME NEW e \in Event, Commit(e) PROVE SameRows
    <3>1. \A d \in Sent : row'[d] = row[d]
      BY <2>2 DEF Commit, Sent, ReplayTypes, StoreTypes
    <3> QED BY <3>1 DEF SameRows
  <2>3. CASE row' = row
    BY <2>3 DEF SameRows
  <2> QED BY <2>1, <2>2, <2>3 DEF DayPasses, SweepLedger, Drop, Handle, stores
<1> QED BY <1>3, <1>4, <1>5, OthersKeepSound

\* The relay: what its backstop cuts is in cut.
LEMMA PublishKeepsSound ==
  ASSUME ReplayTypes, ReplayTypes', OnceInv, RunIsSound, tool.at # "idle", ~tool.disturbed, Publish
  PROVE  RunIsSound'
<1> DEFINE e == First({d \in Event : row[d].state = "new"})
<1>1. e \in Event /\ row[e].state = "new"
  BY FirstsAreSent DEF OnceInv
<1>2. /\ row' = [row EXCEPT ![e].state = "published", ![e].published = clock]
      /\ tool' = Crowded(tool) /\ settled' = settled
      /\ \E head \in {0, Excess} : /\ Xadd(e, head)
                                   /\ cut' = cut \cup (Owed \ OwedIn(redis'.log, redis'))
  BY DEF Publish
<1> HIDE DEF e
<1>3. PICK head \in {0, Excess} : Xadd(e, head) /\ cut' = cut \cup (Owed \ OwedIn(redis'.log, redis'))
  BY <1>2
<1>4. SameRun
  BY <1>2 DEF Crowded, SameRun, ReplayTypes, RunTypes
<1>5. SameRows
  <2>1. \A d \in Sent : row'[d] = row[d]
    BY <1>1, <1>2 DEF Sent, ReplayTypes, StoreTypes
  <2> QED BY <2>1 DEF SameRows
<1>6. Forward
  <2>1. /\ StreamIds /\ redis.made
        /\ redis' = [redis EXCEPT !.log = redis'.log]
        /\ redis'.log \subseteq redis.log \cup {[id |-> nextId, ev |-> e]}
        /\ Owed' \subseteq Owed \cup {e} /\ e \in Owed'
    BY <1>1, <1>3, Xadds DEF ReplayTypes, RunIsSound
  <2>2. /\ redis'.made /\ redis'.cursor = redis.cursor /\ redis'.pel = redis.pel
        /\ redis'.dlq = redis.dlq /\ redis.cursor \in Nat
    BY <2>1 DEF StreamIds
  <2>3. \A x \in redis'.log : x \in redis.log \/ x.ev \in Owed'
    BY <2>1
  <2>4. e \notin Sent
    BY <1>1 DEF Sent
  <2>5. cut' = cut \cup (Owed \ Owed')
    BY <1>3 DEF Owed
  <2>6. Safe \subseteq Safe'
    BY <1>2, <2>2, <2>5 DEF Safe
  <2>7. tool.at \in {"payloads", "publish"} => tool'.crowded
    BY <1>2 DEF Crowded, ReplayTypes, RunTypes
  <2> QED BY <1>1, <2>1, <2>2, <2>3, <2>4, <2>6, <2>7 DEF Forward
<1> QED BY <1>4, <1>5, <1>6, OthersKeepSound

\* The worker's reads and acknowledgements, and the operator's purge.
LEMMA GroupKeepsSound ==
  ASSUME ReplayTypes, ReplayTypes', OnceInv, RunIsSound, tool.at # "idle", ~tool.disturbed,
         (\E x \in redis.log : Read(x) \/ Ack(x) \/ DeadLetter(x)) \/ (\E e \in redis.dlq : Purge(e))
  PROVE  RunIsSound'
<1>1. /\ tool' = tool /\ row' = row /\ cut' = cut /\ settled \subseteq settled'
  BY DEF Read, Ack, DeadLetter, Purge, stores, historyVars
<1>2. SameRun /\ SameRows
  BY <1>1 DEF SameRun, SameRows
<1>3. redis.made /\ StreamIds /\ redis.cursor \in Nat
  BY DEF RunIsSound, ReplayTypes, StreamIds
<1>4. ASSUME NEW x \in redis.log, Read(x) PROVE Forward
  <2>1. /\ Owed' = Owed /\ redis'.log = redis.log /\ redis'.dlq = redis.dlq
        /\ redis'.made = redis.made /\ redis.cursor <= redis'.cursor
        /\ \A i \in redis'.pel : i \in redis.pel \/ i > redis.cursor
    BY <1>3, <1>4, ReadsMove
  <2> QED BY <1>1, <1>3, <2>1 DEF Forward, Safe
<1>5. ASSUME NEW x \in redis.log, Ack(x) \/ DeadLetter(x) PROVE Forward
  <2>1. /\ redis'.log = redis.log /\ redis'.made = redis.made /\ redis'.cursor = redis.cursor
        /\ redis'.pel = redis.pel \ {x.id} /\ redis.dlq \subseteq redis'.dlq
    <3>1. CASE Ack(x)
      BY <1>3, <3>1 DEF Ack, StreamIds
    <3>2. CASE DeadLetter(x)
      BY <1>3, <3>2 DEF DeadLetter, StreamIds
    <3> QED BY <1>5, <3>1, <3>2
  <2>2. x.ev \in settled \cup redis'.dlq
    <3>1. CASE Ack(x)
      BY <1>3, <3>1 DEF Ack, StreamIds, OnceInv, SentOnce
    <3>2. CASE DeadLetter(x)
      BY <1>3, <3>2 DEF DeadLetter, StreamIds
    <3> QED BY <1>5, <3>1, <3>2
  <2>3. \A y \in redis.log : y.id = x.id => y = x
    BY <1>3 DEF StreamIds
  <2>4. Owed' \subseteq Owed /\ Owed \subseteq Owed' \cup {x.ev}
    BY <2>1, <2>3, OwedMeans
  <2>5. Safe \subseteq Safe'
    BY <1>1, <2>1, <2>2, <2>4 DEF Safe
  <2> QED BY <1>3, <2>1, <2>4, <2>5 DEF Forward
<1>6. ASSUME NEW e \in redis.dlq, Purge(e) PROVE Forward
  <2>1. /\ redis'.log = redis.log /\ redis'.made = redis.made /\ redis'.cursor = redis.cursor
        /\ redis'.pel = redis.pel /\ redis'.dlq = redis.dlq \ {e} /\ settled' = settled \cup {e}
    BY <1>3, <1>6 DEF Purge, StreamIds
  <2>2. Owed' = Owed
    BY <2>1, OwedMeans
  <2> QED BY <1>1, <1>3, <2>1, <2>2 DEF Forward, Safe
<1> QED BY <1>2, <1>4, <1>5, <1>6, OthersKeepSound

\* Nothing that a run's reading steps look at changes while they do.
LEMMA ReadingChangesNothing ==
  ASSUME \/ AttachClaims \/ GroupState \/ PendingState \/ Scan \/ ScanDlq \/ Length \/ Payloads
         \/ \E since \in 0..clock : Select(since)
  PROVE  /\ UNCHANGED <<redis, row, settled, cut>> /\ Owed' = Owed /\ Safe' = Safe
<1>1. UNCHANGED <<redis, row, settled, cut>>
  BY DEF AttachClaims, GroupState, PendingState, Scan, ScanDlq, Length, Payloads, Select, Reading,
         stores
<1>2. Owed' = Owed
  BY <1>1 DEF Owed, OwedIn
<1> QED BY <1>1, <1>2 DEF Safe

\* ensure_groups, now() and the claims: an event with a claim is settled.
LEMMA SelectionIsSound ==
  ASSUME ReplayTypes, OnceInv, RunIsSound,
         Start \/ AttachClaims \/ (\E since \in 0..clock : Select(since))
  PROVE  RunIsSound'
<1>1. tool \in [at : Phase, now : Nat, rows : SUBSET Event, wanted : SUBSET Event,
                made : BOOLEAN, cursor : Nat, pel : SUBSET Nat, todo : SUBSET Event,
                swept : BOOLEAN, disturbed : BOOLEAN, crowded : BOOLEAN]
  BY DEF ReplayTypes, RunTypes
<1>2. CASE Start
  <2>1. redis'.made
    BY <1>2, GroupsAreMade DEF Start, Reading, ReplayTypes
  <2>2. /\ tool'.at = "select" /\ tool'.rows = {} /\ ~tool'.made
    BY <1>2 DEF Start, NoRun
  <2> QED BY <2>1, <2>2 DEF RunIsSound, Owes
<1>3. ASSUME NEW since \in 0..clock, Select(since) PROVE RunIsSound'
  <2>1. /\ tool.at = "select" /\ tool'.at = "claims" /\ tool'.made = tool.made /\ ~tool.made
        /\ tool'.disturbed = tool.disturbed
    BY <1>1, <1>3 DEF Select, ReplayTypes, RunPhases
  <2>2. redis' = redis
    BY <1>3, ReadingChangesNothing
  <2> QED BY <2>1, <2>2 DEF RunIsSound, Owes
<1>4. CASE AttachClaims
  <2>1. /\ tool.at = "claims" /\ tool'.at \in {"publish", "group"} /\ tool'.made = tool.made
        /\ ~tool.made /\ tool'.rows = tool.rows /\ tool'.disturbed = tool.disturbed
        /\ tool'.wanted = {e \in tool.rows : processed[e] = Never} /\ tool'.todo = {}
        /\ tool'.at = "publish" => tool'.wanted = {}
    BY <1>1, <1>4 DEF AttachClaims, ReplayTypes, RunPhases
  <2>2. redis' = redis /\ Safe' = Safe
    BY <1>4, ReadingChangesNothing
  <2>3. \A e \in tool'.rows \ tool'.wanted : e \in Safe'
    BY <1>1, <2>1, <2>2 DEF OnceInv, SentOnce, Safe
  <2> QED BY <2>1, <2>2, <2>3 DEF RunIsSound, Owes
<1> QED BY <1>2, <1>3, <1>4

\* The group, its pending list, the stream: whatever is owed to the group at the scan was
\* past the cursor that was read, or pending when the list was.
LEMMA ScanIsSound ==
  ASSUME ReplayTypes, OnceInv, RunIsSound, GroupState \/ PendingState \/ Scan
  PROVE  RunIsSound'
<1>1. tool \in [at : Phase, now : Nat, rows : SUBSET Event, wanted : SUBSET Event,
                made : BOOLEAN, cursor : Nat, pel : SUBSET Nat, todo : SUBSET Event,
                swept : BOOLEAN, disturbed : BOOLEAN, crowded : BOOLEAN]
      /\ redis.cursor \in Nat /\ \A i \in redis.pel : i \in Nat
      /\ \A x \in redis.log : x.id \in Nat
  BY DEF ReplayTypes, RunTypes, StreamIds
<1>2. /\ UNCHANGED <<redis, row>> /\ Safe' = Safe /\ Owed' = Owed
      /\ tool'.disturbed = tool.disturbed /\ tool'.rows = tool.rows /\ tool'.todo = tool.todo
      /\ tool'.now = tool.now
  BY <1>1, ReadingChangesNothing DEF GroupState, PendingState, Scan
<1> SUFFICES ASSUME ~tool.disturbed PROVE RunIsSound'
  BY <1>2 DEF RunIsSound
<1>3. redis.made /\ tool.at # "idle"
  BY DEF RunIsSound, GroupState, PendingState, Scan
<1>4. ASSUME NEW x \in redis.log, x.id > redis.cursor \/ x.id \in redis.pel PROVE x.ev \in Safe
  BY <1>3, <1>4, OwedMeans DEF Safe
<1>5. CASE GroupState
  <2>1. /\ tool.at = "group" /\ tool'.at = "pending" /\ tool'.made = redis.made
        /\ tool'.cursor = redis.cursor /\ tool'.pel = {} /\ tool'.wanted = tool.wanted
    BY <1>1, <1>5 DEF GroupState, ReplayTypes, RunPhases
  <2>2. \A x \in redis.log : Owes(tool'.made, tool'.cursor, tool'.pel, x) => x.ev \in Safe
    BY <1>4, <2>1 DEF Owes
  <2>3. \A e \in tool.rows \ (tool.wanted \cup tool.todo) :
          TooOld(e)' \/ row[e].state = "swept" \/ e \in Safe
    BY <1>2, <2>1 DEF RunIsSound, TooOld
  <2>4. tool'.made /\ tool'.cursor <= redis.cursor
    BY <1>1, <1>3, <2>1
  <2> QED BY <1>2, <1>3, <2>1, <2>2, <2>3, <2>4 DEF RunIsSound
<1>6. CASE PendingState
  <2>1. /\ tool.at = "pending" /\ tool'.at = "scan" /\ tool'.made = tool.made
        /\ tool'.cursor = tool.cursor /\ tool'.pel = redis.pel /\ tool'.wanted = tool.wanted
    BY <1>1, <1>6 DEF PendingState
  <2>2. \A x \in redis.log : Owes(tool'.made, tool'.cursor, tool'.pel, x) => x.ev \in Safe
    BY <1>3, <1>4, <2>1 DEF Owes, RunIsSound
  <2>3. \A e \in tool.rows \ (tool.wanted \cup tool.todo) :
          TooOld(e)' \/ row[e].state = "swept" \/ e \in Safe
    BY <1>2, <1>3, <2>1 DEF RunIsSound, TooOld
  <2>4. tool.made /\ tool.cursor <= redis.cursor
    BY <1>3, <2>1 DEF RunIsSound
  <2> QED BY <1>2, <1>3, <2>1, <2>2, <2>3, <2>4 DEF RunIsSound
<1>7. CASE Scan
  <2>1. /\ tool.at = "scan" /\ tool'.at = "dlq" /\ tool'.made = FALSE
        /\ tool'.wanted = tool.wanted \ OwedIn(redis.log, tool)
    BY <1>1, <1>7 DEF Scan
  <2>2. /\ tool.made /\ tool.cursor <= redis.cursor
        /\ \A i \in redis.pel : i \in tool.pel \/ i > tool.cursor
        /\ \A x \in redis.log : Owes(tool.made, tool.cursor, tool.pel, x) => x.ev \in Safe
    BY <1>3, <2>1 DEF RunIsSound
  <2>3. OwedIn(redis.log, tool) \subseteq Safe
    BY <2>2 DEF OwedIn
  <2>4. ASSUME NEW x \in redis.log, x.id > redis.cursor \/ x.id \in redis.pel
        PROVE  Owes(tool.made, tool.cursor, tool.pel, x)
    <3>0. tool.cursor \in Nat
      BY <1>1
    <3>1. redis.cursor \in Nat /\ x.id \in Nat
      BY DEF ReplayTypes, StreamIds
    <3>2. x.id > redis.cursor => x.id > tool.cursor
      BY <2>2, <3>0, <3>1
    <3>3. x.id \in redis.pel => x.id \in tool.pel \/ x.id > tool.cursor
      BY <2>2
    <3> QED BY <2>2, <2>4, <3>2, <3>3 DEF Owes
  <2>5. Owed \subseteq OwedIn(redis.log, tool)
    BY <2>4, OwedMeans DEF OwedIn
  <2>6. tool.todo = {}
    BY <2>1 DEF ReplayTypes, RunPhases
  <2>7. \A e \in tool.rows \ (tool'.wanted \cup tool.todo) :
          TooOld(e)' \/ row[e].state = "swept" \/ e \in Safe
    BY <1>2, <1>3, <2>1, <2>3 DEF RunIsSound, TooOld
  <2>8. (tool'.wanted \cup tool.todo) \cap Owed = {}
    BY <2>1, <2>5, <2>6
  <2> QED BY <1>2, <1>3, <2>1, <2>7, <2>8 DEF RunIsSound, Owes
<1> QED BY <1>5, <1>6, <1>7

\* The verdicts, the length and the payloads: who leaves the list is dead-lettered, too old
\* or swept.
LEMMA VerdictsAreSound ==
  ASSUME ReplayTypes, OnceInv, RunIsSound, ScanDlq \/ Length \/ Payloads
  PROVE  RunIsSound'
<1>1. tool \in [at : Phase, now : Nat, rows : SUBSET Event, wanted : SUBSET Event,
                made : BOOLEAN, cursor : Nat, pel : SUBSET Nat, todo : SUBSET Event,
                swept : BOOLEAN, disturbed : BOOLEAN, crowded : BOOLEAN]
  BY DEF ReplayTypes, RunTypes
<1>2. UNCHANGED <<redis, row>> /\ Safe' = Safe /\ Owed' = Owed
  BY ReadingChangesNothing
<1>3. CASE tool'.at = "idle"
  BY <1>3 DEF RunIsSound
<1>4. /\ tool.at \in {"dlq", "length", "payloads"} /\ ~tool.made
      /\ tool.wanted \cup tool.todo \subseteq tool.rows /\ tool.rows \subseteq Sent
  BY DEF ScanDlq, Length, Payloads, ReplayTypes, RunPhases, OnceInv, SentOnce
<1>5. ASSUME ~tool.disturbed
      PROVE  /\ redis.made /\ (tool.wanted \cup tool.todo) \cap Owed = {}
             /\ \A e \in tool.rows \ (tool.wanted \cup tool.todo) :
                  TooOld(e) \/ row[e].state = "swept" \/ e \in Safe
             /\ (tool.at = "payloads" /\ tool.todo # {} /\ ~tool.crowded) =>
                  Cardinality(redis.log) + Cardinality(tool.todo) <= MaxLen
  BY <1>4, <1>5 DEF RunIsSound
<1>6. CASE ScanDlq
  <2>1. /\ tool'.at \in {"publish", "length"} /\ tool'.wanted = {} /\ tool'.made = tool.made
        /\ tool'.todo = {e \in Event : Replayable(e)} /\ tool'.disturbed = tool.disturbed
        /\ tool'.rows = tool.rows /\ tool'.now = tool.now
        /\ tool'.at = "publish" => tool'.todo = {}
    BY <1>1, <1>6 DEF ScanDlq
  <2>2. tool.todo = {}
    BY <1>6 DEF ScanDlq, ReplayTypes, RunPhases
  <2>3. ASSUME NEW e \in tool.wanted, ~Replayable(e) PROVE TooOld(e) \/ e \in Safe
    <3>1. row[e].created \in Int /\ tool.now \in Nat /\ LedgerKeep \in Nat
      BY <1>1, KeepAssumption DEF ReplayTypes, StoreTypes, Times, Never
    <3> QED BY <2>3, <3>1 DEF Replayable, TooOld, Safe
  <2>4. tool'.todo \subseteq tool.wanted
    BY <2>1 DEF Replayable
  <2>5. \A e : TooOld(e)' <=> TooOld(e)
    BY <1>2, <2>1 DEF TooOld
  <2>6. ASSUME ~tool.disturbed
        PROVE  \A e \in tool'.rows \ (tool'.wanted \cup tool'.todo) :
                 TooOld(e) \/ row[e].state = "swept" \/ e \in Safe
    BY <1>1, <1>5, <2>1, <2>2, <2>3, <2>6
  <2> QED BY <1>2, <1>4, <1>5, <2>1, <2>4, <2>5, <2>6 DEF RunIsSound, Owes
<1>7. CASE Length /\ tool'.at # "idle"
  <2>1. /\ tool' = [tool EXCEPT !.at = "payloads"] /\ tool.at = "length"
        /\ ~(Cardinality(redis.log) + Cardinality(tool.todo) > MaxLen)
    BY <1>7 DEF Length, NoRun
  <2>2. /\ tool'.at = "payloads" /\ tool'.wanted = tool.wanted /\ tool'.made = tool.made
        /\ tool'.todo = tool.todo /\ tool'.disturbed = tool.disturbed
        /\ tool'.rows = tool.rows /\ tool'.now = tool.now
    BY <1>1, <2>1
  <2>3. Cardinality(redis.log) + Cardinality(tool.todo) <= MaxLen
    <3>1. Cardinality(redis.log) \in Nat
      BY FS_CardinalityType DEF ReplayTypes, StreamIds
    <3>2. Cardinality(tool.todo) \in Nat
      BY <1>1, EventAssumption, FS_Subset, FS_CardinalityType
    <3> QED BY <2>1, <3>1, <3>2, BoundAssumption
  <2>4. \A e : TooOld(e)' <=> TooOld(e)
    BY <1>2, <2>2 DEF TooOld
  <2> QED BY <1>2, <1>4, <1>5, <2>2, <2>3, <2>4 DEF RunIsSound, Owes
<1>8. CASE Payloads
  <2>1. /\ tool.at = "payloads" /\ tool'.at = "publish" /\ tool'.wanted = tool.wanted
        /\ tool'.made = tool.made /\ tool'.crowded = tool.crowded
        /\ tool'.todo = {e \in tool.todo : row[e].state = "published"}
        /\ tool'.disturbed = tool.disturbed
        /\ tool'.rows = tool.rows /\ tool'.now = tool.now
    BY <1>1, <1>8 DEF Payloads
  <2>2. \A e \in tool.todo \ tool'.todo : row[e].state = "swept"
    BY <1>4, <2>1 DEF Sent
  <2>3. \A e : TooOld(e)' <=> TooOld(e)
    BY <1>2, <2>1 DEF TooOld
  <2>4. ASSUME ~tool.disturbed, tool'.todo # {}, ~tool.crowded
        PROVE  Cardinality(redis.log) + Cardinality(tool'.todo) <= MaxLen
    <3>1. Cardinality(redis.log) \in Nat
      BY FS_CardinalityType DEF ReplayTypes, StreamIds
    <3>2. IsFiniteSet(tool.todo) /\ tool'.todo \in SUBSET tool.todo
      BY <1>1, <2>1, EventAssumption, FS_Subset
    <3>3. /\ Cardinality(tool.todo) \in Nat /\ Cardinality(tool'.todo) \in Nat
          /\ Cardinality(tool'.todo) <= Cardinality(tool.todo)
      BY <3>2, FS_Subset, FS_CardinalityType
    <3>4. Cardinality(redis.log) + Cardinality(tool.todo) <= MaxLen
      BY <1>5, <2>1, <2>4
    <3> QED BY <3>1, <3>3, <3>4, BoundAssumption
  <2>5. ASSUME ~tool.disturbed
        PROVE  \A e \in tool'.rows \ (tool'.wanted \cup tool'.todo) :
                 TooOld(e) \/ row[e].state = "swept" \/ e \in Safe
    BY <1>5, <2>1, <2>2, <2>5
  <2> QED BY <1>2, <1>4, <1>5, <2>1, <2>3, <2>4, <2>5 DEF RunIsSound, Owes
<1> QED BY <1>3, <1>6, <1>7, <1>8

\* A row is put back: it is owed, and with nobody else publishing it pushes nothing out.
LEMMA RepublishIsSound ==
  ASSUME ReplayTypes, OnceInv, RunIsSound, Republish
  PROVE  RunIsSound'
<1> DEFINE e == First(tool.todo)
<1>1. tool \in [at : Phase, now : Nat, rows : SUBSET Event, wanted : SUBSET Event,
                made : BOOLEAN, cursor : Nat, pel : SUBSET Nat, todo : SUBSET Event,
                swept : BOOLEAN, disturbed : BOOLEAN, crowded : BOOLEAN]
  BY DEF ReplayTypes, RunTypes
<1>2. tool.todo # {} /\ tool.at = "publish" /\ e \in tool.todo /\ tool' = [tool EXCEPT !.todo = @ \ {e}]
      /\ UNCHANGED <<row, settled>>
  BY FirstsAreSent DEF Republish, OnceInv, stores
<1>3. \E head \in {0, Excess} :
         /\ Xadd(e, head)
         /\ cut' = IF tool.crowded THEN cut \cup (Owed \ OwedIn(redis'.log, redis')) ELSE cut
  BY DEF Republish
<1> HIDE DEF e
<1>4. /\ tool'.at = "publish" /\ tool'.wanted = tool.wanted /\ tool'.made = tool.made
      /\ tool'.todo = tool.todo \ {e} /\ tool'.disturbed = tool.disturbed
      /\ tool'.rows = tool.rows /\ tool'.now = tool.now /\ tool'.crowded = tool.crowded
      /\ tool.made = FALSE /\ e \in Event
  BY <1>1, <1>2 DEF ReplayTypes, RunPhases
<1>5. PICK head \in {0, Excess} :
         /\ Xadd(e, head)
         /\ cut' = IF tool.crowded THEN cut \cup (Owed \ Owed') ELSE cut
  BY <1>3 DEF Owed
<1> SUFFICES ASSUME ~tool.disturbed PROVE RunIsSound'
  BY <1>4 DEF RunIsSound
<1>6. /\ redis.made /\ (tool.wanted \cup tool.todo) \cap Owed = {}
      /\ \A d \in tool.rows \ (tool.wanted \cup tool.todo) :
           TooOld(d) \/ row[d].state = "swept" \/ d \in Safe
      /\ ~tool.crowded => Cardinality(redis.log) + Cardinality(tool.todo) <= MaxLen
  BY <1>2 DEF RunIsSound
<1>7. /\ redis' = [redis EXCEPT !.log = redis'.log]
      /\ Owed' \subseteq Owed \cup {e} /\ e \in Owed'
      /\ head = 0 => /\ Owed \subseteq Owed'
                     /\ Cardinality(redis'.log) = Cardinality(redis.log) + 1
  BY <1>4, <1>5, <1>6, Xadds DEF ReplayTypes
<1>8. redis'.made /\ redis'.dlq = redis.dlq
  BY <1>6, <1>7 DEF ReplayTypes, StreamIds
<1>9. ASSUME ~tool.crowded
      PROVE  head = 0 /\ Cardinality(redis'.log) + Cardinality(tool'.todo) <= MaxLen
  <2>1. Cardinality(redis.log) \in Nat
    BY FS_CardinalityType DEF ReplayTypes, StreamIds
  <2>2. IsFiniteSet(tool.todo)
    BY <1>1, EventAssumption, FS_Subset
  <2>3. /\ Cardinality(tool'.todo) \in Nat /\ Cardinality(tool'.todo) = Cardinality(tool.todo) - 1
        /\ Cardinality(tool.todo) \in Nat
    BY <1>2, <1>4, <2>2, FS_RemoveElement, FS_CardinalityType
  <2>4. Cardinality(redis.log) < MaxLen
    BY <1>6, <1>9, <2>1, <2>3, BoundAssumption
  <2>5. head = 0
    BY <1>5, <2>4 DEF Excess
  <2> QED BY <1>6, <1>7, <1>9, <2>1, <2>3, <2>5, BoundAssumption
<1>10. Safe \subseteq Safe'
  <2>1. CASE tool.crowded
    BY <1>2, <1>5, <1>8, <2>1 DEF Safe
  <2>2. CASE ~tool.crowded
    BY <1>2, <1>5, <1>7, <1>8, <1>9, <2>2 DEF Safe
  <2> QED BY <2>1, <2>2
<1>11. \A d : TooOld(d)' <=> TooOld(d)
  BY <1>2, <1>4 DEF TooOld
<1>12. \A d \in tool'.rows \ (tool'.wanted \cup tool'.todo) :
         TooOld(d)' \/ row'[d].state = "swept" \/ d \in Safe'
  BY <1>2, <1>4, <1>6, <1>7, <1>10, <1>11 DEF Safe
<1>13. (tool'.wanted \cup tool'.todo) \cap Owed' = {}
  <2>1. tool.wanted = {}
    BY <1>2 DEF ReplayTypes, RunPhases
  <2> QED BY <1>4, <1>6, <1>7, <2>1
<1> QED BY <1>4, <1>8, <1>9, <1>12, <1>13 DEF RunIsSound, Owes

\* For every number of events, runs and losses: a run's reading stays sound under everybody.
THEOREM RunsStaySound == ReplaySpec => []RunIsSound
<1>1. ReplayInit => RunIsSound
  BY DEF ReplayInit, RunIsSound, NoRun
<1>2. ReplayTypes /\ ReplayTypes' /\ OnceInv /\ RunIsSound /\ [ReplayNext]_replayVars => RunIsSound'
  <2> SUFFICES ASSUME ReplayTypes, ReplayTypes', OnceInv, RunIsSound,
                      [ReplayNext]_replayVars
               PROVE  RunIsSound'
    OBVIOUS
  <2>1. CASE UNCHANGED replayVars
    BY <2>1 DEF replayVars, stores, streamVars, historyVars, RunIsSound, Safe, Owed, OwedIn, TooOld
  <2>2. CASE tool'.at = "idle" \/ tool'.disturbed
    BY <2>2 DEF RunIsSound
  <2>3. CASE ReplayStep
    <3>1. CASE RepublishFails \/ Finish
      BY <2>2, <3>1 DEF RepublishFails, Finish, NoRun
    <3> QED BY <2>3, <3>1, SelectionIsSound, ScanIsSound, VerdictsAreSound, RepublishIsSound
            DEF ReplayStep
  <2>4. ASSUME tool.at # "idle", ~tool.disturbed, ReplayNext PROVE RunIsSound'
    <3>1. CASE Lose \/ (\E e \in redis.dlq : Requeue(e))
      <4>1. tool'.disturbed
        BY <2>4, <3>1 DEF Lose, Requeue, Disturbed, Crowded, ReplayTypes, RunTypes
      <4> QED BY <2>2, <4>1
    <3>2. ~EnsureGroup
      BY <2>4 DEF EnsureGroup, RunIsSound
    <3> QED BY <2>3, <2>4, <3>1, <3>2, TablesKeepSound, PublishKeepsSound, GroupKeepsSound
            DEF ReplayNext, WorkerStep
  <2>5. ASSUME tool.at = "idle" \/ tool.disturbed, ReplayNext, ~ReplayStep PROVE RunIsSound'
    <3>1. tool' \in {tool, Disturbed, Crowded(tool), Crowded(Disturbed), Swept}
      BY <2>5 DEF ReplayNext, WorkerStep, DayPasses, Lose, Publish, SweepLedger, SweepOutbox,
                  EnsureGroup, Drop, Handle, Read, Ack, DeadLetter, Commit, Requeue, Purge
    <3>2. tool'.at = "idle" \/ tool'.disturbed
      BY <2>5, <3>1 DEF Disturbed, Crowded, Swept, ReplayTypes, RunTypes
    <3> QED BY <2>2, <3>2
  <2> QED BY <2>1, <2>3, <2>4, <2>5
<1> QED BY <1>1, <1>2, ReplayInvariant, PTL DEF ReplaySpec

\* replay.py: a run that ends without an error leaves no row behind that it selected and the
\* ledger can vouch for, however many events, groups created again and other publishers.
THEOREM RunsRecover == ReplaySpec => []RunRecovers
<1>1. ReplayTypes /\ OnceInv /\ RunIsSound => RunRecovers
  BY DEF ReplayTypes, RunPhases, RunIsSound, RunRecovers, Done, TooOld, Safe
<1> QED BY <1>1, ReplayInvariant, RunsStaySound, PTL

\* replay.py, "running it twice publishes nothing the second time": no run sends a copy of
\* what the group is still owed.
THEOREM NothingIsSentTwice == ReplaySpec => NoSecondCopy
<1> DEFINE Unowed == \A e \in Event : (tool.at = "publish" /\ e \in tool.todo \ tool'.todo /\ e \in Owed)
                                   => tool.disturbed
<1>1. RunIsSound /\ [ReplayNext]_replayVars => [Unowed]_replayVars
  BY DEF RunIsSound
<1> QED BY <1>1, RunsStaySound, PTL DEF ReplaySpec, NoSecondCopy
=============================================================================
