-------------------------- MODULE SummaryJobsProofs --------------------------
(***************************************************************************)
(* For every set of jobs, keys and workers, and any number of crashes and  *)
(* redeliveries: a finished job has announced the outcome its row shows,   *)
(* and at most one worker writes a job's end.                              *)
(***************************************************************************)
EXTENDS SummaryJobs, FiniteSetTheorems, TLAPS

Event == [what : {"built", "failed"}, why : Outcome \cup {"abandoned"}]

\* The half of TypeOK about the rows, their events and the messages.
RowTypes ==
  /\ status \in [Job -> Status]
  /\ quiet \subseteq {j \in Job : status[j] = "running"}
  /\ docs \subseteq Key
  /\ stored \in [Key -> Job \cup {None}]
  /\ events \in [Job -> Seq(Event)]
  /\ owed \subseteq Job /\ ledger \subseteq Job

\* The half about the workers and the requests.
WorkerTypes ==
  /\ at \in [Worker -> {"idle", "claim", "resolve", "run", "fail", "settle", "ack"}]
  /\ job \in [Worker -> Job \cup {None}]
  /\ memory \in [Worker -> Active \cup {"none"}]
  /\ outcome \in [Worker -> Outcome]
  /\ asking \in [job : Job \cup {None}, active : Job \cup {None}]
  /\ cancelling \subseteq Job
  /\ faults \in 0..MaxFaults
  /\ \A w \in Worker : /\ (job[w] = None) = (at[w] = "idle")
                       /\ at[w] = "settle" => memory[w] \in Active

\* TypeOK has two halves.
LEMMA TypeHalves == TypeOK <=> RowTypes /\ WorkerTypes
BY DEF TypeOK, RowTypes, WorkerTypes, Event

\* Nothing is asked for yet.
LEMMA InitSummaryInv == Init => SummaryInv
<1> SUFFICES ASSUME Init PROVE SummaryInv
  OBVIOUS
<1> USE SummaryAssumption DEF Init
<1>1. TypeOK
  BY DEF TypeOK, Status, Active, Terminal, Outcome, NoRequest
<1>2. RowsExist
  BY DEF RowsExist, NoRequest
<1>3. EndingsAreAnnounced
  BY DEF EndingsAreAnnounced, Terminal
<1>4. EndsAreClaimed
  BY DEF EndsAreClaimed, Settlements
<1> QED BY <1>1, <1>2, <1>3, <1>4 DEF SummaryInv

\* What appending an event to the job that ends does to the rows: its last
\* word is the new one, and the words before it stay.
LEMMA SaysLast ==
  ASSUME events \in [Job -> Seq(Event)], NEW j \in Job,
         NEW what \in {"built", "failed"}, NEW why \in Outcome \cup {"abandoned"},
         Says(j, what, why)
  PROVE  /\ events' \in [Job -> Seq(Event)]
         /\ events'[j] # <<>>
         /\ events'[j][Len(events'[j])] = [what |-> what, why |-> why]
         /\ Len(events'[j]) = Len(events[j]) + 1
         /\ \A i \in 1..Len(events[j]) : events'[j][i] = events[j][i]
         /\ \A k \in Job \ {j} : events'[k] = events[k]
<1> DEFINE e == [what |-> what, why |-> why]
<1>1. e \in Event
  BY DEF Event
<1>2. events[j] \in Seq(Event)
  OBVIOUS
<1>3. events' = [events EXCEPT ![j] = Append(events[j], e)]
  BY DEF Says
<1> HIDE DEF e
<1>4. /\ Append(events[j], e) \in Seq(Event)
      /\ Len(Append(events[j], e)) = Len(events[j]) + 1
      /\ Append(events[j], e)[Len(events[j]) + 1] = e
      /\ \A i \in 1..Len(events[j]) : Append(events[j], e)[i] = events[j][i]
      /\ Append(events[j], e) # <<>>
  BY <1>1, <1>2
<1>5. /\ events'[j] = Append(events[j], e)
      /\ events' \in [Job -> Seq(Event)]
      /\ \A k \in Job \ {j} : events'[k] = events[k]
  BY <1>3, <1>4
<1> QED BY <1>4, <1>5 DEF e

\* Ending a job - row, age and event in one transaction - keeps the rows' types
\* and announces the end.
LEMMA EndingARow ==
  ASSUME SummaryInv, NEW j \in Job,
         NEW what \in Terminal, NEW why \in Outcome \cup {"abandoned"},
         status' = [status EXCEPT ![j] = what], Written(j),
         Says(j, IF what = "succeeded" THEN "built" ELSE "failed", why)
  PROVE  /\ status' \in [Job -> Status] /\ events' \in [Job -> Seq(Event)]
         /\ quiet' \subseteq {k \in Job : status'[k] = "running"}
         /\ \A k \in Job : (status'[k] = "none") => (status[k] = "none")
         /\ \A k \in Job : k # j => status'[k] = status[k]
         /\ EndingsAreAnnounced'
<1>1. RowTypes
  BY TypeHalves DEF SummaryInv
<1>2. /\ status' \in [Job -> Status]
      /\ \A k \in Job : k # j => status'[k] = status[k]
      /\ status'[j] = what
  BY <1>1 DEF RowTypes, Status
<1>3. quiet' \subseteq {k \in Job : status'[k] = "running"}
  BY <1>1, <1>2 DEF RowTypes, Written
<1>4. \A k \in Job : (status'[k] = "none") => (status[k] = "none")
  BY <1>2 DEF Terminal
<1> DEFINE word == IF what = "succeeded" THEN "built" ELSE "failed"
<1>5. word \in {"built", "failed"}
  OBVIOUS
<1> HIDE DEF word
<1>6. /\ events' \in [Job -> Seq(Event)]
      /\ events'[j] # <<>>
      /\ events'[j][Len(events'[j])] = [what |-> word, why |-> why]
      /\ \A k \in Job \ {j} : events'[k] = events[k]
  BY <1>1, <1>5, SaysLast DEF RowTypes, word
<1>7. EndingsAreAnnounced'
  <2> SUFFICES ASSUME NEW k \in Job, status'[k] \in Terminal
               PROVE  /\ events'[k] # <<>>
                      /\ events'[k][Len(events'[k])].what =
                           IF status'[k] = "succeeded" THEN "built" ELSE "failed"
    BY DEF EndingsAreAnnounced
  <2>1. CASE k = j
    BY <2>1, <1>2, <1>6 DEF word
  <2>2. CASE k # j
    BY <2>2, <1>2, <1>6 DEF SummaryInv, EndingsAreAnnounced
  <2> QED BY <2>1, <2>2
<1> QED BY <1>2, <1>3, <1>4, <1>6, <1>7

\* A cancellation's or a replacement's event is no worker's end.
LEMMA SettlementsKept ==
  ASSUME SummaryInv, NEW j \in Job, NEW what \in {"built", "failed"},
         NEW why \in {"cancelled", "abandoned"},
         Says(j, what, why), ledger' = ledger
  PROVE  EndsAreClaimed'
<1>1. events \in [Job -> Seq(Event)] /\ why \in Outcome \cup {"abandoned"}
  BY TypeHalves DEF SummaryInv, RowTypes, Outcome
<1>2. /\ events' \in [Job -> Seq(Event)]
      /\ events'[j][Len(events'[j])] = [what |-> what, why |-> why]
      /\ Len(events'[j]) = Len(events[j]) + 1
      /\ \A i \in 1..Len(events[j]) : events'[j][i] = events[j][i]
      /\ \A k \in Job \ {j} : events'[k] = events[k]
  BY <1>1, SaysLast
<1>3. Len(events[j]) \in Nat
  BY <1>1
<1>4. ASSUME NEW k \in Job PROVE Settlements(k)' \subseteq Settlements(k)
  <2>1. CASE k # j
    BY <2>1, <1>2 DEF Settlements
  <2>2. CASE k = j
    <3> SUFFICES ASSUME NEW i \in Settlements(j)' PROVE i \in Settlements(j)
      BY <2>2
    <3>1. i \in 1..(Len(events[j]) + 1) /\ events'[j][i].why \notin {"cancelled", "abandoned"}
      BY <1>2 DEF Settlements
    <3>2. i # Len(events[j]) + 1
      BY <3>1, <1>2
    <3>3. i \in 1..Len(events[j])
      BY <3>1, <3>2, <1>3
    <3> QED BY <3>1, <3>3, <1>2 DEF Settlements
  <2> QED BY <2>1, <2>2
<1> QED BY <1>4 DEF SummaryInv, EndsAreClaimed

\* The first worker to claim the ledger row writes the only end.
LEMMA SettlementIsClaimed ==
  ASSUME SummaryInv, NEW j \in Job, NEW what \in {"built", "failed"},
         NEW why \in Outcome,
         Says(j, what, why), j \notin ledger, ledger' = ledger \cup {j}
  PROVE  EndsAreClaimed'
<1>1. events \in [Job -> Seq(Event)]
  BY TypeHalves DEF SummaryInv, RowTypes
<1>2. /\ events' \in [Job -> Seq(Event)]
      /\ Len(events'[j]) = Len(events[j]) + 1
      /\ \A i \in 1..Len(events[j]) : events'[j][i] = events[j][i]
      /\ \A k \in Job \ {j} : events'[k] = events[k]
  BY <1>1, SaysLast
<1>3. Settlements(j) = {} /\ Len(events[j]) \in Nat
  BY <1>1 DEF SummaryInv, EndsAreClaimed
<1>4. ASSUME NEW k \in Job, k # j PROVE Settlements(k)' = Settlements(k)
  BY <1>2, <1>4 DEF Settlements
<1>5. ASSUME NEW i \in Settlements(j)' PROVE i = Len(events[j]) + 1
  <2>1. i \in 1..(Len(events[j]) + 1) /\ events'[j][i].why \notin {"cancelled", "abandoned"}
    BY <1>2 DEF Settlements
  <2>2. i \notin 1..Len(events[j])
    BY <1>2, <1>3, <2>1 DEF Settlements
  <2> QED BY <2>1, <2>2, <1>3
<1>6. ASSUME NEW k \in Job
      PROVE  /\ Settlements(k)' # {} => k \in ledger'
             /\ \A h, i \in Settlements(k)' : h = i
  <2>1. CASE k = j
    BY <2>1, <1>5
  <2>2. CASE k # j
    BY <2>2, <1>4 DEF SummaryInv, EndsAreClaimed
  <2> QED BY <2>1, <2>2
<1> QED BY <1>6 DEF EndsAreClaimed

\* A step that writes neither rows nor events nor the ledger keeps what they say.
LEMMA RowsAlone ==
  ASSUME SummaryInv, UNCHANGED <<status, events, ledger>>
  PROVE  EndingsAreAnnounced' /\ EndsAreClaimed'
BY DEF SummaryInv, EndingsAreAnnounced, EndsAreClaimed, Settlements

\* The requests, the cancellations and the re-index, one action at a time.
LEMMA ApiStep ==
  ASSUME SummaryInv,
         \/ \E j \in Job : RequestRead(j) \/ CancelRead(j) \/ CancelWrite(j) \/ GoQuiet(j)
         \/ RequestWrite
         \/ \E k \in Key : Purge(k)
  PROVE  SummaryInv'
<1> USE SummaryAssumption
<1>t. RowTypes /\ WorkerTypes /\ RowsExist
  BY TypeHalves DEF SummaryInv
<1>h. SUFFICES RowTypes' /\ WorkerTypes' /\ RowsExist' /\ EndingsAreAnnounced' /\ EndsAreClaimed'
  <2>1. TypeOK' <=> RowTypes' /\ WorkerTypes'
    BY DEF TypeOK, RowTypes, WorkerTypes, Event
  <2> QED BY <2>1 DEF SummaryInv
<1> DEFINE Goal == RowTypes' /\ WorkerTypes' /\ RowsExist' /\ EndingsAreAnnounced' /\ EndsAreClaimed'
<1>1. ASSUME NEW j \in Job, RequestRead(j) PROVE Goal
  <2>1. /\ UNCHANGED <<rowVars, msgVars, workerVars, cancelling, faults>>
        /\ status[j] = "none"
        /\ asking'.job = j
        /\ asking'.active = None \/ asking'.active \in ActiveFor(KeyOf[j])
        /\ asking' \in [job : Job \cup {None}, active : Job \cup {None}]
    BY <1>1 DEF RequestRead, ActiveFor, ActiveJobs
  <2>2. RowTypes' /\ WorkerTypes'
    BY <2>1, <1>t DEF RowTypes, WorkerTypes, rowVars, msgVars, workerVars
  <2>3. RowsExist'
    BY <2>1, <1>t DEF RowsExist, ActiveFor, ActiveJobs, Active, rowVars, msgVars, workerVars
  <2>4. EndingsAreAnnounced' /\ EndsAreClaimed'
    BY <2>1, RowsAlone DEF rowVars, msgVars
  <2> QED BY <2>2, <2>3, <2>4
<1>2. ASSUME NEW j \in Job, CancelRead(j) PROVE Goal
  <2>1. /\ UNCHANGED <<rowVars, msgVars, workerVars, asking, faults>>
        /\ status[j] \in Active /\ cancelling' = cancelling \cup {j}
    BY <1>2 DEF CancelRead
  <2>2. RowTypes' /\ WorkerTypes'
    BY <2>1, <1>t DEF RowTypes, WorkerTypes, rowVars, msgVars, workerVars
  <2>3. RowsExist'
    BY <2>1, <1>t DEF RowsExist, Active, rowVars, msgVars, workerVars
  <2>4. EndingsAreAnnounced' /\ EndsAreClaimed'
    BY <2>1, RowsAlone DEF rowVars, msgVars
  <2> QED BY <2>2, <2>3, <2>4
<1>3. ASSUME NEW j \in Job, CancelWrite(j) PROVE Goal
  <2>1. /\ UNCHANGED <<docs, stored, msgVars, workerVars, asking, faults>>
        /\ j \in cancelling /\ cancelling' = cancelling \ {j}
        /\ status' = [status EXCEPT ![j] = "cancelled"]
        /\ Written(j) /\ Says(j, "failed", "cancelled")
    BY <1>3 DEF CancelWrite
  <2>2. "cancelled" \in Terminal /\ "cancelled" \in Outcome
    BY DEF Terminal, Outcome
  <2>3. /\ status' \in [Job -> Status] /\ events' \in [Job -> Seq(Event)]
        /\ quiet' \subseteq {k \in Job : status'[k] = "running"}
        /\ \A k \in Job : (status'[k] = "none") => (status[k] = "none")
        /\ \A k \in Job : k # j => status'[k] = status[k]
        /\ EndingsAreAnnounced'
    BY <2>1, <2>2, EndingARow
  <2>4. RowTypes' /\ WorkerTypes'
    BY <2>1, <2>3, <1>t DEF RowTypes, WorkerTypes, msgVars, workerVars
  <2>5. status[j] # "none"
    BY <2>1, <1>t DEF RowsExist
  <2>6. RowsExist'
    BY <2>1, <2>3, <2>5, <1>t DEF RowsExist, RowTypes, WorkerTypes, msgVars, workerVars
  <2>7. EndsAreClaimed'
    BY <2>1, SettlementsKept DEF msgVars
  <2> QED BY <2>3, <2>4, <2>6, <2>7
<1>4. ASSUME NEW j \in Job, GoQuiet(j) PROVE Goal
  <2>1. /\ UNCHANGED <<status, docs, stored, events, msgVars, workerVars, apiVars, faults>>
        /\ status[j] = "running" /\ quiet' = quiet \cup {j}
    BY <1>4 DEF GoQuiet
  <2>2. RowTypes' /\ WorkerTypes'
    BY <2>1, <1>t DEF RowTypes, WorkerTypes, msgVars, workerVars, apiVars
  <2>3. RowsExist'
    BY <2>1, <1>t DEF RowsExist, msgVars, workerVars, apiVars
  <2>4. EndingsAreAnnounced' /\ EndsAreClaimed'
    BY <2>1, RowsAlone DEF msgVars
  <2> QED BY <2>2, <2>3, <2>4
<1>5. ASSUME NEW k \in Key, Purge(k) PROVE Goal
  <2>1. /\ UNCHANGED <<status, quiet, events, msgVars, workerVars, apiVars, faults>>
        /\ docs' = docs \ {k} /\ stored' = [stored EXCEPT ![k] = None]
    BY <1>5 DEF Purge
  <2>2. RowTypes' /\ WorkerTypes'
    BY <2>1, <1>t DEF RowTypes, WorkerTypes, msgVars, workerVars, apiVars
  <2>3. RowsExist'
    BY <2>1, <1>t DEF RowsExist, msgVars, workerVars, apiVars
  <2>4. EndingsAreAnnounced' /\ EndsAreClaimed'
    BY <2>1, RowsAlone DEF msgVars
  <2> QED BY <2>2, <2>3, <2>4
<1>6. CASE RequestWrite
  <2> DEFINE j == asking.job
             a == asking.active
  <2>1. /\ j \in Job /\ status[j] = "none" /\ a \in Job \cup {None}
        /\ (a # None => status[a] # "none")
        /\ asking' = NoRequest /\ asking # NoRequest
        /\ UNCHANGED <<docs, stored, ledger, workerVars, cancelling, faults>>
    BY <1>6, <1>t DEF RequestWrite, RowsExist, WorkerTypes
  <2>n. NoRequest \in [job : Job \cup {None}, active : Job \cup {None}] /\ NoRequest.active = None
    BY DEF NoRequest
  <2>2. CASE UNCHANGED <<status, owed, events, quiet>>
    <3>1. RowTypes' /\ WorkerTypes'
      BY <2>1, <2>2, <2>n, <1>t DEF RowTypes, WorkerTypes, workerVars
    <3>2. RowsExist'
      BY <2>1, <2>2, <2>n, <1>t DEF RowsExist, workerVars
    <3>3. EndingsAreAnnounced' /\ EndsAreClaimed'
      BY <2>1, <2>2, RowsAlone
    <3> QED BY <3>1, <3>2, <3>3
  <2>3. CASE /\ a = None /\ status' = [status EXCEPT ![j] = "queued"]
             /\ owed' = owed \cup {j} /\ UNCHANGED <<events, quiet>>
    <3>0. /\ status' \in [Job -> Status] /\ status'[j] = "queued"
          /\ \A k \in Job : k # j => status'[k] = status[k]
      BY <2>1, <2>3, <1>t DEF RowTypes, Status, Active
    <3>1. RowTypes'
      BY <2>1, <2>3, <3>0, <1>t DEF RowTypes
    <3>2. WorkerTypes'
      BY <2>1, <2>3, <2>n, <1>t DEF WorkerTypes, workerVars
    <3>3. RowsExist'
      BY <2>1, <2>3, <2>n, <3>0, <1>t DEF RowsExist, RowTypes, WorkerTypes, workerVars
    <3>4. EndingsAreAnnounced'
      BY <2>1, <2>3, <3>0 DEF SummaryInv, EndingsAreAnnounced, Terminal
    <3>5. EndsAreClaimed'
      BY <2>1, <2>3 DEF SummaryInv, EndsAreClaimed, Settlements
    <3> QED BY <3>1, <3>2, <3>3, <3>4, <3>5
  <2>4. CASE /\ a # None
             /\ status' = [[status EXCEPT ![a] = "failed"] EXCEPT ![j] = "queued"]
             /\ owed' = owed \cup {j} /\ Says(a, "failed", "abandoned") /\ Written(a)
    <3>0. a \in Job /\ a # j
      BY <2>1, <2>4
    <3>1. /\ status' \in [Job -> Status] /\ status'[j] = "queued" /\ status'[a] = "failed"
          /\ \A k \in Job : k \notin {a, j} => status'[k] = status[k]
      BY <2>1, <2>4, <3>0, <1>t DEF RowTypes, Status, Active, Terminal
    <3>2. /\ events' \in [Job -> Seq(Event)]
          /\ events'[a] # <<>>
          /\ events'[a][Len(events'[a])] = [what |-> "failed", why |-> "abandoned"]
          /\ \A k \in Job \ {a} : events'[k] = events[k]
      BY <2>4, <3>0, <1>t, SaysLast DEF RowTypes
    <3>3. quiet' \subseteq {k \in Job : status'[k] = "running"}
      BY <2>1, <2>4, <3>1, <1>t DEF RowTypes, Written
    <3>4. RowTypes'
      BY <2>1, <2>4, <3>1, <3>2, <3>3, <1>t DEF RowTypes
    <3>5. WorkerTypes'
      BY <2>1, <2>4, <2>n, <1>t DEF WorkerTypes, workerVars
    <3>6. \A k \in Job : (status'[k] = "none") => (status[k] = "none")
      BY <3>1
    <3>7. RowsExist'
      BY <2>1, <2>4, <2>n, <3>1, <3>6, <1>t DEF RowsExist, RowTypes, WorkerTypes, workerVars
    <3>8. EndingsAreAnnounced'
      <4> SUFFICES ASSUME NEW k \in Job, status'[k] \in Terminal
                   PROVE  /\ events'[k] # <<>>
                          /\ events'[k][Len(events'[k])].what =
                               IF status'[k] = "succeeded" THEN "built" ELSE "failed"
        BY DEF EndingsAreAnnounced
      <4>1. k # j
        BY <3>1 DEF Terminal
      <4>2. CASE k = a
        BY <4>2, <3>1, <3>2
      <4>3. CASE k # a
        BY <4>1, <4>3, <3>1, <3>2 DEF SummaryInv, EndingsAreAnnounced
      <4> QED BY <4>2, <4>3
    <3>9. EndsAreClaimed'
      BY <2>1, <2>4, <3>0, SettlementsKept
    <3> QED BY <3>4, <3>5, <3>7, <3>8, <3>9
  <2> QED BY <1>6, <2>2, <2>3, <2>4 DEF RequestWrite
<1> QED BY <1>1, <1>2, <1>3, <1>4, <1>5, <1>6

\* What a worker's variables are, whatever the rows say.
WorkerShape ==
  /\ at \in [Worker -> {"idle", "claim", "resolve", "run", "fail", "settle", "ack"}]
  /\ job \in [Worker -> Job \cup {None}]
  /\ memory \in [Worker -> Active \cup {"none"}]
  /\ outcome \in [Worker -> Outcome]
  /\ faults \in 0..MaxFaults
  /\ \A w \in Worker : /\ (job[w] = None) = (at[w] = "idle")
                       /\ at[w] \in {"run", "settle"} => memory[w] \in Active
                       /\ job[w] # None => status[job[w]] # "none"

\* A step of a handler that writes no row only has its own state to keep.
LEMMA HandlerMoves ==
  ASSUME SummaryInv, UNCHANGED <<status, docs, stored, events, ledger, apiVars>>,
         quiet' \subseteq quiet, owed' \subseteq owed, WorkerShape'
  PROVE  SummaryInv'
<1>t. RowTypes /\ WorkerTypes /\ RowsExist
  BY TypeHalves DEF SummaryInv
<1>1. RowTypes'
  BY <1>t DEF RowTypes
<1>2. WorkerTypes'
  BY <1>t DEF WorkerTypes, WorkerShape, apiVars
<1>3. RowsExist'
  BY <1>t DEF RowsExist, WorkerShape, apiVars
<1>4. EndingsAreAnnounced' /\ EndsAreClaimed'
  BY RowsAlone
<1>5. TypeOK'
  BY <1>1, <1>2 DEF TypeOK, RowTypes, WorkerTypes, Event
<1> QED BY <1>3, <1>4, <1>5 DEF SummaryInv

\* The steps of a handler that write no row, one action at a time.
LEMMA HandlerStepsKeepRows ==
  ASSUME SummaryInv, NEW w \in Worker,
         \/ \E j \in Job : Take(w, j)
         \/ ClaimRead(w) \/ NoticeCancel(w) \/ RunRefused(w) \/ Fail(w)
         \/ FinalizeConflict(w) \/ Ack(w) \/ Progress(w) \/ Abort(w)
         \/ \E why \in {"error", "outage"} : ClaimFails(w, why)
         \/ \E what \in {"draft", "error"} : RunEnds(w, what)
  PROVE  SummaryInv'
<1> USE SummaryAssumption
<1>t. RowTypes /\ RowsExist
  BY TypeHalves DEF SummaryInv
<1>s. WorkerShape
  BY TypeHalves DEF SummaryInv, WorkerTypes, RowsExist, WorkerShape
<1>f. ASSUME Fault PROVE faults' \in 0..MaxFaults
  BY <1>s, <1>f DEF WorkerShape, Fault
<1>r. ASSUME NEW next \in {"resolve", "settle"}, ReadJob(w, next), at[w] # "idle",
             UNCHANGED <<status, job, outcome, faults>>
      PROVE  WorkerShape'
  <2>1. job[w] \in Job /\ status[job[w]] \in Status \ {"none"}
    BY <1>r, <1>s, <1>t DEF WorkerShape, RowTypes
  <2>2. CASE status[job[w]] \in Terminal
    BY <2>1, <2>2, <1>r, <1>s DEF ReadJob, Goto, WorkerShape
  <2>3. CASE status[job[w]] \notin Terminal
    <3>1. status[job[w]] \in Active
      BY <2>1, <2>3 DEF Status
    <3> QED BY <2>1, <2>3, <3>1, <1>r, <1>s DEF ReadJob, Goto, WorkerShape
  <2> QED BY <2>2, <2>3
<1>m. ASSUME UNCHANGED <<rowVars, ledger, apiVars>>, owed' \subseteq owed, WorkerShape'
      PROVE  SummaryInv'
  BY <1>m, HandlerMoves DEF rowVars
<1>1. ASSUME NEW j \in Job, Take(w, j) PROVE SummaryInv'
  <2>1. status[j] # "none"
    BY <1>1, <1>t DEF Take, RowsExist
  <2>2. faults' \in 0..MaxFaults
    BY <1>1, <1>s, <1>f DEF Take, WorkerShape
  <2>3. WorkerShape'
    BY <1>1, <1>s, <2>1, <2>2 DEF Take, Handling, Goto, WorkerShape, rowVars
  <2> QED BY <1>1, <1>m, <2>3 DEF Take, msgVars
<1>2. CASE ClaimRead(w)
  <2>1. WorkerShape'
    BY <1>2, <1>r DEF ClaimRead, Handling, rowVars
  <2> QED BY <1>2, <1>m, <2>1 DEF ClaimRead, msgVars
<1>3. CASE Fail(w)
  <2>1. WorkerShape'
    BY <1>3, <1>r DEF Fail, Handling, rowVars
  <2> QED BY <1>3, <1>m, <2>1 DEF Fail, msgVars
<1>4. ASSUME NEW why \in {"error", "outage"}, ClaimFails(w, why) PROVE SummaryInv'
  <2>1. faults' \in 0..MaxFaults
    BY <1>4, <1>s, <1>f DEF ClaimFails, WorkerShape
  <2>2. WorkerShape'
    BY <1>4, <1>s, <2>1 DEF ClaimFails, Handling, Goto, Settle, Outcome, WorkerShape, rowVars
  <2> QED BY <1>4, <1>m, <2>2 DEF ClaimFails, msgVars
<1>5. CASE NoticeCancel(w)
  <2>1. WorkerShape'
    BY <1>5, <1>s DEF NoticeCancel, Handling, Goto, Settle, Outcome, WorkerShape, rowVars
  <2> QED BY <1>5, <1>m, <2>1 DEF NoticeCancel, msgVars
<1>6. ASSUME NEW what \in {"draft", "error"}, RunEnds(w, what) PROVE SummaryInv'
  <2>1. WorkerShape'
    BY <1>6, <1>s DEF RunEnds, Handling, Goto, Settle, Outcome, WorkerShape, rowVars
  <2> QED BY <1>6, <1>m, <2>1 DEF RunEnds, msgVars
<1>7. CASE RunRefused(w)
  <2>1. WorkerShape'
    BY <1>7, <1>s DEF RunRefused, Handling, Goto, Settle, Outcome, WorkerShape, rowVars
  <2> QED BY <1>7, <1>m, <2>1 DEF RunRefused, msgVars
<1>8. CASE FinalizeConflict(w)
  <2>1. WorkerShape'
    BY <1>8, <1>s DEF FinalizeConflict, Handling, Goto, Settle, Outcome, WorkerShape, rowVars
  <2> QED BY <1>8, <1>m, <2>1 DEF FinalizeConflict, msgVars
<1>9. CASE Progress(w)
  <2>1. /\ UNCHANGED <<status, docs, stored, events, ledger, apiVars>>
        /\ quiet' \subseteq quiet /\ owed' \subseteq owed
        /\ UNCHANGED <<workerVars, faults>>
    BY <1>9 DEF Progress, Written, msgVars
  <2>2. WorkerShape'
    BY <2>1, <1>s DEF WorkerShape, workerVars
  <2> QED BY <2>1, <2>2, HandlerMoves
<1>10. ASSUME LetGo(w), status' = status, faults' \in 0..MaxFaults PROVE WorkerShape'
  BY <1>10, <1>s DEF LetGo, Goto, Settle, Outcome, WorkerShape
<1>11. CASE Ack(w)
  <2>1. faults' \in 0..MaxFaults /\ status' = status
    BY <1>11, <1>s DEF Ack, WorkerShape, rowVars
  <2>2. WorkerShape'
    BY <1>11, <1>10, <2>1 DEF Ack
  <2> QED BY <1>11, <1>m, <2>2 DEF Ack
<1>12. CASE Abort(w)
  <2>1. WorkerShape'
    BY <1>12, <1>10, <1>f DEF Abort, rowVars
  <2> QED BY <1>12, <1>m, <2>1 DEF Abort, msgVars
<1> QED BY <1>1, <1>2, <1>3, <1>4, <1>5, <1>6, <1>7, <1>8, <1>9, <1>11, <1>12

\* The claim writes the row as running, whatever it says by then.
LEMMA ClaimSaveStep ==
  ASSUME SummaryInv, NEW w \in Worker, ClaimSave(w)
  PROVE  SummaryInv'
<1> USE SummaryAssumption
<1>t. RowTypes /\ WorkerTypes /\ RowsExist
  BY TypeHalves DEF SummaryInv
<1> DEFINE j == job[w]
<1>1. /\ j \in Job /\ status[j] # "none" /\ at[w] = "resolve"
      /\ UNCHANGED <<docs, stored, events, msgVars, job, apiVars, faults>>
  BY <1>t DEF ClaimSave, Handling, WorkerTypes, RowsExist
<1>2. CASE /\ status' = [status EXCEPT ![j] = "running"] /\ Written(j)
           /\ Goto(w, "run") /\ memory' = [memory EXCEPT ![w] = "running"]
           /\ UNCHANGED outcome
  <2>1. /\ status' \in [Job -> Status] /\ status'[j] = "running"
        /\ \A k \in Job : k # j => status'[k] = status[k]
    BY <1>1, <1>2, <1>t DEF RowTypes, Status, Active
  <2>2. RowTypes'
    BY <1>1, <1>2, <2>1, <1>t DEF RowTypes, Written, msgVars
  <2>3. WorkerTypes'
    BY <1>1, <1>2, <1>t DEF WorkerTypes, Goto, Active, apiVars
  <2>4. RowsExist'
    BY <1>1, <1>2, <2>1, <1>t DEF RowsExist, RowTypes, WorkerTypes, Goto, Active, msgVars, apiVars
  <2>5. EndingsAreAnnounced'
    BY <1>1, <2>1 DEF SummaryInv, EndingsAreAnnounced, Terminal
  <2>6. EndsAreClaimed'
    BY <1>1 DEF SummaryInv, EndsAreClaimed, Settlements, msgVars
  <2>7. TypeOK'
    BY <2>2, <2>3 DEF TypeOK, RowTypes, WorkerTypes, Event
  <2> QED BY <2>4, <2>5, <2>6, <2>7 DEF SummaryInv
<1>3. CASE /\ Goto(w, "fail") /\ Settle(w, "error") /\ UNCHANGED <<status, quiet, memory>>
  <2>1. WorkerShape'
    BY <1>1, <1>3, <1>t DEF WorkerTypes, RowsExist, WorkerShape, Goto, Settle, Outcome
  <2> QED BY <1>1, <1>3, <2>1, HandlerMoves DEF msgVars
<1> QED BY <1>2, <1>3 DEF ClaimSave

\* The last transaction: nothing for a duplicate, nothing but the ledger for a
\* job that was cancelled, and otherwise the job's end with its event.
LEMMA FinalizeStep ==
  ASSUME SummaryInv, NEW w \in Worker, Finalize(w)
  PROVE  SummaryInv'
<1> USE SummaryAssumption
<1>t. RowTypes /\ WorkerTypes /\ RowsExist
  BY TypeHalves DEF SummaryInv
<1> DEFINE j == job[w]
<1>1. /\ j \in Job /\ status[j] # "none" /\ at[w] = "settle" /\ Goto(w, "ack")
      /\ UNCHANGED <<owed, job, memory, outcome, apiVars, faults>>
  BY <1>t DEF Finalize, Handling, WorkerTypes, RowsExist
<1>2. CASE UNCHANGED <<rowVars, ledger>>
  <2>1. WorkerShape'
    BY <1>1, <1>2, <1>t DEF WorkerTypes, RowsExist, WorkerShape, Goto, rowVars
  <2> QED BY <1>1, <1>2, <2>1, HandlerMoves DEF rowVars
<1>3. CASE ledger' = ledger \cup {j} /\ UNCHANGED rowVars
  <2>1. RowTypes'
    BY <1>1, <1>3, <1>t DEF RowTypes, rowVars
  <2>2. WorkerTypes'
    BY <1>1, <1>3, <1>t DEF WorkerTypes, Goto, apiVars
  <2>3. RowsExist'
    BY <1>1, <1>3, <1>t DEF RowsExist, WorkerTypes, Goto, apiVars, rowVars
  <2>4. EndingsAreAnnounced'
    BY <1>3 DEF SummaryInv, EndingsAreAnnounced, rowVars
  <2>5. EndsAreClaimed'
    BY <1>3 DEF SummaryInv, EndsAreClaimed, Settlements, rowVars
  <2>6. TypeOK'
    BY <2>1, <2>2 DEF TypeOK, RowTypes, WorkerTypes, Event
  <2> QED BY <2>3, <2>4, <2>5, <2>6 DEF SummaryInv
<1>4. ASSUME NEW what \in {"succeeded", "failed"}, NEW why \in Outcome,
             EndJob(w, what, why), j \notin ledger, ledger' = ledger \cup {j},
             docs' = docs, stored' \in [Key -> Job \cup {None}]
      PROVE  SummaryInv'
  <2>1. what \in Terminal
    BY DEF Terminal
  <2>2. /\ status' = [status EXCEPT ![j] = what] /\ Written(j)
        /\ Says(j, IF what = "succeeded" THEN "built" ELSE "failed", why)
    BY <1>4 DEF EndJob
  <2>3. /\ status' \in [Job -> Status] /\ events' \in [Job -> Seq(Event)]
        /\ quiet' \subseteq {k \in Job : status'[k] = "running"}
        /\ \A k \in Job : (status'[k] = "none") => (status[k] = "none")
        /\ \A k \in Job : k # j => status'[k] = status[k]
        /\ EndingsAreAnnounced'
    BY <1>1, <2>1, <2>2, EndingARow
  <2>4. RowTypes'
    BY <1>1, <1>4, <2>3, <1>t DEF RowTypes
  <2>5. WorkerTypes'
    BY <1>1, <1>t DEF WorkerTypes, Goto, apiVars
  <2>6. RowsExist'
    BY <1>1, <2>3, <1>t DEF RowsExist, RowTypes, WorkerTypes, Goto, apiVars
  <2>7. EndsAreClaimed'
    BY <1>1, <1>4, <2>2, SettlementIsClaimed
  <2>8. TypeOK'
    BY <2>4, <2>5 DEF TypeOK, RowTypes, WorkerTypes, Event
  <2> QED BY <2>3, <2>6, <2>7, <2>8 DEF SummaryInv
<1>5. outcome[w] \in Outcome
  BY <1>t DEF WorkerTypes
<1>6. ASSUME ~Duplicate(w), ledger' = ledger \cup {j}, outcome[w] = "draft",
             Upsert(w), EndJob(w, "succeeded", "draft"), UNCHANGED docs
      PROVE  SummaryInv'
  <2>1. stored' \in [Key -> Job \cup {None}]
    BY <1>1, <1>6, <1>t DEF Upsert, RowTypes
  <2> QED BY <1>4, <1>6, <2>1 DEF Duplicate, Outcome
<1>7. ASSUME ~Duplicate(w), ledger' = ledger \cup {j},
             EndJob(w, "failed", outcome[w]), UNCHANGED <<docs, stored>>
      PROVE  SummaryInv'
  BY <1>4, <1>5, <1>7, <1>t DEF Duplicate, RowTypes
<1>8. CASE Duplicate(w)
  BY <1>8, <1>2 DEF Finalize
<1>9. CASE ~Duplicate(w)
  <2>1. /\ ledger' = ledger \cup {j}
        /\ CASE outcome[w] = "cancelled" -> UNCHANGED rowVars
             [] outcome[w] = "draft" ->
                  /\ Upsert(w) /\ EndJob(w, "succeeded", "draft")
                  /\ UNCHANGED docs
             [] OTHER -> /\ EndJob(w, "failed", outcome[w])
                         /\ UNCHANGED <<docs, stored>>
    BY <1>9 DEF Finalize
  <2>2. CASE outcome[w] = "cancelled"
    BY <2>1, <2>2, <1>3
  <2>3. CASE outcome[w] = "draft"
    BY <1>9, <2>1, <2>3, <1>6
  <2>4. CASE outcome[w] \notin {"cancelled", "draft"}
    BY <1>9, <2>1, <2>4, <1>7
  <2> QED BY <2>2, <2>3, <2>4
<1> QED BY <1>8, <1>9

\* Every step keeps the invariant.
LEMMA NextSummaryInv == SummaryInv /\ [Next]_vars => SummaryInv'
<1> SUFFICES ASSUME SummaryInv, [Next]_vars PROVE SummaryInv'
  OBVIOUS
<1>1. CASE UNCHANGED vars
  <2>1. /\ UNCHANGED <<status, docs, stored, events, ledger, apiVars>>
        /\ quiet' \subseteq quiet /\ owed' \subseteq owed
        /\ UNCHANGED <<at, job, memory, outcome, faults>>
    BY <1>1 DEF vars, rowVars, msgVars, workerVars
  <2>2. WorkerShape
    BY TypeHalves DEF SummaryInv, WorkerTypes, RowsExist, WorkerShape
  <2>3. WorkerShape'
    BY <2>1, <2>2 DEF WorkerShape
  <2> QED BY <2>1, <2>3, HandlerMoves
<1>2. CASE \/ \E j \in Job : RequestRead(j) \/ CancelRead(j) \/ CancelWrite(j) \/ GoQuiet(j)
           \/ RequestWrite
           \/ \E k \in Key : Purge(k)
  BY <1>2, ApiStep
<1>3. ASSUME NEW w \in Worker,
             HandlerStep(w) \/ Progress(w) \/ Abort(w) \/ ClaimFails(w, "outage")
      PROVE  SummaryInv'
  BY <1>3, HandlerStepsKeepRows, ClaimSaveStep, FinalizeStep DEF HandlerStep
<1> QED BY <1>1, <1>2, <1>3 DEF Next

\* Every variable of the summary jobs keeps its type, a busy worker has a job,
\* and what it settles it saw unfinished.
THEOREM SummaryTypes == SafeSpec => []TypeOK
<1>1. SummaryInv => TypeOK
  BY DEF SummaryInv
<1> QED BY <1>1, InitSummaryInv, NextSummaryInv, PTL DEF SafeSpec

\* BuildSummary.finalize, CancelSummaryJob and RequestSummary append the event in
\* the transaction that ends the row: whatever races, a finished job's last
\* event is what its row shows.
THEOREM EndingsAnnounced == SafeSpec => []EndingsAreAnnounced
<1>1. SummaryInv => EndingsAreAnnounced
  BY DEF SummaryInv
<1> QED BY <1>1, InitSummaryInv, NextSummaryInv, PTL DEF SafeSpec

\* A set whose members are all equal has at most one.
LEMMA AtMostOne ==
  ASSUME NEW S, \A x, y \in S : x = y
  PROVE  Cardinality(S) <= 1
<1>1. CASE S = {}
  BY <1>1, FS_EmptySet
<1>2. CASE S # {}
  <2>1. PICK x \in S : TRUE
    BY <1>2
  <2>2. S = {x}
    BY <2>1
  <2> QED BY <2>2, FS_Singleton
<1> QED BY <1>1, <1>2

\* The DD-09 ledger of build_knowledge_summary_handler: for any number of
\* deliveries, workers and crashes, one worker at most writes a job's end.
THEOREM JobSettledOnce == SafeSpec => []SettledOnce
<1>1. SummaryInv => SettledOnce
  BY AtMostOne DEF SummaryInv, EndsAreClaimed, SettledOnce
<1> QED BY <1>1, InitSummaryInv, NextSummaryInv, PTL DEF SafeSpec

=============================================================================
