----------------------------- MODULE SummaryJobs -----------------------------
(***************************************************************************)
(* The builds of one workspace's document summaries:                       *)
(*   modules/knowledge/domain/entities.py            SummaryJob            *)
(*   modules/knowledge/application/use_cases.py      RequestSummary,       *)
(*                                        CancelSummaryJob, BuildSummary   *)
(*   modules/knowledge/adapters/sql_repository.py    SqlSummaryJobRepository *)
(*   workers/bootstrap.py              build_knowledge_summary_handler     *)
(*                                                                         *)
(* A request inserts a queued job and its SummaryRequested event in one    *)
(* transaction.  A worker handles that event in three phases: claim (the   *)
(* row goes to running), run (provider calls, no transaction open), and    *)
(* one transaction for the ledger, the summary, the job's end and its      *)
(* event.  The worker carries the job in memory from one phase to the next *)
(* and save writes the whole row whatever the row says by then.            *)
(*                                                                         *)
(* A job is named by the request that creates it.  A key stands for        *)
(* (document, kind, lang); every key has a document of its own.            *)
(***************************************************************************)
EXTENDS Integers, Sequences, FiniteSets

CONSTANTS
  Job, Key, Worker,
  KeyOf,        \* [Job -> Key]
  MaxActive,    \* summary_max_active_jobs
  MaxFaults,    \* bound: crashes, escaping errors, redeliveries, outages
  None

ASSUME SummaryAssumption ==
  /\ KeyOf \in [Job -> Key]
  /\ None \notin Job \cup Key
  /\ IsFiniteSet(Job)
  /\ MaxActive \in Nat \ {0} /\ MaxFaults \in Nat

VARIABLES
  status,     \* [Job -> Status]: the row
  quiet,      \* SUBSET Job: running, and not written for max_build_duration_s
  docs,       \* SUBSET Key: keys whose document still exists
  stored,     \* [Key -> Job or None]: the build the stored summary is from
  events,     \* [Job -> Seq(event)]: appended to the outbox with the row
  owed,       \* SUBSET Job: SummaryRequested not acknowledged yet
  ledger,     \* SUBSET Job: SummaryRequested events claimed (DD-09)
  at,         \* [Worker -> where its handler stands]
  job,        \* [Worker -> the job it handles]
  memory,     \* [Worker -> Status]: status of the job it holds in memory
  outcome,    \* [Worker -> what it is going to settle]
  asking,     \* the request inside the workspace lock: [job, active]
  cancelling, \* SUBSET Job: cancellations that have read the row
  faults

rowVars == <<status, quiet, docs, stored, events>>
msgVars == <<owed, ledger>>
workerVars == <<at, job, memory, outcome>>
apiVars == <<asking, cancelling>>
vars == <<rowVars, msgVars, workerVars, apiVars, faults>>

Active == {"queued", "running"}
Terminal == {"succeeded", "failed", "cancelled"}
Status == Active \cup Terminal \cup {"none"}
NoRequest == [job |-> None, active |-> None]

Init ==
  /\ status = [j \in Job |-> "none"]
  /\ quiet = {} /\ docs = Key
  /\ stored = [k \in Key |-> None]
  /\ events = [j \in Job |-> <<>>]
  /\ owed = {} /\ ledger = {}
  /\ at = [w \in Worker |-> "idle"]
  /\ job = [w \in Worker |-> None]
  /\ memory = [w \in Worker |-> "none"]
  /\ outcome = [w \in Worker |-> "none"]
  /\ asking = NoRequest /\ cancelling = {}
  /\ faults = 0

Fault == faults < MaxFaults /\ faults' = faults + 1

ActiveJobs == {j \in Job : status[j] \in Active}
ActiveFor(k) == {j \in ActiveJobs : KeyOf[j] = k}

\* save and record_progress move the row's updated_at.
Written(j) == quiet' = quiet \ {j}

Says(j, what, why) == events' = [events EXCEPT ![j] = Append(@, [what |-> what, why |-> why])]

-----------------------------------------------------------------------------
(* RequestSummary, CancelSummaryJob, ReindexDocuments.                     *)

\* RequestSummaryService takes the workspace's lock; execute reads the
\* document and the job that holds the key, and refuses a key in use unless
\* that job is abandoned.
RequestRead(j) ==
  /\ status[j] = "none" /\ asking = NoRequest
  /\ KeyOf[j] \in docs
  /\ ActiveFor(KeyOf[j]) \subseteq quiet
  /\ asking' = [job |-> j,
                active |-> IF ActiveFor(KeyOf[j]) = {} THEN None
                           ELSE CHOOSE a \in ActiveFor(KeyOf[j]) : TRUE]
  /\ UNCHANGED <<rowVars, msgVars, workerVars, cancelling, faults>>

\* The rest of the transaction: end the abandoned job, count, insert, append
\* both events, commit.  A taken slot or key rolls all of it back.
RequestWrite ==
  /\ asking # NoRequest
  /\ LET j == asking.job
         a == asking.active
         rows == IF a = None THEN status ELSE [status EXCEPT ![a] = "failed"]
         active == {i \in Job : rows[i] \in Active}
         room == /\ Cardinality(active) < MaxActive
                 /\ \A i \in active : KeyOf[i] # KeyOf[j]
     IN IF room
          THEN /\ status' = [rows EXCEPT ![j] = "queued"]
               /\ owed' = owed \cup {j}
               /\ IF a = None THEN UNCHANGED <<events, quiet>>
                  ELSE Says(a, "failed", "abandoned") /\ Written(a)
          ELSE UNCHANGED <<status, owed, events, quiet>>
  /\ asking' = NoRequest
  /\ UNCHANGED <<docs, stored, ledger, workerVars, cancelling, faults>>

\* CancelSummaryJob reads the row; a finished job is refused.
CancelRead(j) ==
  /\ status[j] \in Active
  /\ cancelling' = cancelling \cup {j}
  /\ UNCHANGED <<rowVars, msgVars, workerVars, asking, faults>>

\* It saves the row it read as cancelled and appends the event.
CancelWrite(j) ==
  /\ j \in cancelling
  /\ cancelling' = cancelling \ {j}
  /\ status' = [status EXCEPT ![j] = "cancelled"]
  /\ Written(j)
  /\ Says(j, "failed", "cancelled")
  /\ UNCHANGED <<docs, stored, msgVars, workerVars, asking, faults>>

\* A re-index destroys the document and its summaries in one transaction.
Purge(k) ==
  /\ k \in docs
  /\ docs' = docs \ {k}
  /\ stored' = [stored EXCEPT ![k] = None]
  /\ UNCHANGED <<status, quiet, events, msgVars, workerVars, apiVars, faults>>

\* The row of a running job has not moved for max_build_duration_s.  A live
\* worker can be that late: the build's own timeout starts after the claim and
\* the admission, and its last write follows the timeout.
GoQuiet(j) ==
  /\ status[j] = "running" /\ j \notin quiet
  /\ quiet' = quiet \cup {j}
  /\ UNCHANGED <<status, docs, stored, events, msgVars, workerVars, apiVars,
                 faults>>

-----------------------------------------------------------------------------
(* build_knowledge_summary_handler.                                        *)

Handling(w, where) == at[w] = where
Goto(w, where) == at' = [at EXCEPT ![w] = where]
Settle(w, what) == outcome' = [outcome EXCEPT ![w] = what]

\* The handler gives up this delivery: nothing is acknowledged.
LetGo(w) ==
  /\ Goto(w, "idle")
  /\ job' = [job EXCEPT ![w] = None]
  /\ memory' = [memory EXCEPT ![w] = "none"]
  /\ Settle(w, "none")

\* A delivery starts; a second one of the same event only after a sweep.
Take(w, j) ==
  /\ Handling(w, "idle") /\ j \in owed
  /\ IF \E v \in Worker : job[v] = j THEN Fault ELSE UNCHANGED faults
  /\ Goto(w, "claim")
  /\ job' = [job EXCEPT ![w] = j]
  /\ UNCHANGED <<rowVars, msgVars, memory, outcome, apiVars>>

\* BuildSummary.claim and .fail both start from a fresh read of the row: a
\* finished job is acknowledged.
ReadJob(w, next) ==
  IF status[job[w]] \in Terminal
    THEN Goto(w, "ack") /\ UNCHANGED memory
    ELSE Goto(w, next) /\ memory' = [memory EXCEPT ![w] = status[job[w]]]

ClaimRead(w) ==
  /\ Handling(w, "claim")
  /\ ReadJob(w, "resolve")
  /\ UNCHANGED <<rowVars, msgVars, job, outcome, apiVars, faults>>

\* No route resolves a key, or the database fails under claim: both are
\* AppErrors and go to fail.
ClaimFails(w, why) ==
  /\ Handling(w, "claim") \/ Handling(w, "resolve")
  /\ why = "error" => Handling(w, "resolve")
  /\ IF why = "outage" THEN Fault ELSE UNCHANGED faults
  /\ Goto(w, "fail") /\ Settle(w, why)
  /\ UNCHANGED <<rowVars, msgVars, job, memory, apiVars>>

\* job.start and save: the row goes to running whatever it says by now, and
\* uq_summary_job_active refuses when another job holds the key meanwhile.
ClaimSave(w) ==
  /\ Handling(w, "resolve")
  /\ LET j == job[w] IN
       IF ActiveFor(KeyOf[j]) \subseteq {j}
         THEN /\ status' = [status EXCEPT ![j] = "running"]
              /\ Written(j)
              /\ Goto(w, "run") /\ memory' = [memory EXCEPT ![w] = "running"]
              /\ UNCHANGED outcome
         ELSE /\ Goto(w, "fail") /\ Settle(w, "error")
              /\ UNCHANGED <<status, quiet, memory>>
  /\ UNCHANGED <<docs, stored, events, msgVars, job, apiVars, faults>>

\* A map step's record_progress: only a row that still says running moves.
Progress(w) ==
  /\ Handling(w, "run") /\ status[job[w]] = "running" /\ job[w] \in quiet
  /\ Written(job[w])
  /\ UNCHANGED <<status, docs, stored, events, msgVars, workerVars, apiVars,
                 faults>>

\* _should_cancel finds the row finished.
NoticeCancel(w) ==
  /\ Handling(w, "run") /\ status[job[w]] \in Terminal
  /\ Goto(w, "settle") /\ Settle(w, "cancelled")
  /\ UNCHANGED <<rowVars, msgVars, job, memory, apiVars, faults>>

\* The pipeline returns a draft, or raises.
RunEnds(w, what) ==
  /\ Handling(w, "run")
  /\ Goto(w, "settle") /\ Settle(w, what)
  /\ UNCHANGED <<rowVars, msgVars, job, memory, apiVars, faults>>

\* Metering refuses the build, or the build outlives max_duration_s.
RunRefused(w) ==
  /\ Handling(w, "run")
  /\ Goto(w, "fail") /\ Settle(w, "error")
  /\ UNCHANGED <<rowVars, msgVars, job, memory, apiVars, faults>>

Fail(w) ==
  /\ Handling(w, "fail")
  /\ ReadJob(w, "settle")
  /\ UNCHANGED <<rowVars, msgVars, job, outcome, apiVars, faults>>

\* Mutant of Duplicate: the ledger row is written and its verdict ignored.
NeverDuplicate(w) == FALSE

Duplicate(w) == job[w] \in ledger

Upsert(w) ==
  /\ KeyOf[job[w]] \in docs
  /\ stored' = [stored EXCEPT ![KeyOf[job[w]]] = job[w]]

\* Mutant of EndJob: the event is appended after the transaction, and lost.
EndJobSilently(w, what, why) ==
  /\ status' = [status EXCEPT ![job[w]] = what]
  /\ Written(job[w])
  /\ UNCHANGED events

\* The job ends as the worker's memory has it, with its event.
EndJob(w, what, why) ==
  /\ status' = [status EXCEPT ![job[w]] = what]
  /\ Written(job[w])
  /\ Says(job[w], IF what = "succeeded" THEN "built" ELSE "failed", why)

\* One transaction: the ledger, what finalize writes, the outbox.
Finalize(w) ==
  /\ Handling(w, "settle")
  /\ \/ Duplicate(w) /\ UNCHANGED <<rowVars, ledger>>
     \/ /\ ~Duplicate(w)
        /\ ledger' = ledger \cup {job[w]}
        /\ CASE outcome[w] = "cancelled" -> UNCHANGED rowVars
             [] outcome[w] = "draft" ->
                  /\ Upsert(w) /\ EndJob(w, "succeeded", "draft")
                  /\ UNCHANGED docs
             [] OTHER -> /\ EndJob(w, "failed", outcome[w])
                         /\ UNCHANGED <<docs, stored>>
  /\ Goto(w, "ack")
  /\ UNCHANGED <<owed, job, memory, outcome, apiVars, faults>>

\* fk_summary_doc rejects the summary of a destroyed document: the transaction
\* rolls back and the handler records the failure in a fresh one.
FinalizeConflict(w) ==
  /\ Handling(w, "settle") /\ outcome[w] = "draft" /\ ~Duplicate(w)
  /\ KeyOf[job[w]] \notin docs
  /\ Goto(w, "fail") /\ Settle(w, "error")
  /\ UNCHANGED <<rowVars, msgVars, job, memory, apiVars, faults>>

\* The handler returned; the engine XACKs.
Ack(w) ==
  /\ Handling(w, "ack")
  /\ owed' = owed \ {job[w]}
  /\ LetGo(w)
  /\ UNCHANGED <<rowVars, ledger, apiVars, faults>>

\* The process dies or an error escapes the handler: the entry stays pending.
Abort(w) ==
  /\ ~Handling(w, "idle")
  /\ Fault
  /\ LetGo(w)
  /\ UNCHANGED <<rowVars, msgVars, apiVars>>

-----------------------------------------------------------------------------

HandlerStep(w) ==
  \/ \E j \in Job : Take(w, j)
  \/ ClaimRead(w) \/ ClaimSave(w) \/ ClaimFails(w, "error")
  \/ NoticeCancel(w)
  \/ \E what \in {"draft", "error"} : RunEnds(w, what)
  \/ RunRefused(w)
  \/ Fail(w) \/ Finalize(w) \/ FinalizeConflict(w) \/ Ack(w)

Next ==
  \/ \E j \in Job :
       RequestRead(j) \/ CancelRead(j) \/ CancelWrite(j) \/ GoQuiet(j)
  \/ RequestWrite
  \/ \E k \in Key : Purge(k)
  \/ \E w \in Worker :
       HandlerStep(w) \/ Progress(w) \/ Abort(w) \/ ClaimFails(w, "outage")

SafeSpec == Init /\ [][Next]_vars

\* A worker's handler goes on and its entry is delivered; a transaction that
\* has started ends.  Nobody is obliged to ask or to cancel.
Spec ==
  /\ SafeSpec
  /\ \A w \in Worker : WF_vars(HandlerStep(w))
  /\ WF_vars(RequestWrite)
  /\ \A j \in Job : WF_vars(CancelWrite(j))

-----------------------------------------------------------------------------
(* Properties.                                                             *)

Outcome == {"none", "draft", "error", "outage", "cancelled"}

\* Every variable keeps its type, a busy worker has a job and the job it is
\* about to build or to settle was not finished when the worker read it.
TypeOK ==
  /\ status \in [Job -> Status]
  /\ quiet \subseteq {j \in Job : status[j] = "running"}
  /\ docs \subseteq Key
  /\ stored \in [Key -> Job \cup {None}]
  /\ events \in [Job -> Seq([what : {"built", "failed"},
                             why : Outcome \cup {"abandoned"}])]
  /\ owed \subseteq Job /\ ledger \subseteq Job
  /\ at \in [Worker -> {"idle", "claim", "resolve", "run", "fail", "settle", "ack"}]
  /\ job \in [Worker -> Job \cup {None}]
  /\ memory \in [Worker -> Active \cup {"none"}]
  /\ outcome \in [Worker -> Outcome]
  /\ asking \in [job : Job \cup {None}, active : Job \cup {None}]
  /\ cancelling \subseteq Job
  /\ faults \in 0..MaxFaults
  /\ \A w \in Worker : /\ (job[w] = None) = (at[w] = "idle")
                       /\ at[w] = "settle" => memory[w] \in Active

\* A finished job has said so, and its last word is the outcome the row shows:
\* whoever waits on the stream is never told something the row does not say,
\* or nothing at all.
EndingsAreAnnounced ==
  \A j \in Job : status[j] \in Terminal =>
    /\ events[j] # <<>>
    /\ events[j][Len(events[j])].what =
         IF status[j] = "succeeded" THEN "built" ELSE "failed"

\* The places of j's events where a worker wrote its end.
Settlements(j) ==
  {i \in 1..Len(events[j]) : events[j][i].why \notin {"cancelled", "abandoned"}}

\* The DD-09 ledger: however often the request is delivered and however many
\* workers build it at a time, at most one of them writes the job's end.
SettledOnce == \A j \in Job : Cardinality(Settlements(j)) <= 1

\* Every job that was asked for is finished one day and stays so: no crash,
\* lost race or cancellation leaves its key taken for good.
JobsEnd ==
  \A j \in Job : (status[j] # "none") ~> [](status[j] \in Terminal)

-----------------------------------------------------------------------------
(* The invariant the proofs carry.                                         *)

\* Only a row that exists is owed, cancelled, handled or about to be ended as
\* abandoned; the row a request is about to insert does not exist yet, and a
\* worker builds what it saw unfinished.
RowsExist ==
  /\ \A j \in owed \cup cancelling : status[j] # "none"
  /\ \A w \in Worker : /\ job[w] # None => status[job[w]] # "none"
                       /\ at[w] = "run" => memory[w] \in Active
  /\ asking # NoRequest => asking.job \in Job /\ status[asking.job] = "none"
  /\ asking.active # None => status[asking.active] # "none"

\* A worker's end of a job comes with the ledger row, and comes alone.
EndsAreClaimed ==
  \A j \in Job : /\ Settlements(j) # {} => j \in ledger
                 /\ \A h, i \in Settlements(j) : h = i

SummaryInv == TypeOK /\ RowsExist /\ EndingsAreAnnounced /\ EndsAreClaimed

=============================================================================
