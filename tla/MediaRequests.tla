--------------------------- MODULE MediaRequests ---------------------------
(***************************************************************************)
(* POST /media/jobs with an Idempotency-Key, and the worker behind it:     *)
(*   api/v1/idempotency.py                      idempotent                 *)
(*   infrastructure/persistence/idempotency.py  SqlIdempotencyStore        *)
(*   modules/media/application/use_cases.py     MediaRequestService,       *)
(*                                              RunMediaJob                *)
(*   modules/media/adapters/sql_repository.py   the versioned save         *)
(*   workers/bootstrap.py                       build_media_run_handler    *)
(*                                                                         *)
(* The requests are those of AccountAccess, from the point where require   *)
(* lets them through.  All carry the same key; the key's row outlives the  *)
(* behaviour (retention removes it after days).  The relay and the engine  *)
(* behind the job's event are OutboxRelay and StreamConsumer: here it is   *)
(* delivered again and again, to several workers at once.                 *)
(***************************************************************************)
EXTENDS AccountAccess, Sequences, FiniteSets

CONSTANTS
  Worker,
  MaxJobs,        \* bound: the jobs ever created, 1..MaxJobs
  MaxDeliveries   \* bound: deliveries of the jobs' events

ASSUME MediaAssumption == MaxJobs \in Nat /\ MaxDeliveries \in Nat

Job == 1..MaxJobs

VARIABLES
  key,        \* the idempotency row: [claimed, body, job]; job 0 until completed
  job,        \* [Job -> its row]
  told,       \* [Job -> the endings published for it]
  ledger,     \* SUBSET Job: processed_events of the jobs' events
  work,       \* [Worker -> its delivery]
  delivered,  \* deliveries of the jobs' events
  answers,    \* history: the 202s sent, [body, job]
  lost        \* history: jobs committed whose request saw an error

media == <<job, told, ledger, work, delivered>>
client == <<key, answers, lost>>
vars == <<access, req, tries, media, client>>

NoKey == [claimed |-> FALSE, body |-> CHOOSE b \in Body : TRUE, job |-> 0]
Idle == [at |-> "idle", job |-> 0, version |-> 0, outcome |-> "none"]
Terminal == {"succeeded", "failed"}
Born == {j \in Job : job[j].status # "unborn"}
NextId == Cardinality(Born) + 1

Init ==
  /\ AccessInit
  /\ key = NoKey /\ answers = {} /\ lost = 0
  /\ job = [j \in Job |-> [status |-> "unborn", version |-> 0, body |-> NoKey.body]]
  /\ told = [j \in Job |-> <<>>] /\ ledger = {}
  /\ work = [w \in Worker |-> Idle] /\ delivered = 0

-----------------------------------------------------------------------------
(* idempotent(...) around MediaRequestService.submit.                      *)

\* claim: the insert wins, or meets the row another request inserted.
Claim(r) ==
  /\ At(r, "claim")
  /\ key' = IF key.claimed THEN key ELSE [claimed |-> TRUE, body |-> req[r].body, job |-> 0]
  /\ Turn(r, [req[r] EXCEPT !.at = IF key.claimed THEN "inspect" ELSE "submit"])
  /\ UNCHANGED <<access, tries, media, answers, lost>>

\* Mutant of Replays: the request hash is not compared.
ReplaysAnyBody(r) == key.claimed /\ key.job # 0

\* The verdict of _inspect on the row as the second statement sees it.
Replays(r) == key.claimed /\ key.body = req[r].body /\ key.job # 0

Answer(r, j) == answers' = answers \cup {[body |-> req[r].body, job |-> j]}

\* A row that is gone, mismatched or not completed is a 409.
Inspect(r) ==
  /\ At(r, "inspect")
  /\ IF Replays(r) THEN Answer(r, key.job) ELSE UNCHANGED answers
  /\ Turn(r, Resting)
  /\ UNCHANGED <<access, tries, media, key, lost>>

\* submit: the job and its event in one transaction.
Submits(r) ==
  /\ At(r, "submit") /\ Born # Job
  /\ job' = [job EXCEPT ![NextId] = [status |-> "queued", version |-> 1, body |-> req[r].body]]
  /\ UNCHANGED <<access, tries, told, ledger, work, delivered, key, answers>>

Submit(r) ==
  /\ Submits(r)
  /\ Turn(r, [req[r] EXCEPT !.at = "complete", !.job = NextId])
  /\ UNCHANGED lost

\* The commit is made and its answer lost, or the request is cancelled right after it.
SubmitLost(r) ==
  /\ Submits(r)
  /\ Turn(r, [req[r] EXCEPT !.at = "release"])
  /\ lost' = lost + 1

SubmitFails(r) ==
  /\ At(r, "submit")
  /\ Turn(r, [req[r] EXCEPT !.at = "release"])
  /\ UNCHANGED <<access, tries, media, client>>

Complete(r) ==
  /\ At(r, "complete")
  /\ key' = IF key.claimed THEN [key EXCEPT !.job = req[r].job] ELSE key
  /\ Answer(r, req[r].job)
  /\ Turn(r, Resting)
  /\ UNCHANGED <<access, tries, media, lost>>

\* Mutant of CompleteFails: complete is inside the try, so the key is released.
CompleteFailsAndReleases(r) ==
  /\ At(r, "complete")
  /\ Turn(r, [req[r] EXCEPT !.at = "release"])
  /\ UNCHANGED <<access, tries, media, client>>

\* complete is outside the try: its failure leaves the key claimed, a 409 from then on.
CompleteFails(r) ==
  /\ At(r, "complete")
  /\ Turn(r, Resting)
  /\ UNCHANGED <<access, tries, media, client>>

\* DELETE ... WHERE completed_at IS NULL.
Release(r) ==
  /\ At(r, "release")
  /\ key' = IF key.job = 0 THEN NoKey ELSE key
  /\ Turn(r, Resting)
  /\ UNCHANGED <<access, tries, media, answers, lost>>

-----------------------------------------------------------------------------
(* The media worker.                                                       *)

Do(w, step) == work' = [work EXCEPT ![w] = step]

\* run: a settled job is a no-op; another is loaded with its version.
Load(w, j) ==
  /\ work[w] = Idle /\ j \in Born /\ delivered < MaxDeliveries
  /\ delivered' = delivered + 1
  /\ Do(w, IF job[j].status \in Terminal THEN Idle
           ELSE [at |-> "start", job |-> j, version |-> job[j].version, outcome |-> "none"])
  /\ UNCHANGED <<access, req, tries, job, told, ledger, client>>

\* Mutant of Saves: UPDATE ... WHERE id, without the version.
SavesBlind(w) == TRUE

\* save: UPDATE ... WHERE version = the version that was read.
Saves(w) == job[work[w].job].version = work[w].version

Written(w, status) ==
  job' = [job EXCEPT ![work[w].job].status = status, ![work[w].job].version = @ + 1]

\* start_running from queued or running; a stale version raises, and the event comes back.
Start(w) ==
  /\ work[w].at = "start"
  /\ \/ /\ Saves(w) /\ Written(w, "running")
        /\ Do(w, [work[w] EXCEPT !.at = "generate", !.version = job[work[w].job].version + 1])
     \/ ~Saves(w) /\ Do(w, Idle) /\ UNCHANGED job
  /\ UNCHANGED <<access, req, tries, told, ledger, delivered, client>>

\* The generator's answer; whatever it raises becomes the job's error.
Generate(w) ==
  /\ work[w].at = "generate"
  /\ \E outcome \in Terminal : Do(w, [work[w] EXCEPT !.at = "finalize", !.outcome = outcome])
  /\ UNCHANGED <<access, req, tries, job, told, ledger, delivered, client>>

\* One transaction: the ledger's claim, the terminal save, the event.
Finalize(w) ==
  LET j == work[w].job IN
  /\ work[w].at = "finalize"
  /\ \/ /\ j \notin ledger /\ Saves(w)
        /\ Written(w, work[w].outcome)
        /\ told' = [told EXCEPT ![j] = Append(@, work[w].outcome)]
        /\ ledger' = ledger \cup {j}
     \/ (j \in ledger \/ ~Saves(w)) /\ UNCHANGED <<job, told, ledger>>
  /\ Do(w, Idle)
  /\ UNCHANGED <<access, req, tries, delivered, client>>

Crash(w) ==
  /\ work[w] # Idle /\ Do(w, Idle)
  /\ UNCHANGED <<access, req, tries, job, told, ledger, delivered, client>>

Submission(r) ==
  Claim(r) \/ Inspect(r) \/ Submit(r) \/ SubmitLost(r) \/ SubmitFails(r)
    \/ Complete(r) \/ CompleteFails(r) \/ Release(r)

Generation(w) ==
  (\E j \in Job : Load(w, j)) \/ Start(w) \/ Generate(w) \/ Finalize(w) \/ Crash(w)

Next ==
  \/ \E r \in Request : Submission(r)
  \/ \E w \in Worker : Generation(w)
  \/ \E r \in Request : (Authenticates(r) \/ GivesUp(r)) /\ UNCHANGED <<media, client>>
  \/ \E a \in Admin : Administers(a) /\ UNCHANGED <<media, client>>
  \/ CacheExpires /\ UNCHANGED <<media, client>>

Spec == Init /\ [][Next]_vars

-----------------------------------------------------------------------------
(* Properties *)

\* A key makes one job, whatever retries, failures and cancellations there are; each
\* further job stands for a commit whose request saw an error and released the key
\* (idempotency.py: "making a retry of this create safe").
OneJobPerKey == Cardinality(Born) <= 1 + lost

\* Every 202 for the key, first or replayed, names the same job, made from the body the
\* client sent with that request.
AnswersAgree ==
  /\ \A a, b \in answers : a.job = b.job
  /\ \A a \in answers : job[a.job].body = a.body

\* A job is settled once and for good: its row shows the ending that was published for
\* it, none is published for an unsettled row and never a second one, however its event
\* is delivered to several workers (RunMediaJob.finalize under the ledger's claim).
JobsSettleOnce ==
  \A j \in Job : told[j] = IF job[j].status \in Terminal THEN <<job[j].status>> ELSE <<>>

-----------------------------------------------------------------------------
(* The invariant the proofs carry.                                         *)

\* Every variable of the submission and the worker keeps its type.
MediaTypeOK ==
  /\ key \in [claimed : BOOLEAN, body : Body, job : Job \cup {0}]
  /\ job \in [Job -> [status : {"unborn", "queued", "running"} \cup Terminal,
                     version : Nat, body : Body]]
  /\ told \in [Job -> Seq(Terminal)] /\ ledger \subseteq Job
  /\ work \in [Worker -> [at : {"idle", "start", "generate", "finalize"},
                         job : Job \cup {0}, version : Nat,
                         outcome : Terminal \cup {"none"}]]
  /\ delivered \in Nat /\ lost \in Nat
  /\ answers \subseteq [body : Body, job : Job]

\* Between its claim and its completion or release the key has one holder.
HoldsKey(r) == req[r].at \in {"submit", "complete", "release"}

KeyIsHeld ==
  /\ \A r \in Request : HoldsKey(r) => key.claimed /\ key.job = 0 /\ key.body = req[r].body
  /\ \A r, s \in Request : HoldsKey(r) /\ HoldsKey(s) => r = s
  /\ key.job # 0 => key.claimed

\* Jobs are numbered as they are born; one is unaccounted for only while the key stays
\* claimed by the request that made it.
JobsAreCounted ==
  /\ Born = 1..Cardinality(Born)
  /\ OneJobPerKey
  /\ (~key.claimed \/ \E r \in Request : req[r].at \in {"submit", "release"})
       => Cardinality(Born) <= lost

\* The key, its holder and the answers name one job and its body.
AnswersNameTheKey ==
  /\ \A r \in Request : At(r, "complete") =>
       req[r].job \in Born /\ job[req[r].job].body = req[r].body
  /\ key.job # 0 => key.job \in Born /\ job[key.job].body = key.body
  /\ \A a \in answers : a.job = key.job /\ key.job # 0 /\ a.body = key.body

\* A worker whose version is still the row's has the row it read.
WorkFollowsRow(w) ==
  LET row == job[work[w].job] IN
  work[w].at # "idle" =>
    /\ work[w].job \in Born /\ work[w].version <= row.version
    /\ work[w].version = row.version =>
         row.status \in IF work[w].at = "start" THEN {"queued", "running"} ELSE {"running"}
    /\ work[w].at = "finalize" => work[w].outcome \in Terminal

LedgerFollowsRows == \A j \in Job : j \in ledger <=> job[j].status \in Terminal

MediaInv ==
  /\ AccessTypeOK /\ MediaTypeOK
  /\ EntriesAreFresh /\ StaleNeedsAnOverlap
  /\ KeyIsHeld /\ JobsAreCounted /\ AnswersNameTheKey
  /\ LedgerFollowsRows /\ JobsSettleOnce /\ \A w \in Worker : WorkFollowsRow(w)
=============================================================================
