------------------------- MODULE MediaRequestsProofs -------------------------
(***************************************************************************)
(* For every set of requests, operators, workers and bodies, and any       *)
(* number of changes, failures and deliveries: what AccountAccess says of  *)
(* stale principals and MediaRequests of keys, answers and jobs.           *)
(***************************************************************************)
EXTENDS MediaRequests, FiniteSetTheorems, TLAPS

ReqRecord == [at : Stage, body : Body, began : Nat, may : BOOLEAN,
              epoch : Nat, late : BOOLEAN, job : Nat]
AdminRecord == [at : {"idle", "denylist", "forget"},
                kind : {"none", "disable", "enable", "role"}, epoch : Nat]
CacheRecord == [may : BOOLEAN, epoch : Nat, late : BOOLEAN, present : BOOLEAN]
JobRecord == [status : {"unborn", "queued", "running"} \cup Terminal,
              version : Nat, body : Body]
WorkRecord == [at : {"idle", "start", "generate", "finalize"},
               job : Job \cup {0}, version : Nat, outcome : Terminal \cup {"none"}]
KeyRecord == [claimed : BOOLEAN, body : Body, job : Job \cup {0}]

\* The values variables start from have their types.
LEMMA RestingTypes ==
  /\ Resting \in ReqRecord /\ Resting.at = "idle" /\ Resting.began = 0
  /\ AtRest \in AdminRecord /\ Absent \in CacheRecord /\ ~Absent.present
  /\ Idle \in WorkRecord /\ Idle.at = "idle"
  /\ NoKey \in KeyRecord /\ ~NoKey.claimed /\ NoKey.job = 0
<1>1. (CHOOSE b \in Body : TRUE) \in Body
  BY AccessAssumption
<1>2. Resting \in ReqRecord /\ Resting.at = "idle" /\ Resting.began = 0
  BY <1>1 DEF Resting, ReqRecord, Stage
<1>3. AtRest \in AdminRecord
  BY DEF AtRest, AdminRecord
<1>4. Absent \in CacheRecord /\ ~Absent.present
  BY DEF Absent, CacheRecord
<1>5. Idle \in WorkRecord /\ Idle.at = "idle"
  BY DEF Idle, WorkRecord
<1>6. NoKey \in KeyRecord /\ ~NoKey.claimed /\ NoKey.job = 0
  BY <1>1 DEF NoKey, KeyRecord
<1> QED BY <1>2, <1>3, <1>4, <1>5, <1>6

-----------------------------------------------------------------------------
(* AccountAccess: the age of a principal.                                  *)

AccessInv == AccessTypeOK /\ EntriesAreFresh /\ StaleNeedsAnOverlap

\* AccessTypeOK by the records' names.
LEMMA AccessTypes ==
  AccessTypeOK <=>
    /\ account \in [active : BOOLEAN, may : BOOLEAN] /\ revoked \in BOOLEAN
    /\ cache \in CacheRecord
    /\ admin \in [Admin -> AdminRecord]
    /\ req \in [Request -> ReqRecord]
    /\ tries \in Nat /\ epoch \in Nat /\ settled \in Nat
BY DEF AccessTypeOK, CacheRecord, AdminRecord, ReqRecord

\* A request's turn that leaves the cache alone: it is not younger than now, and when
\* it comes to require it is fresh or late.
LEMMA TurnKeepsAccess ==
  ASSUME AccessInv, NEW r \in Request, NEW step \in ReqRecord, Turn(r, step),
         UNCHANGED access, tries' \in Nat,
         step.began <= settled,
         step.at = "require" => step.epoch >= step.began \/ step.late
  PROVE  AccessInv'
<1>1. req' = [req EXCEPT ![r] = step] /\ req \in [Request -> ReqRecord]
  BY AccessTypes DEF Turn, AccessInv
<1>2. req' \in [Request -> ReqRecord] /\ req'[r] = step
      /\ \A s \in Request : s # r => req'[s] = req[s]
  BY <1>1
<1>3. UNCHANGED <<account, revoked, cache, admin, epoch, settled>>
  BY DEF access
<1>4. AccessTypeOK'
  BY <1>2, <1>3 DEF AccessInv, AccessTypeOK, ReqRecord
<1>5. EntriesAreFresh'
  BY <1>2, <1>3 DEF AccessInv, EntriesAreFresh
<1>6. StaleNeedsAnOverlap'
  BY <1>2, <1>3 DEF AccessInv, StaleNeedsAnOverlap, At
<1> QED BY <1>4, <1>5, <1>6 DEF AccessInv

\* The request's side, one action at a time.
LEMMA AuthenticatesStep ==
  ASSUME AccessInv, NEW r \in Request, Authenticates(r) \/ GivesUp(r)
  PROVE  AccessInv'
<1> USE RestingTypes
<1>t. /\ cache \in CacheRecord /\ req[r] \in ReqRecord
      /\ account \in [active : BOOLEAN, may : BOOLEAN]
      /\ tries \in Nat /\ epoch \in Nat /\ settled \in Nat
  BY AccessTypes DEF AccessInv
<1>b. req[r].began <= settled /\ 0 <= settled
  BY <1>t DEF AccessInv, EntriesAreFresh
<1>1. CASE Arrive(r)
  <2>1. PICK b \in Body :
          Turn(r, [Resting EXCEPT !.at = "cache", !.body = b, !.began = settled])
    BY <1>1 DEF Arrive
  <2> DEFINE step == [Resting EXCEPT !.at = "cache", !.body = b, !.began = settled]
  <2>2. step \in ReqRecord /\ step.began = settled /\ step.at = "cache"
    BY <1>t DEF ReqRecord, Stage
  <2>3. UNCHANGED access /\ tries' \in Nat
    BY <1>1, <1>t DEF Arrive
  <2> HIDE DEF step
  <2>4. Turn(r, step)
    BY <2>1 DEF step
  <2> QED BY <2>2, <2>3, <2>4, <1>t, TurnKeepsAccess
<1>2. CASE CacheGet(r)
  <2> DEFINE hit == [req[r] EXCEPT !.at = "require", !.may = cache.may,
                                   !.epoch = cache.epoch, !.late = cache.late]
             miss == [req[r] EXCEPT !.at = "provision"]
  <2>1. UNCHANGED access /\ tries' \in Nat
    BY <1>2, <1>t DEF CacheGet
  <2>2. CASE cache.present
    <3>1. hit \in ReqRecord /\ hit.began = req[r].began
          /\ hit.epoch = cache.epoch /\ hit.late = cache.late
      BY <1>t DEF ReqRecord, CacheRecord, Stage
    <3>2. cache.epoch >= settled \/ cache.late
      BY <2>2 DEF AccessInv, EntriesAreFresh
    <3>3. req[r].began \in Nat /\ cache.epoch \in Nat
      BY <1>t DEF ReqRecord, CacheRecord
    <3>4. Turn(r, hit)
      BY <1>2, <2>2 DEF CacheGet
    <3> HIDE DEF hit
    <3>5. hit.epoch >= hit.began \/ hit.late
      BY <3>1, <3>2, <3>3, <1>b, <1>t
    <3> QED BY <3>1, <3>4, <3>5, <2>1, <1>b, TurnKeepsAccess
  <2>3. CASE ~cache.present
    <3>1. miss \in ReqRecord /\ miss.began = req[r].began /\ miss.at = "provision"
      BY <1>t DEF ReqRecord, Stage
    <3>2. Turn(r, miss)
      BY <1>2, <2>3 DEF CacheGet
    <3> HIDE DEF miss
    <3> QED BY <3>1, <3>2, <2>1, <1>b, TurnKeepsAccess
  <2> QED BY <2>2, <2>3
<1>3. ASSUME Turn(r, Resting), UNCHANGED <<access, tries>> PROVE AccessInv'
  <2>1. UNCHANGED access /\ tries' \in Nat
    BY <1>3, <1>t
  <2> QED BY <1>3, <2>1, <1>b, TurnKeepsAccess
<1>4. CASE Provision(r)
  <2> DEFINE step == [req[r] EXCEPT !.at = "roles", !.epoch = epoch]
  <2>1. UNCHANGED access /\ tries' \in Nat
    BY <1>4, <1>t DEF Provision
  <2>2. CASE account.active
    <3>1. step \in ReqRecord /\ step.began = req[r].began /\ step.at = "roles"
      BY <1>t DEF ReqRecord, Stage
    <3>2. Turn(r, step)
      BY <1>4, <2>2 DEF Provision
    <3> HIDE DEF step
    <3> QED BY <3>1, <3>2, <2>1, <1>b, TurnKeepsAccess
  <2>3. CASE ~account.active
    BY <1>4, <2>3, <1>3 DEF Provision
  <2> QED BY <2>2, <2>3
<1>5. CASE RolesOf(r)
  <2> DEFINE step == [req[r] EXCEPT !.at = "put", !.may = account.may]
  <2>1. UNCHANGED access /\ tries' \in Nat
    BY <1>5, <1>t DEF RolesOf
  <2>2. step \in ReqRecord /\ step.began = req[r].began /\ step.at = "put"
    BY <1>t DEF ReqRecord, Stage
  <2>3. Turn(r, step)
    BY <1>5 DEF RolesOf
  <2> HIDE DEF step
  <2> QED BY <2>1, <2>2, <2>3, <1>b, TurnKeepsAccess
<1>6. CASE Put(r)
  <2> DEFINE late == req[r].epoch < settled
             step == [req[r] EXCEPT !.at = "require", !.late = late]
             entry == [may |-> req[r].may, epoch |-> req[r].epoch, late |-> late, present |-> TRUE]
  <2>1. UNCHANGED <<account, revoked, admin, epoch, settled, tries>>
        /\ cache' = entry /\ Turn(r, step)
    BY <1>6 DEF Put
  <2>2. late \in BOOLEAN
    OBVIOUS
  <2>3. req[r].epoch \in Nat /\ (~late => req[r].epoch >= settled) /\ req[r].began \in Nat
    BY <1>t DEF ReqRecord
  <2> HIDE DEF late
  <2>4. entry \in CacheRecord /\ (entry.epoch >= settled \/ entry.late)
    BY <1>t, <2>2, <2>3 DEF ReqRecord, CacheRecord
  <2>5. step \in ReqRecord /\ step.began = req[r].began /\ step.late = late
        /\ step.epoch = req[r].epoch
    BY <1>t, <2>2 DEF ReqRecord, Stage
  <2> HIDE DEF step, entry
  <2>6. step.epoch >= step.began \/ step.late
    BY <2>3, <2>5, <1>b, <1>t
  <2>7. req' = [req EXCEPT ![r] = step] /\ req \in [Request -> ReqRecord]
    BY <2>1, AccessTypes DEF Turn, AccessInv
  <2>8. req' \in [Request -> ReqRecord] /\ req'[r] = step
        /\ \A s \in Request : s # r => req'[s] = req[s]
    BY <2>5, <2>7
  <2>9. AccessTypeOK'
    BY <2>1, <2>4, <2>8 DEF AccessInv, AccessTypeOK, ReqRecord, CacheRecord
  <2>10. EntriesAreFresh'
    BY <2>1, <2>4, <2>5, <2>8, <1>b DEF AccessInv, EntriesAreFresh
  <2>11. StaleNeedsAnOverlap'
    BY <2>6, <2>8 DEF AccessInv, StaleNeedsAnOverlap, At
  <2> QED BY <2>9, <2>10, <2>11 DEF AccessInv
<1>7. CASE Require(r)
  <2> DEFINE step == [Resting EXCEPT !.at = "claim", !.body = req[r].body]
  <2>1. UNCHANGED access /\ tries' \in Nat
    BY <1>7, <1>t DEF Require
  <2>2. CASE req[r].may
    <3>1. step \in ReqRecord /\ step.began = 0 /\ step.at = "claim"
      BY <1>t DEF ReqRecord, Stage
    <3>2. Turn(r, step)
      BY <1>7, <2>2 DEF Require
    <3> HIDE DEF step
    <3> QED BY <3>1, <3>2, <2>1, <1>b, TurnKeepsAccess
  <2>3. CASE ~req[r].may
    BY <1>7, <2>3, <1>3 DEF Require
  <2> QED BY <2>2, <2>3
<1>8. CASE GivesUp(r)
  BY <1>8, <1>3 DEF GivesUp
<1> QED BY <1>1, <1>2, <1>4, <1>5, <1>6, <1>7, <1>8 DEF Authenticates

\* The operator's side and the cache's expiry, one action at a time.
LEMMA AdministersStep ==
  ASSUME AccessInv, CacheExpires \/ \E a \in Admin : Administers(a)
  PROVE  AccessInv'
<1> USE RestingTypes
<1>t. /\ cache \in CacheRecord /\ req \in [Request -> ReqRecord]
      /\ account \in [active : BOOLEAN, may : BOOLEAN] /\ revoked \in BOOLEAN
      /\ admin \in [Admin -> AdminRecord]
      /\ tries \in Nat /\ epoch \in Nat /\ settled \in Nat
  BY AccessTypes DEF AccessInv
<1>r. AccessTypeOK' <=>
      /\ account' \in [active : BOOLEAN, may : BOOLEAN] /\ revoked' \in BOOLEAN
      /\ cache' \in CacheRecord
      /\ admin' \in [Admin -> AdminRecord]
      /\ req' \in [Request -> ReqRecord]
      /\ tries' \in Nat /\ epoch' \in Nat /\ settled' \in Nat
  BY DEF AccessTypeOK, CacheRecord, AdminRecord, ReqRecord
<1>s. ASSUME UNCHANGED <<cache, settled, req>> PROVE EntriesAreFresh' /\ StaleNeedsAnOverlap'
  BY <1>s DEF AccessInv, EntriesAreFresh, StaleNeedsAnOverlap, At
<1>1. CASE CacheExpires
  <2>1. cache' = Absent /\ UNCHANGED <<account, revoked, admin, epoch, settled, req, tries>>
    BY <1>1 DEF CacheExpires
  <2>2. AccessTypeOK'
    BY <2>1, <1>t, <1>r
  <2>3. EntriesAreFresh' /\ StaleNeedsAnOverlap'
    BY <2>1 DEF AccessInv, EntriesAreFresh, StaleNeedsAnOverlap, At
  <2> QED BY <2>2, <2>3 DEF AccessInv
<1>2. ASSUME NEW a \in Admin, NEW kind \in {"disable", "enable", "role"}, Change(a, kind)
      PROVE  AccessInv'
  <2> DEFINE step == [at |-> IF kind = "role" THEN "forget" ELSE "denylist", kind |-> kind,
                      epoch |-> epoch + 1]
  <2>1. /\ UNCHANGED <<revoked, cache, settled, req, tries>> /\ epoch' = epoch + 1
        /\ admin' = [admin EXCEPT ![a] = step]
    BY <1>2 DEF Change, Operate
  <2>2. step \in AdminRecord
    BY <1>t DEF AdminRecord
  <2> HIDE DEF step
  <2>3. admin' \in [Admin -> AdminRecord] /\ epoch' \in Nat
    BY <2>1, <2>2, <1>t
  <2>4. account' \in [active : BOOLEAN, may : BOOLEAN]
    <3>1. CASE kind = "disable"
      BY <1>2, <3>1, <1>t DEF Change, Changes
    <3>2. CASE kind = "enable"
      BY <1>2, <3>2, <1>t DEF Change, Changes
    <3>3. CASE kind = "role"
      BY <1>2, <3>3, <1>t DEF Change, Changes
    <3> QED BY <3>1, <3>2, <3>3
  <2> QED BY <2>1, <2>3, <2>4, <1>t, <1>r, <1>s DEF AccessInv
<1>3. ASSUME NEW a \in Admin, Denylist(a) PROVE AccessInv'
  <2> DEFINE step == [admin[a] EXCEPT !.at = "forget"]
  <2>1. /\ UNCHANGED <<account, cache, epoch, settled, req, tries>>
        /\ revoked' = (admin[a].kind = "disable")
        /\ admin' = [admin EXCEPT ![a] = step]
    BY <1>3 DEF Denylist, Operate
  <2>2. step \in AdminRecord /\ revoked' \in BOOLEAN
    BY <2>1, <1>t DEF AdminRecord
  <2> HIDE DEF step
  <2>3. admin' \in [Admin -> AdminRecord]
    BY <2>1, <2>2, <1>t
  <2> QED BY <2>1, <2>2, <2>3, <1>t, <1>r, <1>s DEF AccessInv
<1>4. ASSUME NEW a \in Admin, Forget(a) PROVE AccessInv'
  <2>1. /\ UNCHANGED <<account, revoked, epoch, req, tries>> /\ cache' = Absent
        /\ settled' = IF admin[a].epoch > settled THEN admin[a].epoch ELSE settled
        /\ admin' = [admin EXCEPT ![a] = AtRest]
    BY <1>4 DEF Forget, Operate
  <2>2. admin[a].epoch \in Nat
    BY <1>t DEF AdminRecord
  <2>3. settled' \in Nat /\ settled <= settled' /\ admin' \in [Admin -> AdminRecord]
    BY <2>1, <2>2, <1>t
  <2>4. AccessTypeOK'
    BY <2>1, <2>3, <1>t, <1>r
  <2>5. \A r \in Request : req[r].began \in Nat
    BY <1>t DEF ReqRecord
  <2>6. EntriesAreFresh'
    BY <2>1, <2>3, <2>5, <1>t DEF AccessInv, EntriesAreFresh
  <2>7. StaleNeedsAnOverlap'
    BY <2>1 DEF AccessInv, StaleNeedsAnOverlap, At
  <2> QED BY <2>4, <2>6, <2>7 DEF AccessInv
<1>5. ASSUME NEW a \in Admin, ChangeStops(a) PROVE AccessInv'
  <2>1. /\ UNCHANGED <<account, revoked, cache, epoch, settled, req, tries>>
        /\ admin' = [admin EXCEPT ![a] = AtRest]
    BY <1>5 DEF ChangeStops, Operate
  <2>2. admin' \in [Admin -> AdminRecord]
    BY <2>1, <1>t
  <2> QED BY <2>1, <2>2, <1>t, <1>r, <1>s DEF AccessInv
<1> QED BY <1>1, <1>2, <1>3, <1>4, <1>5 DEF Administers

-----------------------------------------------------------------------------
(* The key, its holder and its answers.                                    *)

KeyInv == KeyIsHeld /\ JobsAreCounted /\ AnswersNameTheKey

\* There are as many jobs as numbers given out.
LEMMA BornSize ==
  ASSUME MediaAssumption
  PROVE  IsFiniteSet(Born) /\ Cardinality(Born) \in Nat /\ Born \subseteq Job
<1>1. Born \subseteq 1..MaxJobs /\ MaxJobs \in Int
  BY DEF Born, Job, MediaAssumption
<1>2. IsFiniteSet(1..MaxJobs)
  BY <1>1, FS_Interval
<1>3. IsFiniteSet(Born)
  BY <1>1, <1>2, FS_Subset
<1> QED BY <1>1, <1>3, FS_CardinalityType DEF Job

\* A submission gives out the next number.
LEMMA Birth ==
  ASSUME MediaTypeOK, JobsAreCounted, NEW r \in Request, req[r].body \in Body, Submits(r)
  PROVE  /\ NextId \in Job /\ NextId \notin Born /\ Born' = Born \cup {NextId}
         /\ Born' = 1..Cardinality(Born')
         /\ Cardinality(Born') = Cardinality(Born) + 1
         /\ job'[NextId] = [status |-> "queued", version |-> 1, body |-> req[r].body]
         /\ \A j \in Job : j # NextId => job'[j] = job[j]
         /\ job' \in [Job -> JobRecord]
<1> DEFINE n == Cardinality(Born)
           row == [status |-> "queued", version |-> 1, body |-> req[r].body]
<1>1. n \in Nat /\ Born = 1..n /\ Born \subseteq 1..MaxJobs /\ MaxJobs \in Nat /\ Born # 1..MaxJobs
  BY MediaAssumption, BornSize DEF JobsAreCounted, Submits, Job, MediaAssumption
<1>2. NextId = n + 1 /\ job' = [job EXCEPT ![NextId] = row]
  BY DEF NextId, Submits
<1>3. job \in [Job -> JobRecord] /\ row \in JobRecord
  BY DEF MediaTypeOK, JobRecord
<1> HIDE DEF n, row
<1>4. n + 1 \in 1..MaxJobs /\ n + 1 \notin Born
  <2>1. n # MaxJobs
    BY <1>1
  <2>2. n <= MaxJobs
    <3>1. CASE n = 0
      BY <3>1, <1>1
    <3>2. CASE n # 0
      <4>1. n \in 1..n
        BY <3>2, <1>1
      <4> QED BY <4>1, <1>1
    <3> QED BY <3>1, <3>2
  <2> QED BY <2>1, <2>2, <1>1
<1>5. NextId \in Job /\ NextId \notin Born
  BY <1>2, <1>4 DEF Job
<1>6. /\ job' \in [Job -> JobRecord] /\ job'[NextId] = row
      /\ \A j \in Job : j # NextId => job'[j] = job[j]
  BY <1>2, <1>3, <1>5
<1>7. Born' = Born \cup {NextId}
  <2>1. row.status # "unborn"
    BY DEF row
  <2>2. Born' = {j \in Job : job'[j].status # "unborn"}
    BY DEF Born
  <2> QED BY <1>5, <1>6, <2>1, <2>2 DEF Born
<1>8. Born' = 1..(n + 1)
  BY <1>1, <1>2, <1>7
<1>9. Cardinality(Born') = n + 1
  BY <1>8, <1>1, FS_Interval
<1> QED BY <1>5, <1>6, <1>7, <1>8, <1>9 DEF n, row

\* A request that takes no part in the key leaves it as it is.
LEMMA BystanderKeepsKey ==
  ASSUME KeyInv, AccessTypeOK, NEW r \in Request, NEW step \in ReqRecord, Turn(r, step),
         step.at \notin {"submit", "complete", "release"}, UNCHANGED <<media, client>>
  PROVE  KeyInv'
<1>1. /\ req'[r] = step /\ \A s \in Request : s # r => req'[s] = req[s]
      /\ UNCHANGED <<job, key, answers, lost>>
  BY AccessTypes DEF Turn, media, client
<1>2. KeyIsHeld'
  BY <1>1 DEF KeyInv, KeyIsHeld, HoldsKey
<1>b. Born' = Born
  BY <1>1 DEF Born
<1>3. JobsAreCounted'
  BY <1>1, <1>b DEF KeyInv, JobsAreCounted, OneJobPerKey
<1>4. AnswersNameTheKey'
  BY <1>1, <1>b DEF KeyInv, AnswersNameTheKey, At
<1> QED BY <1>2, <1>3, <1>4 DEF KeyInv

\* So does a worker, whatever it does to statuses and versions.
LEMMA WorkerKeepsKey ==
  ASSUME KeyInv, Born' = Born, \A j \in Job : job'[j].body = job[j].body,
         UNCHANGED <<req, client>>
  PROVE  KeyInv'
<1>1. UNCHANGED <<req, key, answers, lost>>
  BY DEF client
<1>2. KeyIsHeld'
  BY <1>1 DEF KeyInv, KeyIsHeld, HoldsKey
<1>3. JobsAreCounted'
  BY <1>1 DEF KeyInv, JobsAreCounted, OneJobPerKey
<1>4. AnswersNameTheKey'
  <2>1. Born \subseteq Job
    BY DEF Born
  <2> QED BY <1>1, <2>1 DEF KeyInv, AnswersNameTheKey, At
<1> QED BY <1>2, <1>3, <1>4 DEF KeyInv

-----------------------------------------------------------------------------
(* The rows and the workers.                                               *)

WorkInv == LedgerFollowsRows /\ JobsSettleOnce /\ \A w \in Worker : WorkFollowsRow(w)

\* A new row is nobody's work yet.
LEMMA BirthKeepsWork ==
  ASSUME MediaTypeOK, WorkInv, NEW j \in Job, j \notin Born,
         job'[j].status = "queued", \A k \in Job : k # j => job'[k] = job[k],
         UNCHANGED <<told, ledger, work>>
  PROVE  WorkInv'
<1>1. job[j].status = "unborn"
  BY DEF Born
<1>2. LedgerFollowsRows'
  BY <1>1 DEF WorkInv, LedgerFollowsRows, Terminal
<1>3. JobsSettleOnce'
  BY <1>1 DEF WorkInv, JobsSettleOnce, Terminal
<1>4. ASSUME NEW w \in Worker PROVE WorkFollowsRow(w)'
  <2> SUFFICES ASSUME work[w].at # "idle" PROVE WorkFollowsRow(w)'
    BY DEF WorkFollowsRow
  <2>1. work[w].job \in Born /\ work[w].job \in Job /\ work[w].job # j
    BY DEF WorkInv, WorkFollowsRow, Born
  <2>2. job'[work[w].job] = job[work[w].job] /\ work[w].job \in Born'
    BY <2>1 DEF Born
  <2> QED BY <2>2 DEF WorkInv, WorkFollowsRow
<1> QED BY <1>2, <1>3, <1>4 DEF WorkInv

\* What a worker saves: its row alone, one version on.
LEMMA WrittenRow ==
  ASSUME MediaTypeOK, NEW w \in Worker, work[w].job \in Job,
         NEW status \in {"running"} \cup Terminal, Written(w, status)
  PROVE  LET j == work[w].job IN
         /\ job' \in [Job -> JobRecord]
         /\ job'[j].status = status /\ job'[j].version = job[j].version + 1
         /\ job'[j].body = job[j].body
         /\ \A k \in Job : k # j => job'[k] = job[k]
<1> DEFINE j == work[w].job
           row == [job[j] EXCEPT !.status = status, !.version = job[j].version + 1]
<1>1. job \in [Job -> JobRecord] /\ job[j] \in JobRecord
  BY DEF MediaTypeOK, JobRecord
<1>2. job' = [job EXCEPT ![j] = row]
  BY <1>1 DEF Written
<1>3. row = [status |-> status, version |-> job[j].version + 1, body |-> job[j].body]
  <2> DEFINE mid == [job[j] EXCEPT !.status = status]
  <2>1. mid = [status |-> status, version |-> job[j].version, body |-> job[j].body]
    BY <1>1 DEF JobRecord
  <2>2. row = [mid EXCEPT !.version = job[j].version + 1]
    OBVIOUS
  <2> HIDE DEF mid, row
  <2> QED BY <2>1, <2>2
<1>4. row \in JobRecord /\ row.status = status /\ row.version = job[j].version + 1
      /\ row.body = job[j].body
  BY <1>1, <1>3 DEF JobRecord
<1> HIDE DEF row
<1> QED BY <1>1, <1>2, <1>4

\* A step that touches neither rows nor workers keeps what they say.
LEMMA MediaAlone ==
  ASSUME WorkInv, UNCHANGED media
  PROVE  WorkInv'
<1>1. UNCHANGED <<job, told, ledger, work>>
  BY DEF media
<1>2. LedgerFollowsRows' /\ JobsSettleOnce'
  BY <1>1 DEF WorkInv, LedgerFollowsRows, JobsSettleOnce
<1>3. ASSUME NEW w \in Worker PROVE WorkFollowsRow(w)'
  BY <1>1 DEF WorkInv, WorkFollowsRow, Born
<1> QED BY <1>2, <1>3 DEF WorkInv

\* MediaInv is its four parts.
LEMMA MediaParts == MediaInv <=> AccessInv /\ MediaTypeOK /\ KeyInv /\ WorkInv
BY DEF MediaInv, AccessInv, KeyInv, WorkInv

\* MediaTypeOK by the records' names.
LEMMA MediaTypes ==
  MediaTypeOK <=>
    /\ key \in KeyRecord /\ job \in [Job -> JobRecord]
    /\ told \in [Job -> Seq(Terminal)] /\ ledger \subseteq Job
    /\ work \in [Worker -> WorkRecord]
    /\ delivered \in Nat /\ lost \in Nat
    /\ answers \subseteq [body : Body, job : Job]
BY DEF MediaTypeOK, KeyRecord, JobRecord, WorkRecord

\* What a request's step in the route does to its record.
LEMMA RouteTurn ==
  ASSUME AccessInv, NEW r \in Request, NEW step \in ReqRecord, Turn(r, step),
         step.began \in {0, req[r].began}, step.at # "require", UNCHANGED <<access, tries>>
  PROVE  /\ AccessInv' /\ req'[r] = step
         /\ \A s \in Request : s # r => req'[s] = req[s]
<1>1. req \in [Request -> ReqRecord] /\ tries \in Nat /\ settled \in Nat
  BY AccessTypes DEF AccessInv
<1>2. req[r].began <= settled /\ 0 <= settled
  BY <1>1 DEF AccessInv, EntriesAreFresh
<1>3. AccessInv'
  BY <1>1, <1>2, TurnKeepsAccess
<1> QED BY <1>1, <1>3 DEF Turn

\* claim and _inspect, one action at a time.
LEMMA ClaimStep ==
  ASSUME MediaInv, NEW r \in Request, Claim(r) \/ Inspect(r)
  PROVE  MediaInv'
<1> USE RestingTypes
<1>p. AccessInv /\ MediaTypeOK /\ KeyInv /\ WorkInv
  BY MediaParts
<1>t. /\ req \in [Request -> ReqRecord] /\ req[r] \in ReqRecord /\ key \in KeyRecord
      /\ job \in [Job -> JobRecord] /\ lost \in Nat
      /\ answers \subseteq [body : Body, job : Job]
  BY <1>p, AccessTypes, MediaTypes DEF AccessInv
<1>w. UNCHANGED media => WorkInv' /\ Born' = Born
  BY <1>p, MediaAlone DEF media, Born
<1>1. CASE Claim(r) /\ key.claimed
  <2> DEFINE step == [req[r] EXCEPT !.at = "inspect"]
  <2>1. step \in ReqRecord /\ step.began = req[r].began /\ step.at = "inspect"
    BY <1>t DEF ReqRecord, Stage
  <2>2. Turn(r, step) /\ UNCHANGED <<access, tries, media, client>>
    BY <1>1 DEF Claim, client
  <2> HIDE DEF step
  <2>3. AccessInv'
    BY <1>p, <2>1, <2>2, RouteTurn
  <2>4. KeyInv'
    BY <1>p, <2>1, <2>2, BystanderKeepsKey DEF AccessInv
  <2>5. MediaTypeOK'
    BY <1>p, <2>2 DEF MediaTypeOK, media, client
  <2> QED BY <2>2, <2>3, <2>4, <2>5, <1>w DEF MediaInv, AccessInv, KeyInv, WorkInv
<1>2. CASE Claim(r) /\ ~key.claimed
  <2> DEFINE step == [req[r] EXCEPT !.at = "submit"]
             row == [claimed |-> TRUE, body |-> req[r].body, job |-> 0]
  <2>1. step \in ReqRecord /\ step.began = req[r].began /\ step.at = "submit"
        /\ step.body = req[r].body
    BY <1>t DEF ReqRecord, Stage
  <2>2. row \in KeyRecord /\ row.claimed /\ row.body = step.body /\ row.job = 0
    BY <1>t, <2>1 DEF ReqRecord, KeyRecord
  <2>3. Turn(r, step) /\ key' = row /\ UNCHANGED <<access, tries, media, answers, lost>>
    BY <1>2 DEF Claim
  <2> HIDE DEF step, row
  <2>4. AccessInv' /\ req'[r] = step /\ \A s \in Request : s # r => req'[s] = req[s]
    BY <1>p, <2>1, <2>3, RouteTurn
  <2>5. MediaTypeOK'
    BY <1>p, <2>2, <2>3 DEF MediaTypeOK, KeyRecord, media
  <2>6. /\ \A s \in Request : ~HoldsKey(s)
        /\ key.job = 0 /\ Cardinality(Born) <= lost
    BY <1>2, <1>p DEF KeyInv, KeyIsHeld, JobsAreCounted
  <2>7. KeyIsHeld'
    BY <2>1, <2>2, <2>3, <2>4, <2>6 DEF KeyIsHeld, HoldsKey
  <2>8. JobsAreCounted'
    <3>1. Born' = Born /\ lost' = lost
      BY <1>w, <2>3
    <3>2. OneJobPerKey'
      BY <1>p, <3>1 DEF KeyInv, JobsAreCounted, OneJobPerKey
    <3> QED BY <1>p, <2>6, <3>1, <3>2 DEF KeyInv, JobsAreCounted
  <2>9. AnswersNameTheKey'
    <3>1. Born' = Born /\ UNCHANGED <<job, answers>>
      BY <1>w, <2>3 DEF media
    <3>2. answers = {}
      BY <1>p, <2>6 DEF KeyInv, AnswersNameTheKey
    <3> QED BY <1>p, <2>1, <2>2, <2>3, <2>4, <3>1, <3>2 DEF KeyInv, AnswersNameTheKey, At
  <2> QED BY <2>3, <2>4, <2>5, <2>7, <2>8, <2>9, <1>w DEF MediaInv, AccessInv, KeyInv, WorkInv
<1>3. CASE Inspect(r)
  <2>1. Turn(r, Resting) /\ UNCHANGED <<access, tries, media, key, lost>>
    BY <1>3 DEF Inspect
  <2>2. AccessInv' /\ req'[r] = Resting /\ \A s \in Request : s # r => req'[s] = req[s]
    BY <1>p, <2>1, RouteTurn
  <2>3. Born' = Born /\ UNCHANGED <<job, key, lost>>
    BY <1>w, <2>1 DEF media
  <2>4. KeyIsHeld'
    BY <1>p, <2>2, <2>3 DEF KeyInv, KeyIsHeld, HoldsKey
  <2>5. JobsAreCounted'
    BY <1>p, <2>2, <2>3 DEF KeyInv, JobsAreCounted, OneJobPerKey
  <2>6. /\ answers' \subseteq [body : Body, job : Job]
        /\ \A a \in answers' : a.job = key.job /\ key.job # 0 /\ a.body = key.body
    <3>1. CASE Replays(r)
      <4> DEFINE a == [body |-> req[r].body, job |-> key.job]
      <4>1. answers' = answers \cup {a}
        BY <1>3, <3>1 DEF Inspect, Answer
      <4>2. key.job # 0 /\ key.body = req[r].body
        BY <3>1 DEF Replays
      <4>3. a \in [body : Body, job : Job] /\ a.job = key.job /\ a.body = key.body
        BY <1>t, <4>2 DEF KeyRecord, ReqRecord
      <4> HIDE DEF a
      <4> QED BY <1>p, <1>t, <4>1, <4>2, <4>3 DEF KeyInv, AnswersNameTheKey
    <3>2. CASE ~Replays(r)
      BY <1>3, <1>p, <1>t, <3>2 DEF Inspect, KeyInv, AnswersNameTheKey
    <3> QED BY <3>1, <3>2
  <2>7. AnswersNameTheKey'
    BY <1>p, <2>2, <2>3, <2>6 DEF KeyInv, AnswersNameTheKey, At
  <2>8. MediaTypeOK'
    BY <1>p, <2>1, <2>6 DEF MediaTypeOK, media
  <2> QED BY <2>1, <2>2, <2>4, <2>5, <2>7, <2>8, <1>w DEF MediaInv, AccessInv, KeyInv, WorkInv
<1> QED BY <1>1, <1>2, <1>3

\* submit, committed: its answer arrives or is lost.
LEMMA SubmitStep ==
  ASSUME MediaInv, NEW r \in Request, Submit(r) \/ SubmitLost(r)
  PROVE  MediaInv'
<1>p. AccessInv /\ MediaTypeOK /\ KeyInv /\ WorkInv
  BY MediaParts
<1>t. /\ req \in [Request -> ReqRecord] /\ req[r] \in ReqRecord /\ key \in KeyRecord
      /\ job \in [Job -> JobRecord] /\ lost \in Nat /\ req[r].body \in Body
  BY <1>p, AccessTypes, MediaTypes DEF AccessInv, ReqRecord
<1>s. Submits(r) /\ At(r, "submit")
      /\ UNCHANGED <<access, tries, told, ledger, work, delivered, key, answers>>
  BY DEF Submit, SubmitLost, Submits
<1> DEFINE n == Cardinality(Born)
           m == NextId
<1>n. n \in Nat /\ m = n + 1 /\ m \in Nat
  BY BornSize, MediaAssumption DEF NextId
<1>b. /\ m \in Job /\ m \notin Born /\ Born' = Born \cup {m}
      /\ Born' = 1..Cardinality(Born') /\ Cardinality(Born') = n + 1
      /\ job'[m].status = "queued" /\ job'[m].body = req[r].body
      /\ \A j \in Job : j # m => job'[j] = job[j]
      /\ job' \in [Job -> JobRecord]
  <2> DEFINE row == [status |-> "queued", version |-> 1, body |-> req[r].body]
  <2>1. JobsAreCounted
    BY <1>p DEF KeyInv
  <2>2. /\ m \in Job /\ m \notin Born /\ Born' = Born \cup {m}
        /\ Born' = 1..Cardinality(Born') /\ Cardinality(Born') = n + 1
        /\ job'[m] = row
        /\ \A j \in Job : j # m => job'[j] = job[j]
        /\ job' \in [Job -> JobRecord]
    BY <1>p, <1>t, <1>s, <2>1, Birth
  <2>3. row.status = "queued" /\ row.body = req[r].body
    OBVIOUS
  <2> HIDE DEF n, m, row
  <2> QED BY <2>2, <2>3
<1> HIDE DEF n, m
<1>w. WorkInv'
  BY <1>p, <1>b, <1>s, BirthKeepsWork
<1>h. /\ HoldsKey(r) /\ key.claimed /\ key.job = 0 /\ key.body = req[r].body
      /\ n <= lost /\ answers = {}
      /\ \A s \in Request : HoldsKey(s) => s = r
  BY <1>s, <1>p DEF HoldsKey, At, KeyInv, KeyIsHeld, JobsAreCounted, AnswersNameTheKey, n
<1>k. ASSUME NEW step \in ReqRecord, Turn(r, step),
             step.at \in {"complete", "release"}, step.began = req[r].began,
             step.body = req[r].body, lost' \in Nat, n + 1 <= lost' + 1,
             step.at = "release" => n + 1 <= lost', step.at = "complete" => step.job = m
      PROVE  MediaInv'
  <2>1. AccessInv' /\ req'[r] = step /\ \A s \in Request : s # r => req'[s] = req[s]
    BY <1>p, <1>s, <1>k, RouteTurn
  <2>2. MediaTypeOK'
    BY <1>p, <1>b, <1>s, <1>k DEF MediaTypeOK, JobRecord
  <2>3. \A s \in Request : HoldsKey(s)' => s = r
    BY <2>1, <1>h DEF HoldsKey
  <2>4. KeyIsHeld'
    BY <2>1, <2>3, <1>h, <1>s, <1>k DEF KeyIsHeld
  <2>5. OneJobPerKey'
    BY <1>b, <1>n, <1>k DEF OneJobPerKey
  <2>6. JobsAreCounted'
    <3>1. ASSUME NEW s \in Request, req'[s].at \in {"submit", "release"}
          PROVE  n + 1 <= lost'
      <4>1. s = r
        BY <3>1, <2>3 DEF HoldsKey
      <4> QED BY <3>1, <4>1, <2>1, <1>k
    <3>2. key'.claimed
      BY <1>h, <1>s
    <3> QED BY <2>5, <3>1, <3>2, <1>b DEF JobsAreCounted
  <2>7. AnswersNameTheKey'
    <3>1. ASSUME NEW s \in Request, At(s, "complete")'
          PROVE  req'[s].job \in Born' /\ job'[req'[s].job].body = req'[s].body
      <4>1. s = r
        BY <3>1, <2>3 DEF HoldsKey, At
      <4> QED BY <3>1, <4>1, <2>1, <1>k, <1>b DEF At
    <3> QED BY <3>1, <1>h, <1>s DEF AnswersNameTheKey
  <2> QED BY <2>1, <2>2, <2>4, <2>6, <2>7, <1>w DEF MediaInv, AccessInv, KeyInv, WorkInv
<1>1. CASE Submit(r)
  <2> DEFINE step == [req[r] EXCEPT !.at = "complete", !.job = m]
  <2>1. step \in ReqRecord /\ step.began = req[r].began /\ step.at = "complete"
        /\ step.body = req[r].body /\ step.job = m
    BY <1>t, <1>n DEF ReqRecord, Stage
  <2>2. Turn(r, step) /\ lost' = lost
    BY <1>1 DEF Submit, m
  <2> HIDE DEF step
  <2> QED BY <2>1, <2>2, <1>k, <1>t, <1>n, <1>h
<1>2. CASE SubmitLost(r)
  <2> DEFINE step == [req[r] EXCEPT !.at = "release"]
  <2>1. step \in ReqRecord /\ step.began = req[r].began /\ step.at = "release"
        /\ step.body = req[r].body
    BY <1>t DEF ReqRecord, Stage
  <2>2. Turn(r, step) /\ lost' = lost + 1
    BY <1>2 DEF SubmitLost
  <2> HIDE DEF step
  <2> QED BY <2>1, <2>2, <1>k, <1>t, <1>n, <1>h
<1> QED BY <1>1, <1>2

\* The rest of the route: submit fails, complete succeeds or fails, the key is released.
LEMMA FinishStep ==
  ASSUME MediaInv, NEW r \in Request,
         SubmitFails(r) \/ Complete(r) \/ CompleteFails(r) \/ Release(r)
  PROVE  MediaInv'
<1> USE RestingTypes
<1>p. AccessInv /\ MediaTypeOK /\ KeyInv /\ WorkInv
  BY MediaParts
<1>t. /\ req \in [Request -> ReqRecord] /\ req[r] \in ReqRecord /\ key \in KeyRecord
      /\ job \in [Job -> JobRecord] /\ lost \in Nat
      /\ answers \subseteq [body : Body, job : Job]
  BY <1>p, AccessTypes, MediaTypes DEF AccessInv
<1>m. UNCHANGED <<access, tries, media>>
  BY DEF SubmitFails, Complete, CompleteFails, Release
<1>w. WorkInv' /\ Born' = Born /\ job' = job
  BY <1>p, <1>m, MediaAlone DEF media, Born
<1>h. /\ HoldsKey(r) /\ key.claimed /\ key.job = 0 /\ key.body = req[r].body /\ answers = {}
      /\ \A s \in Request : HoldsKey(s) => s = r
  BY <1>p DEF SubmitFails, Complete, CompleteFails, Release, HoldsKey, At,
     KeyInv, KeyIsHeld, AnswersNameTheKey
<1>1. CASE SubmitFails(r)
  <2> DEFINE step == [req[r] EXCEPT !.at = "release"]
  <2>1. step \in ReqRecord /\ step.began = req[r].began /\ step.at = "release"
        /\ step.body = req[r].body
    BY <1>t DEF ReqRecord, Stage
  <2>2. Turn(r, step) /\ UNCHANGED client /\ At(r, "submit")
    BY <1>1 DEF SubmitFails
  <2> HIDE DEF step
  <2>3. AccessInv' /\ req'[r] = step /\ \A s \in Request : s # r => req'[s] = req[s]
    BY <1>p, <1>m, <2>1, <2>2, RouteTurn
  <2>4. MediaTypeOK'
    BY <1>p, <1>m, <2>2 DEF MediaTypeOK, media, client
  <2>5. UNCHANGED <<key, answers, lost>>
    BY <2>2 DEF client
  <2>6. KeyIsHeld'
    BY <2>1, <2>3, <2>5, <1>h DEF KeyIsHeld, HoldsKey
  <2>7. Cardinality(Born) <= lost
    BY <1>p, <2>2 DEF KeyInv, JobsAreCounted, At
  <2>8. JobsAreCounted'
    BY <1>p, <1>w, <2>5, <2>7 DEF KeyInv, JobsAreCounted, OneJobPerKey
  <2>9. AnswersNameTheKey'
    BY <1>p, <1>w, <2>1, <2>3, <2>5 DEF KeyInv, AnswersNameTheKey, At
  <2> QED BY <2>3, <2>4, <2>6, <2>8, <2>9, <1>w DEF MediaInv, AccessInv, KeyInv, WorkInv
<1>2. CASE CompleteFails(r)
  <2>1. Turn(r, Resting) /\ UNCHANGED <<media, client>>
    BY <1>2, <1>m DEF CompleteFails
  <2>2. AccessInv'
    BY <1>p, <1>m, <2>1, RouteTurn
  <2>3. KeyInv'
    BY <1>p, <2>1, BystanderKeepsKey DEF AccessInv
  <2>4. MediaTypeOK'
    BY <1>p, <2>1 DEF MediaTypeOK, media, client
  <2> QED BY <2>2, <2>3, <2>4, <1>w DEF MediaInv, AccessInv, KeyInv, WorkInv
<1>3. CASE Complete(r)
  <2> DEFINE j == req[r].job
             a == [body |-> req[r].body, job |-> j]
  <2>1. j \in Born /\ j \in Job /\ job[j].body = req[r].body
    BY <1>3, <1>p DEF Complete, KeyInv, AnswersNameTheKey, Born
  <2>2. /\ Turn(r, Resting) /\ key' = [key EXCEPT !.job = j]
        /\ answers' = {a} /\ lost' = lost
    BY <1>3, <1>h DEF Complete, Answer
  <2>3. /\ key' \in KeyRecord /\ key'.claimed /\ key'.job = j /\ key'.body = req[r].body
        /\ j # 0
    BY <1>t, <1>h, <2>1, <2>2 DEF KeyRecord, Job
  <2>4. a \in [body : Body, job : Job] /\ a.job = j /\ a.body = req[r].body
    BY <1>t, <2>1 DEF ReqRecord
  <2> HIDE DEF j, a
  <2>5. AccessInv' /\ req'[r] = Resting /\ \A s \in Request : s # r => req'[s] = req[s]
    BY <1>p, <1>m, <2>2, RouteTurn
  <2>6. MediaTypeOK'
    BY <1>p, <1>m, <2>2, <2>3, <2>4 DEF MediaTypeOK, KeyRecord, media
  <2>7. \A s \in Request : req'[s].at \notin {"submit", "complete", "release"}
    BY <2>5, <1>h DEF HoldsKey
  <2>8. KeyIsHeld'
    BY <2>3, <2>7 DEF KeyIsHeld, HoldsKey
  <2>9. JobsAreCounted'
    BY <1>p, <1>w, <2>2, <2>3, <2>7 DEF KeyInv, JobsAreCounted, OneJobPerKey
  <2>10. AnswersNameTheKey'
    BY <1>w, <2>1, <2>2, <2>3, <2>4, <2>7 DEF AnswersNameTheKey, At
  <2> QED BY <2>5, <2>6, <2>8, <2>9, <2>10, <1>w DEF MediaInv, AccessInv, KeyInv, WorkInv
<1>4. CASE Release(r)
  <2>1. Turn(r, Resting) /\ key' = NoKey /\ UNCHANGED <<answers, lost>> /\ At(r, "release")
    BY <1>4, <1>h DEF Release
  <2>2. AccessInv' /\ req'[r] = Resting /\ \A s \in Request : s # r => req'[s] = req[s]
    BY <1>p, <1>m, <2>1, RouteTurn
  <2>3. MediaTypeOK'
    BY <1>p, <1>m, <2>1 DEF MediaTypeOK, KeyRecord, media
  <2>4. \A s \in Request : req'[s].at \notin {"submit", "complete", "release"}
    BY <2>2, <1>h DEF HoldsKey
  <2>5. Cardinality(Born) <= lost
    BY <1>p, <2>1 DEF KeyInv, JobsAreCounted, At
  <2>6. KeyIsHeld'
    BY <2>1, <2>4 DEF KeyIsHeld, HoldsKey
  <2>7. JobsAreCounted'
    BY <1>p, <1>w, <2>1, <2>5 DEF KeyInv, JobsAreCounted, OneJobPerKey
  <2>8. AnswersNameTheKey'
    BY <2>1, <2>4, <1>h DEF AnswersNameTheKey, At
  <2> QED BY <2>2, <2>3, <2>6, <2>7, <2>8, <1>w DEF MediaInv, AccessInv, KeyInv, WorkInv
<1> QED BY <1>1, <1>2, <1>3, <1>4

\* The worker's steps.  A save moves the row one version on, so every other worker that
\* holds it has fallen behind.
LEMMA GenerationStep ==
  ASSUME MediaInv, NEW w \in Worker, Generation(w)
  PROVE  MediaInv'
<1> USE RestingTypes
<1>p. AccessInv /\ MediaTypeOK /\ KeyInv /\ WorkInv
  BY MediaParts
<1>t. /\ job \in [Job -> JobRecord] /\ work \in [Worker -> WorkRecord] /\ work[w] \in WorkRecord
      /\ delivered \in Nat /\ told \in [Job -> Seq(Terminal)] /\ ledger \subseteq Job
      /\ \A k \in Job : job[k].version \in Nat
      /\ \A v \in Worker : work[v].version \in Nat
  BY <1>p, MediaTypes DEF WorkRecord, JobRecord
<1>u. UNCHANGED <<access, req, tries, client>>
  BY DEF Generation, Load, Start, Generate, Finalize, Crash
<1>a. AccessInv'
  BY <1>p, <1>u DEF AccessInv, AccessTypeOK, EntriesAreFresh, StaleNeedsAnOverlap, At, access
<1>m. ASSUME job' \in [Job -> JobRecord], work' \in [Worker -> WorkRecord],
             delivered' \in Nat, told' \in [Job -> Seq(Terminal)], ledger' \subseteq Job,
             Born' = Born, \A k \in Job : job'[k].body = job[k].body, WorkInv'
      PROVE  MediaInv'
  <2>1. MediaTypeOK'
    BY <1>p, <1>u, <1>m DEF MediaTypeOK, client, JobRecord, WorkRecord
  <2>2. KeyInv'
    BY <1>p, <1>u, <1>m, WorkerKeepsKey
  <2> QED BY <1>a, <1>m, <2>1, <2>2 DEF MediaInv, AccessInv, KeyInv, WorkInv
<1>d. ASSUME NEW step \in WorkRecord, Do(w, step)
      PROVE  /\ work' \in [Worker -> WorkRecord] /\ work'[w] = step
             /\ \A v \in Worker : v # w => work'[v] = work[v]
  BY <1>t, <1>d DEF Do
\* A step that writes no row.
<1>q. ASSUME NEW step \in WorkRecord, Do(w, step), UNCHANGED <<job, told, ledger>>,
             delivered' \in Nat,
             step.at # "idle" =>
               LET row == job[step.job] IN
               /\ step.job \in Born /\ step.version <= row.version
               /\ step.version = row.version =>
                    row.status \in IF step.at = "start" THEN {"queued", "running"} ELSE {"running"}
               /\ step.at = "finalize" => step.outcome \in Terminal
      PROVE  MediaInv'
  <2>1. Born' = Born
    BY <1>q DEF Born
  <2>2. LedgerFollowsRows' /\ JobsSettleOnce'
    BY <1>p, <1>q DEF WorkInv, LedgerFollowsRows, JobsSettleOnce
  <2>3. ASSUME NEW v \in Worker PROVE WorkFollowsRow(v)'
    <3>1. CASE v = w
      BY <3>1, <1>d, <1>q, <2>1 DEF WorkFollowsRow
    <3>2. CASE v # w
      BY <3>2, <1>p, <1>d, <1>q, <2>1 DEF WorkInv, WorkFollowsRow
    <3> QED BY <3>1, <3>2
  <2>4. WorkInv'
    BY <2>2, <2>3 DEF WorkInv
  <2> QED BY <1>t, <1>q, <1>d, <2>1, <2>4, <1>m
<1>1. ASSUME NEW j \in Job, Load(w, j) PROVE MediaInv'
  <2> DEFINE step == [at |-> "start", job |-> j, version |-> job[j].version, outcome |-> "none"]
  <2>1. UNCHANGED <<job, told, ledger>> /\ delivered' \in Nat /\ j \in Born
    BY <1>1, <1>t DEF Load
  <2>2. CASE job[j].status \in Terminal
    BY <1>1, <2>1, <2>2, <1>q DEF Load
  <2>3. CASE job[j].status \notin Terminal
    <3>1. /\ step \in WorkRecord /\ step.at = "start" /\ step.job = j
          /\ step.version = job[j].version
      BY <1>t DEF WorkRecord
    <3>2. job[j].status \in {"queued", "running"}
      BY <2>1, <2>3, <1>t DEF Born, JobRecord
    <3>3. Do(w, step)
      BY <1>1, <2>3 DEF Load
    <3>4. job[j].version <= job[j].version
      BY <1>t
    <3> HIDE DEF step
    <3> QED BY <2>1, <3>1, <3>2, <3>3, <3>4, <1>q
  <2> QED BY <2>2, <2>3
<1>2. CASE Generate(w)
  <2>1. PICK outcome \in Terminal :
          Do(w, [work[w] EXCEPT !.at = "finalize", !.outcome = outcome])
    BY <1>2 DEF Generate
  <2> DEFINE step == [work[w] EXCEPT !.at = "finalize", !.outcome = outcome]
  <2>2. /\ step \in WorkRecord /\ step.at = "finalize" /\ step.outcome = outcome
        /\ step.job = work[w].job /\ step.version = work[w].version
    BY <1>t DEF WorkRecord
  <2>3. Do(w, step) /\ UNCHANGED <<job, told, ledger, delivered>> /\ work[w].at = "generate"
    BY <1>2, <2>1 DEF Generate
  <2>4. WorkFollowsRow(w)
    BY <1>p DEF WorkInv
  <2>5. /\ work[w].job \in Born /\ work[w].version <= job[work[w].job].version
        /\ work[w].version = job[work[w].job].version => job[work[w].job].status \in {"running"}
    BY <2>3, <2>4 DEF WorkFollowsRow
  <2> HIDE DEF step
  <2> QED BY <2>2, <2>3, <2>5, <1>q, <1>t
<1>3. CASE Crash(w)
  BY <1>3, <1>q, <1>t DEF Crash
\* A save: everyone else at the row is a version behind from now on.
<1>4. ASSUME Saves(w), work[w].at \in {"start", "finalize"},
             NEW status \in {"running"} \cup Terminal, Written(w, status),
             NEW step \in WorkRecord, Do(w, step)
      PROVE  LET j == work[w].job IN
             /\ j \in Born /\ j \in Job /\ job[j].status \in {"queued", "running"}
             /\ job' \in [Job -> JobRecord] /\ Born' = Born
             /\ job'[j].status = status /\ job'[j].version = work[w].version + 1
             /\ \A k \in Job : job'[k].body = job[k].body
             /\ \A k \in Job : k # j => job'[k] = job[k]
             /\ \A v \in Worker : v # w => WorkFollowsRow(v)'
  <2> DEFINE j == work[w].job
  <2>1. WorkFollowsRow(w) /\ job[j].version = work[w].version
    BY <1>p, <1>4 DEF WorkInv, Saves
  <2>2. j \in Born /\ j \in Job /\ job[j].status \in {"queued", "running"}
    BY <1>4, <2>1 DEF WorkFollowsRow, Born
  <2>3. /\ job' \in [Job -> JobRecord]
        /\ job'[j].status = status /\ job'[j].version = work[w].version + 1
        /\ job'[j].body = job[j].body
        /\ \A k \in Job : k # j => job'[k] = job[k]
    BY <1>p, <1>4, <2>1, <2>2, WrittenRow
  <2>4. Born' = Born
    <3>1. status # "unborn"
      BY DEF Terminal
    <3> QED BY <2>2, <2>3, <3>1 DEF Born
  <2>5. ASSUME NEW v \in Worker, v # w PROVE WorkFollowsRow(v)'
    <3>1. work'[v] = work[v] /\ WorkFollowsRow(v)
      BY <1>d, <1>4, <2>5, <1>p DEF WorkInv
    <3>2. CASE work[v].at = "idle"
      BY <3>1, <3>2 DEF WorkFollowsRow
    <3>3. CASE work[v].at # "idle" /\ work[v].job # j
      <4>1. work[v].job \in Job /\ work[v].job \in Born
        BY <3>1, <3>3 DEF WorkFollowsRow, Born
      <4>2. job'[work[v].job] = job[work[v].job]
        BY <4>1, <2>3, <3>3
      <4> QED BY <3>1, <3>3, <4>1, <4>2, <2>4 DEF WorkFollowsRow
    <3>4. CASE work[v].at # "idle" /\ work[v].job = j
      <4>1. work[v].version <= job[j].version
            /\ (work[v].at = "finalize" => work[v].outcome \in Terminal)
        BY <3>1, <3>4 DEF WorkFollowsRow
      <4>2. work[v].version < job'[j].version /\ work[v].version # job'[j].version
            /\ work[v].version <= job'[j].version
        BY <4>1, <2>1, <2>2, <2>3, <1>t
      <4> QED BY <3>1, <3>4, <4>1, <4>2, <2>2, <2>4 DEF WorkFollowsRow
    <3> QED BY <3>2, <3>3, <3>4
  <2> QED BY <2>2, <2>3, <2>4, <2>5
<1>5. CASE Start(w)
  <2>1. work[w].at = "start" /\ UNCHANGED <<told, ledger, delivered>>
    BY <1>5 DEF Start
  <2>2. CASE ~Saves(w)
    BY <1>5, <2>1, <2>2, <1>q, <1>t DEF Start
  <2>3. CASE Saves(w)
    <3> DEFINE j == work[w].job
               next == job[j].version + 1
               step == [work[w] EXCEPT !.at = "generate", !.version = next]
    <3>1. Written(w, "running") /\ Do(w, step)
      BY <1>5, <2>3 DEF Start
    <3>2. j \in Job
      BY <1>p, <2>1 DEF WorkInv, WorkFollowsRow, Born
    <3>3. step \in WorkRecord /\ step.at = "generate" /\ step.job = j
          /\ step.version = job[j].version + 1
      <4>1. next \in Nat /\ next = job[j].version + 1
        BY <1>t, <3>2
      <4> HIDE DEF next
      <4>2. step \in WorkRecord /\ step.at = "generate" /\ step.job = j /\ step.version = next
        BY <1>t, <4>1 DEF WorkRecord
      <4> QED BY <4>1, <4>2
    <3> HIDE DEF step
    <3>4. /\ j \in Born /\ job[j].status \in {"queued", "running"}
          /\ job' \in [Job -> JobRecord] /\ Born' = Born
          /\ job'[j].status = "running" /\ job'[j].version = work[w].version + 1
          /\ \A k \in Job : job'[k].body = job[k].body
          /\ \A k \in Job : k # j => job'[k] = job[k]
          /\ \A v \in Worker : v # w => WorkFollowsRow(v)'
      BY <1>4, <2>1, <2>3, <3>1, <3>3
    <3>5. WorkFollowsRow(w)'
      <4>1. work'[w] = step
        BY <1>d, <3>1, <3>3
      <4>2. step.version = job'[j].version /\ step.version <= job'[j].version
        BY <2>3, <3>2, <3>3, <3>4, <1>t DEF Saves
      <4> QED BY <3>3, <3>4, <4>1, <4>2 DEF WorkFollowsRow
    <3>6. LedgerFollowsRows'
      BY <1>p, <2>1, <3>2, <3>4 DEF WorkInv, LedgerFollowsRows, Terminal
    <3>7. JobsSettleOnce'
      BY <1>p, <2>1, <3>2, <3>4 DEF WorkInv, JobsSettleOnce, Terminal
    <3>8. WorkInv'
      BY <3>4, <3>5, <3>6, <3>7 DEF WorkInv
    <3> QED BY <1>m, <1>d, <1>t, <2>1, <3>1, <3>3, <3>4, <3>8
  <2> QED BY <2>2, <2>3
<1>6. CASE Finalize(w)
  <2> DEFINE j == work[w].job
             outcome == work[w].outcome
  <2>1. work[w].at = "finalize" /\ UNCHANGED delivered /\ Do(w, Idle)
    BY <1>6 DEF Finalize
  <2>2. CASE UNCHANGED <<job, told, ledger>>
    BY <2>1, <2>2, <1>q, <1>t
  <2>3. CASE /\ j \notin ledger /\ Saves(w) /\ Written(w, outcome)
             /\ told' = [told EXCEPT ![j] = Append(@, outcome)]
             /\ ledger' = ledger \cup {j}
    <3>1. outcome \in Terminal
      BY <1>p, <2>1 DEF WorkInv, WorkFollowsRow
    <3>2. /\ j \in Born /\ j \in Job /\ job[j].status \in {"queued", "running"}
          /\ job' \in [Job -> JobRecord] /\ Born' = Born
          /\ job'[j].status = outcome
          /\ \A k \in Job : job'[k].body = job[k].body
          /\ \A k \in Job : k # j => job'[k] = job[k]
          /\ \A v \in Worker : v # w => WorkFollowsRow(v)'
      BY <1>4, <2>1, <2>3, <3>1
    <3>3. told[j] = <<>>
      BY <1>p, <3>2 DEF WorkInv, JobsSettleOnce, Terminal
    <3>4. told' = [told EXCEPT ![j] = <<outcome>>]
      BY <2>3, <3>3
    <3>5. told' \in [Job -> Seq(Terminal)] /\ ledger' \subseteq Job
      BY <1>t, <2>3, <3>1, <3>2, <3>4
    <3>6. LedgerFollowsRows'
      BY <1>p, <2>3, <3>1, <3>2 DEF WorkInv, LedgerFollowsRows
    <3>7. JobsSettleOnce'
      <4> SUFFICES ASSUME NEW k \in Job
                   PROVE  told'[k] = IF job'[k].status \in Terminal THEN <<job'[k].status>> ELSE <<>>
        BY DEF JobsSettleOnce
      <4>1. CASE k = j
        BY <4>1, <1>t, <3>1, <3>2, <3>4
      <4>2. CASE k # j
        <5>1. told'[k] = told[k] /\ job'[k] = job[k]
          BY <4>2, <1>t, <3>2, <3>4
        <5> QED BY <5>1, <1>p DEF WorkInv, JobsSettleOnce
      <4> QED BY <4>1, <4>2
    <3>8. WorkFollowsRow(w)'
      BY <1>d, <2>1 DEF WorkFollowsRow
    <3>9. WorkInv'
      BY <3>2, <3>6, <3>7, <3>8 DEF WorkInv
    <3> QED BY <1>m, <1>d, <1>t, <2>1, <3>2, <3>5, <3>9
  <2> QED BY <1>6, <2>2, <2>3 DEF Finalize
<1> QED BY <1>1, <1>2, <1>3, <1>5, <1>6 DEF Generation

-----------------------------------------------------------------------------

\* Nobody has asked for anything yet.
LEMMA InitMediaInv == Init => MediaInv
<1> SUFFICES ASSUME Init PROVE MediaInv
  OBVIOUS
<1> USE RestingTypes DEF Init, AccessInit
<1>1. AccessTypeOK
  BY AccessTypes
<1>2. EntriesAreFresh /\ StaleNeedsAnOverlap
  BY DEF EntriesAreFresh, StaleNeedsAnOverlap, At
<1>3. \A j \in Job : job[j].status = "unborn" /\ told[j] = <<>>
  OBVIOUS
<1>4. Born = {} /\ Cardinality(Born) = 0
  BY <1>3, FS_EmptySet DEF Born
<1>5. MediaTypeOK
  <2>1. NoKey.body \in Body
    BY DEF KeyRecord
  <2>2. \A j \in Job : job[j] \in JobRecord
    BY <2>1 DEF JobRecord
  <2>3. job \in [Job -> JobRecord]
    BY <2>2
  <2> QED BY <2>3, MediaTypes
<1>6. KeyIsHeld
  BY DEF KeyIsHeld, HoldsKey
<1>7. JobsAreCounted
  BY <1>4 DEF JobsAreCounted, OneJobPerKey
<1>8. AnswersNameTheKey
  BY DEF AnswersNameTheKey, At
<1>9. LedgerFollowsRows /\ JobsSettleOnce
  BY <1>3 DEF LedgerFollowsRows, JobsSettleOnce, Terminal
<1>10. \A w \in Worker : WorkFollowsRow(w)
  BY DEF WorkFollowsRow
<1> QED BY <1>1, <1>2, <1>5, <1>6, <1>7, <1>8, <1>9, <1>10 DEF MediaInv

\* Every step of every component keeps the invariant.
LEMMA NextMediaInv == MediaInv /\ [Next]_vars => MediaInv'
<1> SUFFICES ASSUME MediaInv, [Next]_vars PROVE MediaInv'
  OBVIOUS
<1>p. AccessInv /\ MediaTypeOK /\ KeyInv /\ WorkInv
  BY MediaParts
<1>t. UNCHANGED <<media, client>> => MediaTypeOK'
  BY <1>p DEF MediaTypeOK, media, client
<1>w. UNCHANGED <<media, client>> =>
        WorkInv' /\ Born' = Born /\ \A j \in Job : job'[j].body = job[j].body
  BY <1>p, MediaAlone DEF media, Born
<1>i. ASSUME AccessInv', UNCHANGED <<media, client>>, KeyInv' PROVE MediaInv'
  BY <1>i, <1>t, <1>w DEF MediaInv, AccessInv, KeyInv, WorkInv
<1>1. CASE UNCHANGED vars
  <2>1. UNCHANGED <<access, req, tries, media, client>>
    BY <1>1 DEF vars
  <2>2. AccessInv'
    BY <1>p, <2>1 DEF AccessInv, AccessTypeOK, EntriesAreFresh, StaleNeedsAnOverlap, At, access
  <2>3. KeyInv'
    BY <1>p, <1>w, <2>1, WorkerKeepsKey
  <2> QED BY <1>i, <2>1, <2>2, <2>3
<1>2. ASSUME NEW r \in Request, Submission(r) PROVE MediaInv'
  BY <1>2, ClaimStep, SubmitStep, FinishStep DEF Submission
<1>3. ASSUME NEW w \in Worker, Generation(w) PROVE MediaInv'
  BY <1>3, GenerationStep
<1>4. ASSUME NEW r \in Request, Authenticates(r) \/ GivesUp(r), UNCHANGED <<media, client>>
      PROVE  MediaInv'
  <2>1. AccessInv'
    BY <1>p, <1>4, AuthenticatesStep
  <2>2. PICK step \in ReqRecord :
          Turn(r, step) /\ step.at \notin {"submit", "complete", "release"}
    <3>1. Turn(r, req'[r]) /\ req'[r] \in ReqRecord
      <4>1. PICK step : Turn(r, step)
        BY <1>4 DEF Authenticates, Arrive, CacheGet, Provision, RolesOf, Put, Require, GivesUp
      <4>2. req \in [Request -> ReqRecord]
        BY <1>p, AccessTypes DEF AccessInv
      <4>3. req' \in [Request -> ReqRecord]
        BY <2>1 DEF AccessInv, AccessTypeOK, ReqRecord
      <4> QED BY <4>1, <4>2, <4>3 DEF Turn
    <3>2. req'[r].at \in {"idle", "cache", "provision", "roles", "put", "require", "claim"}
      <4> USE RestingTypes DEF Turn, At, ReqRecord
      <4>r. req \in [Request -> ReqRecord]
        BY <1>p, AccessTypes DEF AccessInv
      <4>1. CASE Arrive(r)
        BY <4>1, <4>r DEF Arrive
      <4>2. CASE CacheGet(r)
        BY <4>2, <4>r DEF CacheGet
      <4>3. CASE Provision(r)
        BY <4>3, <4>r DEF Provision
      <4>4. CASE RolesOf(r)
        BY <4>4, <4>r DEF RolesOf
      <4>5. CASE Put(r)
        BY <4>5, <4>r DEF Put
      <4>6. CASE Require(r)
        BY <4>6, <4>r DEF Require
      <4>7. CASE GivesUp(r)
        BY <4>7, <4>r DEF GivesUp
      <4> QED BY <1>4, <4>1, <4>2, <4>3, <4>4, <4>5, <4>6, <4>7 DEF Authenticates
    <3> QED BY <3>1, <3>2
  <2>3. KeyInv'
    BY <1>p, <1>4, <2>2, BystanderKeepsKey DEF AccessInv
  <2> QED BY <1>4, <1>i, <2>1, <2>3
<1>5. ASSUME CacheExpires \/ \E a \in Admin : Administers(a), UNCHANGED <<media, client>>
      PROVE  MediaInv'
  <2>1. AccessInv'
    BY <1>p, <1>5, AdministersStep
  <2>2. UNCHANGED req
    BY <1>5 DEF CacheExpires, Administers, Change, Denylist, Forget, ChangeStops
  <2>3. KeyInv'
    BY <1>p, <1>w, <1>5, <2>2, WorkerKeepsKey
  <2> QED BY <1>5, <1>i, <2>1, <2>3
<1> QED BY <1>1, <1>2, <1>3, <1>4, <1>5 DEF Next

\* PrincipalCache and its invalidation: whatever readers, expiry and operators do, a
\* principal older than a change settled before the request arrived was put late.
THEOREM StalePrincipalNeedsAnOverlap == Spec => []StaleNeedsAnOverlap
<1>1. MediaInv => StaleNeedsAnOverlap
  BY DEF MediaInv
<1> QED BY <1>1, InitMediaInv, NextMediaInv, PTL DEF Spec

\* SqlIdempotencyStore: with any number of requests, retries and failures a key has one
\* job more than the commits whose answer was lost, at most.
THEOREM OneJobForAKey == Spec => []OneJobPerKey
<1>1. MediaInv => OneJobPerKey
  BY DEF MediaInv, JobsAreCounted
<1> QED BY <1>1, InitMediaInv, NextMediaInv, PTL DEF Spec

\* idempotent: every 202 of a key names one job, made from the body it answers.
THEOREM AnswersNameOneJob == Spec => []AnswersAgree
<1>1. MediaInv => AnswersAgree
  BY DEF MediaInv, AnswersNameTheKey, AnswersAgree
<1> QED BY <1>1, InitMediaInv, NextMediaInv, PTL DEF Spec

\* RunMediaJob and the versioned save: any number of workers and deliveries settle a job
\* once, and its row shows the ending that was published.
THEOREM MediaJobsSettleOnce == Spec => []JobsSettleOnce
<1>1. MediaInv => JobsSettleOnce
  BY DEF MediaInv
<1> QED BY <1>1, InitMediaInv, NextMediaInv, PTL DEF Spec

=============================================================================
