--------------------------- MODULE AccountAccess ---------------------------
(***************************************************************************)
(* Who a request is taken to be, while an operator changes it:             *)
(*   api/middleware/auth.py              ApiAuthenticator.authenticate     *)
(*   framework/auth/principal_cache.py   PrincipalCache                    *)
(*   framework/auth/revocation.py        SessionRevocationList             *)
(*   api/v1/routers/admin.py             status and role changes           *)
(*   api/middleware/rbac.py              require                           *)
(*                                                                         *)
(* One subject.  The account row and its roles are in Postgres, the        *)
(* principal cache and the denylist in Redis, and nothing spans the two:   *)
(* every read and every write below is a step of its own.  A role is kept  *)
(* as "may": whether it grants the permission the route requires.          *)
(***************************************************************************)
EXTENDS Naturals

CONSTANTS
  Request, Admin,
  Body,         \* the bodies a client may send
  MaxTries,     \* bound: requests sent
  MaxChanges    \* bound: changes an operator commits

\* A client has something to send.
ASSUME AccessAssumption == Body # {}

VARIABLES
  account,    \* [active, may]: the account's row and roles
  revoked,    \* the subject's denylist entry exists
  cache,      \* the subject's principal, or Absent
  admin,      \* [Admin -> the change it is applying]
  req,        \* [Request -> what it is doing]
  tries,
  epoch,      \* history: changes committed
  settled     \* history: the last change whose invalidation was done

access == <<account, revoked, cache, admin, epoch, settled>>

Absent == [may |-> FALSE, epoch |-> 0, late |-> FALSE, present |-> FALSE]
AtRest == [at |-> "idle", kind |-> "none", epoch |-> 0]
Resting == [at |-> "idle", body |-> CHOOSE b \in Body : TRUE, began |-> 0,
            may |-> FALSE, epoch |-> 0, late |-> FALSE, job |-> 0]

AccessInit ==
  /\ account = [active |-> TRUE, may |-> TRUE] /\ revoked = FALSE
  /\ cache = Absent /\ epoch = 0 /\ settled = 0 /\ tries = 0
  /\ admin = [a \in Admin |-> AtRest] /\ req = [r \in Request |-> Resting]

Turn(r, step) == req' = [req EXCEPT ![r] = step]
At(r, at) == req[r].at = at

-----------------------------------------------------------------------------
(* authenticate, then require.                                             *)

\* verify_token and is_revoked, read from Redis on every request.
Arrive(r) ==
  /\ req[r] = Resting /\ tries < MaxTries /\ ~revoked
  /\ \E b \in Body : Turn(r, [Resting EXCEPT !.at = "cache", !.body = b, !.began = settled])
  /\ tries' = tries + 1
  /\ UNCHANGED access

CacheGet(r) ==
  /\ At(r, "cache")
  /\ Turn(r, IF cache.present
             THEN [req[r] EXCEPT !.at = "require", !.may = cache.may,
                                 !.epoch = cache.epoch, !.late = cache.late]
             ELSE [req[r] EXCEPT !.at = "provision"])
  /\ UNCHANGED <<access, tries>>

\* provision_on_login finds the account; a disabled one is refused, and not cached.
Provision(r) ==
  /\ At(r, "provision")
  /\ Turn(r, IF account.active THEN [req[r] EXCEPT !.at = "roles", !.epoch = epoch] ELSE Resting)
  /\ UNCHANGED <<access, tries>>

RolesOf(r) ==
  /\ At(r, "roles")
  /\ Turn(r, [req[r] EXCEPT !.at = "put", !.may = account.may])
  /\ UNCHANGED <<access, tries>>

\* A put is late when a change made since the account was read is already settled.
Put(r) ==
  LET late == req[r].epoch < settled IN
  /\ At(r, "put")
  /\ cache' = [may |-> req[r].may, epoch |-> req[r].epoch, late |-> late, present |-> TRUE]
  /\ Turn(r, [req[r] EXCEPT !.at = "require", !.late = late])
  /\ UNCHANGED <<account, revoked, admin, epoch, settled, tries>>

Require(r) ==
  /\ At(r, "require")
  /\ Turn(r, IF req[r].may THEN [Resting EXCEPT !.at = "claim", !.body = req[r].body] ELSE Resting)
  /\ UNCHANGED <<access, tries>>

\* A request fails, is cancelled or dies with its process, wherever it is.
GivesUp(r) ==
  /\ req[r] # Resting /\ Turn(r, Resting)
  /\ UNCHANGED <<access, tries>>

CacheExpires ==
  /\ cache.present /\ cache' = Absent
  /\ UNCHANGED <<account, revoked, admin, epoch, settled, req, tries>>

-----------------------------------------------------------------------------
(* PATCH .../status and PATCH .../roles: the change commits, the denylist  *)
(* follows a status, the principal is forgotten last.  A Redis failure is  *)
(* a 500 after the commit, with the steps behind it undone.                *)

Changes(kind) ==
  account' = CASE kind = "disable" -> [account EXCEPT !.active = FALSE]
               [] kind = "enable"  -> [account EXCEPT !.active = TRUE]
               [] kind = "role"    -> [account EXCEPT !.may = ~account.may]

Operate(a, step) == admin' = [admin EXCEPT ![a] = step]

Change(a, kind) ==
  /\ admin[a] = AtRest /\ epoch < MaxChanges
  /\ kind = "disable" => account.active
  /\ kind = "enable" => ~account.active
  /\ Changes(kind)
  /\ epoch' = epoch + 1
  /\ Operate(a, [at |-> IF kind = "role" THEN "forget" ELSE "denylist", kind |-> kind,
                 epoch |-> epoch + 1])
  /\ UNCHANGED <<revoked, cache, settled, req, tries>>

Denylist(a) ==
  /\ admin[a].at = "denylist"
  /\ revoked' = (admin[a].kind = "disable")
  /\ Operate(a, [admin[a] EXCEPT !.at = "forget"])
  /\ UNCHANGED <<account, cache, epoch, settled, req, tries>>

\* Mutant of Forget: the role routes do not invalidate.
ForgetStatusOnly(a) ==
  /\ admin[a].at = "forget"
  /\ cache' = IF admin[a].kind = "role" THEN cache ELSE Absent
  /\ settled' = IF admin[a].epoch > settled THEN admin[a].epoch ELSE settled
  /\ Operate(a, AtRest)
  /\ UNCHANGED <<account, revoked, epoch, req, tries>>

Forget(a) ==
  /\ admin[a].at = "forget"
  /\ cache' = Absent
  /\ settled' = IF admin[a].epoch > settled THEN admin[a].epoch ELSE settled
  /\ Operate(a, AtRest)
  /\ UNCHANGED <<account, revoked, epoch, req, tries>>

ChangeStops(a) ==
  /\ admin[a] # AtRest /\ Operate(a, AtRest)
  /\ UNCHANGED <<account, revoked, cache, epoch, settled, req, tries>>

Authenticates(r) ==
  Arrive(r) \/ CacheGet(r) \/ Provision(r) \/ RolesOf(r) \/ Put(r) \/ Require(r)

Administers(a) ==
  \/ \E kind \in {"disable", "enable", "role"} : Change(a, kind)
  \/ Denylist(a) \/ Forget(a) \/ ChangeStops(a)

-----------------------------------------------------------------------------
(* Properties *)

\* A principal older than a change that was settled before the request arrived can only
\* come from a miss that read the account before the change and wrote its entry after
\* the invalidation: whatever the interleaving of readers, expiry and operators, no
\* entry survives the invalidation that follows a change (principal_cache.py: "Every
\* write that changes an answer here invalidates it explicitly").
StaleNeedsAnOverlap ==
  \A r \in Request : At(r, "require") => req[r].epoch >= req[r].began \/ req[r].late

-----------------------------------------------------------------------------
(* The invariant the proofs carry.                                         *)

Stage == {"idle", "cache", "provision", "roles", "put", "require",
          "claim", "inspect", "submit", "complete", "release"}

\* Every variable of the authentication keeps its type.
AccessTypeOK ==
  /\ account \in [active : BOOLEAN, may : BOOLEAN] /\ revoked \in BOOLEAN
  /\ cache \in [may : BOOLEAN, epoch : Nat, late : BOOLEAN, present : BOOLEAN]
  /\ admin \in [Admin -> [at : {"idle", "denylist", "forget"},
                         kind : {"none", "disable", "enable", "role"}, epoch : Nat]]
  /\ req \in [Request -> [at : Stage, body : Body, began : Nat, may : BOOLEAN,
                         epoch : Nat, late : BOOLEAN, job : Nat]]
  /\ tries \in Nat /\ epoch \in Nat /\ settled \in Nat

\* An entry is as new as the last settled change or was put after it, and a request
\* began no later than now.
EntriesAreFresh ==
  /\ cache.present => cache.epoch >= settled \/ cache.late
  /\ \A r \in Request : req[r].began <= settled

=============================================================================
