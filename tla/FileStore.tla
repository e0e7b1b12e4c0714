----------------------------- MODULE FileStore -----------------------------
(***************************************************************************)
(* The files of a workspace, from registration to destruction:             *)
(*   framework/di/space_quota.py        SpaceQuotaService                  *)
(*   framework/di/file_replacement.py   ReplaceNamesakesService            *)
(*   framework/di/file_deletion.py      DeleteFileService                  *)
(*   framework/di/space_deletion.py     DeleteSpaceService                 *)
(*   modules/files/application/use_cases.py, modules/files/domain          *)
(*   modules/spaces/application/use_cases.py                               *)
(*   the two modules' SQL repositories                                     *)
(*                                                                         *)
(* A request is a sequence of short transactions.  Between two of them     *)
(* other requests run, a client uploads, and the object store drops the    *)
(* parts of an upload that nobody finished.  A file's identity is its place *)
(* in the order (created_at, id) the replacement rule uses; its key is its  *)
(* name up to case together with its tags.                                 *)
(***************************************************************************)
EXTENDS Naturals, FiniteSets

CONSTANTS
  Request,     \* requests the API serves at a time
  N,           \* bound: the files ever registered
  Space, SpaceOf,  \* [1..N -> Space]
  Size,        \* [1..N -> Nat]
  Multipart,   \* SUBSET 1..N: registered for a multipart upload
  Key,         \* names with their tags
  MaxSpaceBytes, MaxFiles  \* Limits.max_space_bytes, max_files_per_workspace

File == 1..N
Free == "free"

ASSUME FileStoreAssumption ==
  /\ N \in Nat \ {0} /\ MaxSpaceBytes \in Nat /\ MaxFiles \in Nat
  /\ SpaceOf \in [File -> Space] /\ Size \in [File -> Nat] /\ Multipart \subseteq File
  /\ Free \notin Request

VARIABLES
  rows,       \* [File -> its row of files.files]
  fresh,      \* SUBSET File: ids not drawn yet
  objects,    \* SUBSET Multipart: whose joined bytes are in the object store
  parts,      \* [File -> the parts its upload holds: some, all, or the upload is gone]
  closed,     \* SUBSET Space: deleted_at is set
  lock,       \* who holds the workspace's advisory lock
  req,        \* [Request -> what it is doing]
  swept,      \* history: the files a replacement destroyed
  asked,      \* history: the files a DELETE destroyed
  emptied     \* history: the spaces whose files were purged

vars == <<rows, fresh, objects, parts, closed, lock, req, swept, asked, emptied>>

NoRow == [key |-> "none", ready |-> FALSE, deleted |-> FALSE]

Idle == [op |-> "idle", at |-> "idle", file |-> 0, snap |-> NoRow, stale |-> FALSE,
         todo |-> {}, key |-> "none", space |-> "none"]

Has(f) == rows[f] # NoRow
Live == {f \in File : Has(f) /\ ~ rows[f].deleted}
In(sp) == {f \in File : Has(f) /\ SpaceOf[f] = sp}

\* The bytes of a set of files: a byte is its file and its place in it.
BytesOf(S) == UNION {{f} \X (1..Size[f]) : f \in S}

\* bytes_in_space: live rows only.
BytesInSpace(sp) == Cardinality(BytesOf(Live \cap In(sp)))

Init ==
  /\ rows = [f \in File |-> NoRow] /\ fresh = File
  /\ objects = {} /\ parts = [f \in File |-> IF f \in Multipart THEN "some" ELSE "gone"]
  /\ closed = {} /\ lock = Free
  /\ req = [r \in Request |-> Idle]
  /\ swept = {} /\ asked = {} /\ emptied = {}

-----------------------------------------------------------------------------
(* Requests.  A request may end at any step: a guard refuses it, a store    *)
(* does not answer, its process dies.  A transaction that was open rolls   *)
(* back, which releases its locks.                                         *)

At(r, op, at) == req[r].op = op /\ req[r].at = at
Step(r, at) == req' = [req EXCEPT ![r].at = at]
Done(r) == req' = [req EXCEPT ![r] = Idle]

Stops(r) ==
  /\ req[r] # Idle /\ req[r].op # "sweep"
  /\ Done(r) /\ lock' = IF lock = r THEN Free ELSE lock
  /\ UNCHANGED <<rows, fresh, objects, parts, closed, swept, asked, emptied>>

\* files.get: the snapshot a later save is checked against.
Load(r, f) == [req[r] EXCEPT !.file = f, !.snap = rows[f], !.stale = FALSE]

\* Mutant of Save: UPDATE ... WHERE id, without the version.
SaveBlind(r, f, row, next) ==
  /\ rows' = [rows EXCEPT ![f] = row]
  /\ req' = [req EXCEPT ![r] = next]

\* files.save: WHERE version = the snapshot's.  It makes every other snapshot
\* of the file stale.
Save(r, f, row, next) ==
  /\ ~ req[r].stale /\ Has(f)
  /\ rows' = [rows EXCEPT ![f] = row]
  /\ req' = [q \in Request |->
               IF q = r THEN next
               ELSE IF req[q].file = f THEN [req[q] EXCEPT !.stale = TRUE]
               ELSE req[q]]

-----------------------------------------------------------------------------
(* Registration: SpaceQuotaService.register around RegisterUpload.         *)

\* QuotaLock.hold, the workspace's advisory lock, then the space's row
\* FOR UPDATE: a space that is deleted is not found.
RegisterHold(r) ==
  \E f \in fresh :
    /\ lock = Free /\ SpaceOf[f] \notin closed
    /\ req[r] = Idle
    /\ lock' = r
    /\ req' = [req EXCEPT ![r] = [Idle EXCEPT !.op = "register", !.at = "count", !.file = f]]
    /\ UNCHANGED <<rows, fresh, objects, parts, closed, swept, asked, emptied>>

\* Mutant of RegisterCount: uploads that are not complete do not count.
RegisterCountReady(r) ==
  LET f == req[r].file
      ready == {g \in Live : rows[g].ready}
  IN
  /\ At(r, "register", "count")
  /\ Cardinality(BytesOf(ready \cap In(SpaceOf[f]))) + Size[f] <= MaxSpaceBytes
  /\ Cardinality(ready) < MaxFiles
  /\ Step(r, "insert")
  /\ UNCHANGED <<rows, fresh, objects, parts, closed, lock, swept, asked, emptied>>

\* The bytes of the space, then the files of the workspace.
RegisterCount(r) ==
  LET f == req[r].file IN
  /\ At(r, "register", "count")
  /\ BytesInSpace(SpaceOf[f]) + Size[f] <= MaxSpaceBytes
  /\ Cardinality(Live) < MaxFiles
  /\ Step(r, "insert")
  /\ UNCHANGED <<rows, fresh, objects, parts, closed, lock, swept, asked, emptied>>

\* files.add and the commit, which releases the locks.
RegisterInsert(r) ==
  LET f == req[r].file IN
  /\ At(r, "register", "insert") /\ f \in fresh
  /\ \E k \in Key : rows' = [rows EXCEPT ![f] = [key |-> k, ready |-> FALSE, deleted |-> FALSE]]
  /\ fresh' = fresh \ {f} /\ Done(r) /\ lock' = IF lock = r THEN Free ELSE lock
  /\ UNCHANGED <<objects, parts, closed, swept, asked, emptied>>

-----------------------------------------------------------------------------
(* The object store and the client, which act on signed URLs on their own.  *)
(* The server never looks at the bytes of a single upload.                 *)

\* A part arrives, or one that was there is replaced by one of another size.
PutPart(f) ==
  /\ f \in Multipart \ fresh /\ parts[f] # "gone"
  /\ parts' = [parts EXCEPT ![f] = IF @ = "some" THEN "all" ELSE "some"]
  /\ UNCHANGED <<rows, fresh, objects, closed, lock, req, swept, asked, emptied>>

\* The store's lifecycle rule drops an upload that nobody finished.
StorageSweeps(f) ==
  /\ f \in Multipart \ fresh /\ parts[f] # "gone"
  /\ parts' = [parts EXCEPT ![f] = "gone"]
  /\ UNCHANGED <<rows, fresh, objects, closed, lock, req, swept, asked, emptied>>

-----------------------------------------------------------------------------
(* Completion: CompleteUploadService.complete.                             *)

\* MultipartUploadService.assemble up to check_parts.  A single upload goes
\* straight to the commit, and so does what assemble has nothing to do for.
ListParts(r) ==
  \E f \in File :
    LET skip == f \notin Multipart \/ ~ Has(f) \/ rows[f].ready \/ rows[f].deleted
        Goes(at) == req' = [req EXCEPT ![r] = [Idle EXCEPT !.op = "complete", !.at = at, !.file = f]]
    IN
    /\ req[r] = Idle /\ f \notin fresh
    /\ \/ skip /\ Goes("load")
       \/ ~ skip /\ parts[f] = "gone" /\ f \in objects /\ Goes("load")   \* _joined_earlier
       \/ ~ skip /\ parts[f] = "all" /\ Goes("join")
    /\ UNCHANGED <<rows, fresh, objects, parts, closed, lock, swept, asked, emptied>>

\* complete_multipart, which can answer without having produced the object;
\* NotFound when another request joined the parts first.
Join(r) ==
  LET f == req[r].file IN
  /\ At(r, "complete", "join") /\ Step(r, "size")
  /\ \/ parts[f] = "all" /\ objects' = objects \cup {f} /\ parts' = [parts EXCEPT ![f] = "gone"]
     \/ UNCHANGED <<objects, parts>>
  /\ UNCHANGED <<rows, fresh, closed, lock, swept, asked, emptied>>

\* Mutant of ObjectSize: the store's answer to complete_multipart is believed.
ObjectUnchecked(r) ==
  /\ At(r, "complete", "size") /\ Step(r, "load")
  /\ UNCHANGED <<rows, fresh, objects, parts, closed, lock, swept, asked, emptied>>

\* object_size, of assemble and of _joined_earlier.
ObjectSize(r) ==
  /\ At(r, "complete", "size") /\ req[r].file \in objects /\ Step(r, "load")
  /\ UNCHANGED <<rows, fresh, objects, parts, closed, lock, swept, asked, emptied>>

\* CompleteUpload.execute: read, guard ...
CompleteLoad(r) ==
  LET f == req[r].file IN
  /\ At(r, "complete", "load") /\ Has(f) /\ ~ rows[f].deleted /\ ~ rows[f].ready
  /\ req' = [req EXCEPT ![r] = [Load(r, f) EXCEPT !.at = "save"]]
  /\ UNCHANGED <<rows, fresh, objects, parts, closed, lock, swept, asked, emptied>>

\* The request becomes the sweep of the files its own file replaces.
Sweeping(f) == [Idle EXCEPT !.op = "sweep", !.at = "find", !.file = f]

\* ... save with FileUploaded in one transaction, then _sweep.
CompleteSave(r) ==
  LET f == req[r].file IN
  /\ At(r, "complete", "save")
  /\ Save(r, f, [req[r].snap EXCEPT !.ready = TRUE], Sweeping(f))
  /\ UNCHANGED <<fresh, objects, parts, closed, lock, swept, asked, emptied>>

-----------------------------------------------------------------------------
(* RenameFile and RetagFile: either changes the key, or changes the name in *)
(* case only, or nothing at all.                                           *)

RenameLoad(r) ==
  /\ req[r] = Idle
  /\ \E f \in Live, k \in Key :
       req' = [req EXCEPT ![r] = [Load(r, f) EXCEPT !.op = "rename", !.at = "save", !.key = k]]
  /\ UNCHANGED <<rows, fresh, objects, parts, closed, lock, swept, asked, emptied>>

\* Mutant of AfterRename: a file that is not ready sweeps too.
AfterRenameAlways(r) == Sweeping(req[r].file)

\* rename/retag: only a ready file has replaced anything.
AfterRename(r) == IF req[r].snap.ready THEN Sweeping(req[r].file) ELSE Idle

RenameSave(r) ==
  LET f == req[r].file
      q == req[r]
  IN
  /\ At(r, "rename", "save")
  /\ \/ Save(r, f, [q.snap EXCEPT !.key = q.key], AfterRename(r))
     \/ q.key = q.snap.key /\ req' = [req EXCEPT ![r] = AfterRename(r)] /\ UNCHANGED rows
  /\ UNCHANGED <<fresh, objects, parts, closed, lock, swept, asked, emptied>>

-----------------------------------------------------------------------------
(* ReplaceNamesakesService._sweep: nothing it meets reaches the caller.     *)

\* Mutant of LiveNamesakes: <= for <.
NamesakesOrSelf(f, key) == {g \in Live \cap In(SpaceOf[f]) : rows[g].key = key /\ g <= f}

\* FileRepository.live_namesakes.
LiveNamesakes(f, key) == {g \in Live \cap In(SpaceOf[f]) : rows[g].key = key /\ g < f}

\* FindNamesakes.execute: the file's key, then the list.  It does not ask
\* whether the file itself is still alive.
FindNamesakes(r) ==
  LET f == req[r].file IN
  /\ At(r, "sweep", "find")
  /\ req' = [req EXCEPT ![r] =
               IF Has(f) /\ LiveNamesakes(f, rows[f].key) # {}
               THEN [Idle EXCEPT !.op = "sweep", !.at = "next", !.todo = LiveNamesakes(f, rows[f].key)]
               ELSE Idle]
  /\ UNCHANGED <<rows, fresh, objects, parts, closed, lock, swept, asked, emptied>>

\* The purges of knowledge and of electrical follow, other modules' business;
\* whether they succeed or not, a sweep goes on and a DELETE ends.
AfterErase(r) ==
  IF req[r].todo = {} THEN Idle
  ELSE [Idle EXCEPT !.op = "sweep", !.at = "next", !.todo = req[r].todo]

\* A look-up or an erasure that failed is logged, and the sweep goes on; a
\* process that dies ends it.
SweepFails(r) ==
  /\ req[r].op = "sweep"
  /\ \/ Done(r)
     \/ At(r, "sweep", "save") /\ req' = [req EXCEPT ![r] = AfterErase(r)]
     \/ At(r, "sweep", "next") /\ \E f \in req[r].todo : req' = [req EXCEPT ![r].todo = @ \ {f}]
  /\ UNCHANGED <<rows, fresh, objects, parts, closed, lock, swept, asked, emptied>>

-----------------------------------------------------------------------------
(* DeleteFileService.delete, of DELETE /files/{id} and of a sweep.         *)

\* SoftDeleteFile.execute: read (a deleted file is found as well) ...
EraseLoad(r) ==
  /\ \/ /\ req[r] = Idle
        /\ \E f \in File : /\ Has(f)
                          /\ req' = [req EXCEPT ![r] = [Load(r, f) EXCEPT !.op = "delete", !.at = "save"]]
     \/ /\ At(r, "sweep", "next")
        /\ \E f \in req[r].todo :
             /\ Has(f)
             /\ req' = [req EXCEPT ![r] = [Load(r, f) EXCEPT !.at = "save", !.todo = @ \ {f}]]
  /\ UNCHANGED <<rows, fresh, objects, parts, closed, lock, swept, asked, emptied>>

\* ... and save, with FileDeleted the first time.
EraseSave(r) ==
  LET f == req[r].file IN
  /\ At(r, "delete", "save") \/ At(r, "sweep", "save")
  /\ Save(r, f, [req[r].snap EXCEPT !.deleted = TRUE], AfterErase(r))
  /\ IF req[r].snap.deleted THEN UNCHANGED <<swept, asked>>
     ELSE IF req[r].op = "sweep" THEN swept' = swept \cup {f} /\ UNCHANGED asked
     ELSE asked' = asked \cup {f} /\ UNCHANGED swept
  /\ UNCHANGED <<fresh, objects, parts, closed, lock, emptied>>

-----------------------------------------------------------------------------
(* DeleteSpaceService.delete: mark, knowledge, electrical, files.  A second *)
(* DELETE of the space runs the whole cascade again.                       *)

\* The space's row is locked by a registration into it.
RowHeld(sp) ==
  \E r \in Request : lock = r /\ req[r].op = "register" /\ SpaceOf[req[r].file] = sp

\* Mutant of MarkSpace: the mark is left to the end of the cascade.
MarkLast(r) ==
  \E sp \in Space :
    /\ req[r] = Idle /\ ~ RowHeld(sp)
    /\ req' = [req EXCEPT ![r] = [Idle EXCEPT !.op = "space", !.space = sp, !.at = "keys"]]
    /\ UNCHANGED <<rows, fresh, objects, parts, closed, lock, swept, asked, emptied>>

\* DeleteSpace.execute, which waits for the row; marking twice is no error.  The
\* purges of knowledge and of electrical come next, other modules' business.
MarkSpace(r) ==
  \E sp \in Space :
    /\ req[r] = Idle /\ ~ RowHeld(sp)
    /\ closed' = closed \cup {sp}
    /\ req' = [req EXCEPT ![r] = [Idle EXCEPT !.op = "space", !.space = sp, !.at = "keys"]]
    /\ UNCHANGED <<rows, fresh, objects, parts, lock, swept, asked, emptied>>

\* PurgeSpaceFiles: the keys of every row of the space, deleted rows included ...
SpaceKeys(r) ==
  /\ At(r, "space", "keys")
  /\ req' = [req EXCEPT ![r].at = "objects", ![r].todo = Multipart \cap In(req[r].space)]
  /\ UNCHANGED <<rows, fresh, objects, parts, closed, lock, swept, asked, emptied>>

\* ... their objects, one by one ...
SpaceObject(r) ==
  /\ At(r, "space", "objects")
  /\ \E f \in req[r].todo :
       /\ objects' = objects \ {f}
       /\ req' = [req EXCEPT ![r].todo = @ \ {f}]
  /\ UNCHANGED <<rows, fresh, parts, closed, lock, swept, asked, emptied>>

\* ... and the rows.  Nobody reads the parts of a purged file again.
SpaceRows(r) ==
  LET sp == req[r].space
      gone == {f \in File \ fresh : SpaceOf[f] = sp}
  IN
  /\ At(r, "space", "objects") /\ req[r].todo = {}
  /\ rows' = [f \in File |-> IF f \in gone THEN NoRow ELSE rows[f]]
  /\ parts' = [f \in File |-> IF f \in gone THEN "gone" ELSE parts[f]]
  /\ swept' = swept \ gone /\ asked' = asked \ gone
  /\ emptied' = emptied \cup {sp} /\ Done(r)
  /\ UNCHANGED <<fresh, objects, closed, lock>>

-----------------------------------------------------------------------------
Next ==
  \/ \E r \in Request :
       \/ Stops(r) \/ RegisterHold(r) \/ RegisterCount(r) \/ RegisterInsert(r)
       \/ ListParts(r) \/ Join(r) \/ ObjectSize(r)
       \/ CompleteLoad(r) \/ CompleteSave(r)
       \/ RenameLoad(r) \/ RenameSave(r)
       \/ FindNamesakes(r) \/ SweepFails(r)
       \/ EraseLoad(r) \/ EraseSave(r)
       \/ MarkSpace(r) \/ SpaceKeys(r) \/ SpaceObject(r) \/ SpaceRows(r)
  \/ \E f \in File : PutPart(f) \/ StorageSweeps(f)

Spec == Init /\ [][Next]_vars

-----------------------------------------------------------------------------
(* Properties.                                                             *)

\* The ceilings of space_quota.py hold of what is committed, however many
\* registrations, deletions and cascades run at once: the live files of a space
\* fit its bytes and those of the workspace its count.
QuotaHolds ==
  /\ Cardinality(Live) <= MaxFiles
  /\ \A sp \in Space : BytesInSpace(sp) <= MaxSpaceBytes

\* A completed file newer than f that no sweep destroyed and no DELETE left behind.
HasHeir(f) ==
  \E g \in In(SpaceOf[f]) \ swept :
    g > f /\ rows[g].ready /\ (rows[g].deleted => g \in asked)

\* A replacement never costs the user the content: whatever a sweep of
\* file_replacement.py destroyed, a newer file of the space was completed, was
\* itself not destroyed by a sweep, and is gone only if a DELETE asked for that.
ReplacementSurvives == \A f \in swept : HasHeir(f)

\* A multipart upload that says ready has its bytes (assemble's object_size), also
\* when two completions, a lifecycle sweep and a store that fails silently meet,
\* until the cascade of its space takes them.
ReadyHasBytes ==
  \A f \in Multipart : Has(f) /\ rows[f].ready /\ SpaceOf[f] \notin closed => f \in objects

\* Once DeleteSpaceService has purged a space's files, no row of it exists again:
\* the mark and the registration's row lock leave nothing to slip in between.
DeletedSpaceStaysEmpty == \A sp \in emptied : In(sp) = {}

\* A deleted file never comes back: a rename, a re-tag or a completion that read
\* the row before the deletion writes deleted_at with everything else, and only
\* the version in save's WHERE stops it.
DeletedForGood ==
  [][\A f \in File : rows[f].deleted => rows'[f].deleted \/ rows'[f] = NoRow]_vars

-----------------------------------------------------------------------------
(* The invariants the proofs carry.                                        *)

Row == [key : Key \cup {"none"}, ready : BOOLEAN, deleted : BOOLEAN]
Op == {"idle", "register", "complete", "rename", "sweep", "delete", "space"}
Place == {"idle", "count", "insert", "load", "join", "size", "save", "find", "next", "keys",
          "objects"}

Work == [op : Op, at : Place, file : 0..N, snap : Row, stale : BOOLEAN, todo : SUBSET File,
         key : Key \cup {"none"}, space : Space \cup {"none"}]

\* Every variable keeps its type.
FileTypes ==
  /\ rows \in [File -> Row] /\ fresh \subseteq File /\ objects \subseteq File
  /\ parts \in [File -> {"some", "all", "gone"}]
  /\ closed \subseteq Space /\ emptied \subseteq Space
  /\ lock \in Request \cup {Free}
  /\ req \in [Request -> Work]
  /\ swept \subseteq File /\ asked \subseteq File

\* A file that is not registered has no row and was never replaced.
FreshAreUnknown == fresh \cap swept = {} /\ \A f \in fresh : ~ Has(f)

\* A registration has the workspace's lock, and its space is not deleted.
RegistersAlone ==
  \A r \in Request : req[r].op = "register" =>
    lock = r /\ req[r].file \in File /\ SpaceOf[req[r].file] \notin closed

\* Between the count and the insert there is room for the file.
InsertsHaveRoom ==
  \A r \in Request : At(r, "register", "insert") =>
    /\ BytesInSpace(SpaceOf[req[r].file]) + Size[req[r].file] <= MaxSpaceBytes
    /\ Cardinality(Live) < MaxFiles

\* Each live file fits its space by itself.
LiveFilesFit == \A f \in Live : Size[f] <= MaxSpaceBytes

\* A cascade runs in a space that is marked, and takes only what is in it.
CascadesAreMarked ==
  /\ emptied \subseteq closed
  /\ \A r \in Request : req[r].op = "space" =>
       req[r].space \in closed /\ \A f \in req[r].todo : SpaceOf[f] = req[r].space

\* A snapshot that is not stale is the row; a stale one may only lag behind it.
SnapshotsLag ==
  \A r \in Request : req[r].at = "save" =>
    LET f == req[r].file IN
    /\ f \in File \ fresh
    /\ Has(f) => (req[r].stale \/ req[r].snap = rows[f]) /\ (req[r].snap.ready => rows[f].ready)

\* A completion that goes on to the row has seen the bytes, or finds the file gone; it
\* saves only over a row that was neither ready nor deleted.
CompletionsSawBytes ==
  \A r \in Request : req[r].op = "complete" =>
    LET f == req[r].file IN
    /\ f \in File \ fresh
    /\ req[r].at = "save" => ~ req[r].snap.ready /\ ~ req[r].snap.deleted
    /\ (/\ req[r].at \in {"load", "save"} /\ f \in Multipart
        /\ Has(f) /\ ~ rows[f].ready /\ ~ rows[f].deleted /\ SpaceOf[f] \notin closed)
         => f \in objects

\* A deleted file was swept or asked for; what a sweep is about to take has an heir,
\* and a sweep starts from a completed file.
SweepsLeaveAnHeir ==
  /\ \A f \in File : rows[f].deleted => f \in asked \cup swept
  /\ \A r \in Request :
       /\ req[r].op \in {"delete", "rename", "complete"} => req[r].todo = {}
       /\ At(r, "sweep", "find") =>
            req[r].file \in File \ fresh /\ (Has(req[r].file) => rows[req[r].file].ready)
       /\ req[r].op = "sweep" =>
            /\ req[r].todo \cap fresh = {}
            /\ \A f \in req[r].todo : Has(f) => HasHeir(f)
            /\ req[r].at = "save" /\ Has(req[r].file) => HasHeir(req[r].file)

FileInv ==
  /\ FileTypes /\ FreshAreUnknown /\ RegistersAlone /\ InsertsHaveRoom
  /\ CascadesAreMarked /\ SnapshotsLag /\ CompletionsSawBytes /\ SweepsLeaveAnHeir
  /\ QuotaHolds /\ LiveFilesFit
  /\ ReadyHasBytes /\ DeletedSpaceStaysEmpty /\ ReplacementSurvives
=============================================================================
