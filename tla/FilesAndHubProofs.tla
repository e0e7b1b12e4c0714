------------------------- MODULE FilesAndHubProofs --------------------------
(***************************************************************************)
(* FileStore, proved for any number of files, requests, spaces and keys:   *)
(* what the replacement sweeps destroy has an heir, a ready multipart      *)
(* upload has its bytes, a purged space stays empty, a deleted file stays  *)
(* deleted, and the live files stay within the quotas of their space and   *)
(* of the workspace. FileInv is split into what holds of the store         *)
(* (StoreInv) and what holds of one request wherever it is (Fits). Most    *)
(* steps move one request and leave the store alone: RequestMoves. Every   *)
(* write of a row goes through the versioned save: SaveKeeps.              *)
(*                                                                         *)
(* ConnectionHub, proved for any number of processes, sessions, events and *)
(* faults: no user has more live sockets than the cap, a socket that is    *)
(* over has left no registry entry unless a call was lost, and no event is *)
(* skipped in silence. RegistryInv relates the two copies of what is open, *)
(* the entries of Redis and the slots of the processes, through the ages   *)
(* that renewals keep below the Ttl; OutboxInv says that an outbox is the  *)
(* part of the event sequence its session has not been sent.               *)
(*                                                                         *)
(* The two parts share no state.                                           *)
(***************************************************************************)
EXTENDS FileStore, ConnectionHub, FiniteSetTheorems, SequenceTheorems, TLAPS

-----------------------------------------------------------------------------
(* FileStore: the quotas, as facts about a set of live files.              *)

\* The files of L that are in the space sp.
Those(L, sp) == {f \in L : SpaceOf[f] = sp}

\* The files of L fit their spaces and the workspace.
Quota(L) ==
  /\ Cardinality(L) <= MaxFiles
  /\ \A sp \in Space : Cardinality(BytesOf(Those(L, sp))) <= MaxSpaceBytes
  /\ \A f \in L : Size[f] <= MaxSpaceBytes

\* Beside those of L there is room for f.
Room(L, f) ==
  /\ Cardinality(BytesOf(Those(L, SpaceOf[f]))) + Size[f] <= MaxSpaceBytes
  /\ Cardinality(L) < MaxFiles

\* The live rows of a space are the live files that are in it.
LEMMA QuotaOfLive ==
  /\ QuotaHolds /\ LiveFilesFit <=> Quota(Live)
  /\ (QuotaHolds /\ LiveFilesFit)' <=> Quota(Live')
  /\ \A f : BytesInSpace(SpaceOf[f]) + Size[f] <= MaxSpaceBytes /\ Cardinality(Live) < MaxFiles
              <=> Room(Live, f)
  /\ \A f : (BytesInSpace(SpaceOf[f]) + Size[f] <= MaxSpaceBytes /\ Cardinality(Live) < MaxFiles)'
              <=> Room(Live', f)
<1>1. \A sp : Live \cap In(sp) = Those(Live, sp) /\ Live' \cap In(sp)' = Those(Live', sp)
  BY DEF Live, In, Those
<1>2. \A sp : /\ BytesInSpace(sp) = Cardinality(BytesOf(Those(Live, sp)))
              /\ BytesInSpace(sp)' = Cardinality(BytesOf(Those(Live', sp)))
  BY <1>1 DEF BytesInSpace, BytesOf
<1> QED BY <1>2 DEF QuotaHolds, LiveFilesFit, Quota, Room

\* A file of n bytes has n places.
LEMMA UpTo ==
  ASSUME NEW n \in Nat PROVE IsFiniteSet(1..n) /\ Cardinality(1..n) = n
BY FS_Interval

\* Fewer files are no more files.
LEMMA FewerFiles ==
  ASSUME NEW S \in SUBSET File, NEW T \in SUBSET S
  PROVE  /\ IsFiniteSet(S) /\ Cardinality(S) \in Nat /\ Cardinality(T) \in Nat
         /\ Cardinality(T) <= Cardinality(S)
<1>1. IsFiniteSet(File)
  BY FileStoreAssumption, FS_Interval DEF File
<1>2. IsFiniteSet(S)
  BY <1>1, FS_Subset
<1>3. IsFiniteSet(T) /\ Cardinality(T) <= Cardinality(S)
  BY <1>2, FS_Subset
<1> QED BY <1>2, <1>3, FS_CardinalityType

\* Files of which each fits a space have finitely many bytes, and fewer of them no more.
LEMMA FewerBytes ==
  ASSUME NEW S \in SUBSET File, NEW T \in SUBSET S, \A f \in S : Size[f] <= MaxSpaceBytes
  PROVE  /\ IsFiniteSet(BytesOf(S)) /\ Cardinality(BytesOf(S)) \in Nat
         /\ Cardinality(BytesOf(T)) \in Nat
         /\ Cardinality(BytesOf(T)) <= Cardinality(BytesOf(S))
<1>1. IsFiniteSet(File) /\ IsFiniteSet(1..MaxSpaceBytes)
  BY FileStoreAssumption, FS_Interval DEF File
<1>2. IsFiniteSet(File \X (1..MaxSpaceBytes))
  BY <1>1, FS_Product
<1>3. BytesOf(S) \subseteq File \X (1..MaxSpaceBytes)
  BY FileStoreAssumption DEF BytesOf
<1>4. IsFiniteSet(BytesOf(S))
  BY <1>2, <1>3, FS_Subset
<1>5. BytesOf(T) \subseteq BytesOf(S)
  BY DEF BytesOf
<1> QED BY <1>4, <1>5, FS_Subset, FS_CardinalityType

\* Within the quotas, what is left of the live files is within them, and room stays room.
LEMMA FewerKeepQuota ==
  ASSUME NEW S \in SUBSET File, NEW T \in SUBSET S, Quota(S)
  PROVE  Quota(T) /\ \A f \in File : Room(S, f) => Room(T, f)
<1>1. /\ Cardinality(T) <= Cardinality(S) /\ Cardinality(S) \in Nat /\ Cardinality(T) \in Nat
  BY FewerFiles
<1>2. ASSUME NEW sp
      PROVE  /\ Cardinality(BytesOf(Those(S, sp))) \in Nat
             /\ Cardinality(BytesOf(Those(T, sp))) \in Nat
             /\ Cardinality(BytesOf(Those(T, sp))) <= Cardinality(BytesOf(Those(S, sp)))
  <2>1. /\ Those(S, sp) \in SUBSET File /\ Those(T, sp) \in SUBSET Those(S, sp)
        /\ \A f \in Those(S, sp) : Size[f] <= MaxSpaceBytes
    BY DEF Those, Quota
  <2> QED BY <2>1, FewerBytes
<1>3. Quota(T)
  BY <1>1, <1>2, FileStoreAssumption DEF Quota
<1>4. ASSUME NEW f \in File, Room(S, f) PROVE Room(T, f)
  <2>1. Size[f] \in Nat
    BY FileStoreAssumption
  <2> QED BY <1>1, <1>2, <1>4, <2>1, FileStoreAssumption DEF Room
<1> QED BY <1>3, <1>4

\* A file for which there was room leaves the quotas kept: its bytes are new ones, and
\* they are Size[f] many.
LEMMA RoomIsEnough ==
  ASSUME NEW S \in SUBSET File, Quota(S), NEW f \in File \ S, Room(S, f)
  PROVE  Quota(S \cup {f})
<1>0. Size[f] \in Nat /\ MaxSpaceBytes \in Nat /\ MaxFiles \in Nat
  BY FileStoreAssumption
<1>1. Cardinality(S \cup {f}) <= MaxFiles
  <2>1. IsFiniteSet(S) /\ Cardinality(S) \in Nat
    BY FewerFiles
  <2>2. Cardinality(S \cup {f}) = Cardinality(S) + 1
    BY <2>1, FS_AddElement
  <2> QED BY <1>0, <2>1, <2>2 DEF Room
<1>2. ASSUME NEW sp PROVE /\ IsFiniteSet(BytesOf(Those(S, sp)))
                          /\ Cardinality(BytesOf(Those(S, sp))) \in Nat
  <2>1. Those(S, sp) \in SUBSET File /\ \A g \in Those(S, sp) : Size[g] <= MaxSpaceBytes
    BY DEF Those, Quota
  <2> QED BY <2>1, FewerBytes
<1>3. Size[f] <= MaxSpaceBytes
  BY <1>0, <1>2 DEF Room
<1>4. ASSUME NEW sp \in Space
      PROVE  Cardinality(BytesOf(Those(S \cup {f}, sp))) <= MaxSpaceBytes
  <2>1. CASE SpaceOf[f] # sp
    <3>1. Those(S \cup {f}, sp) = Those(S, sp)
      BY <2>1 DEF Those
    <3> QED BY <3>1 DEF Quota
  <2>2. CASE SpaceOf[f] = sp
    <3> DEFINE Old == BytesOf(Those(S, sp))
               New == {f} \X (1..Size[f])
    <3>1. Those(S \cup {f}, sp) = Those(S, sp) \cup {f}
      BY <2>2 DEF Those
    <3>2. BytesOf(Those(S, sp) \cup {f}) = Old \cup New
      BY DEF BytesOf
    <3>3. Old \cap New = {}
      BY DEF BytesOf, Those
    <3>4. IsFiniteSet(New) /\ Cardinality(New) = Size[f]
      <4>1. IsFiniteSet({f}) /\ Cardinality({f}) = 1
        BY FS_Singleton
      <4>2. IsFiniteSet(1..Size[f]) /\ Cardinality(1..Size[f]) = Size[f]
        BY <1>0, UpTo
      <4>3. IsFiniteSet(New) /\ Cardinality(New) = Cardinality({f}) * Cardinality(1..Size[f])
        BY <4>1, <4>2, FS_Product
      <4> HIDE DEF New
      <4> QED BY <1>0, <4>1, <4>2, <4>3
    <3>5. Cardinality(Old \cup New) = Cardinality(Old) + Size[f]
      <4>1. IsFiniteSet(Old) /\ Cardinality(Old) \in Nat
        BY <1>2
      <4>2. Cardinality(Old \cup New) = Cardinality(Old) + Cardinality(New) - Cardinality(Old \cap New)
        BY <3>4, <4>1, FS_Union
      <4>3. Cardinality(Old \cap New) = 0
        BY <3>3, FS_EmptySet
      <4> HIDE DEF Old, New
      <4> QED BY <1>0, <3>4, <4>1, <4>2, <4>3
    <3> QED BY <2>2, <3>1, <3>2, <3>5 DEF Room
  <2> QED BY <2>1, <2>2
<1> QED BY <1>1, <1>3, <1>4 DEF Quota

-----------------------------------------------------------------------------
(* The invariant, seen from one request.                                   *)

\* What holds of request r when it is at q.
Fits(r, q) ==
  /\ q.op = "register" =>
       /\ lock = r /\ q.file \in File /\ SpaceOf[q.file] \notin closed
       /\ q.at = "insert" => Room(Live, q.file)
  /\ q.op = "space" => q.space \in closed /\ \A f \in q.todo : SpaceOf[f] = q.space
  /\ q.at = "save" =>
       /\ q.file \in File \ fresh
       /\ Has(q.file) => (q.stale \/ q.snap = rows[q.file]) /\ (q.snap.ready => rows[q.file].ready)
  /\ q.op = "complete" =>
       /\ q.file \in File \ fresh
       /\ q.at = "save" => ~ q.snap.ready /\ ~ q.snap.deleted
       /\ (/\ q.at \in {"load", "save"} /\ q.file \in Multipart
           /\ Has(q.file) /\ ~ rows[q.file].ready /\ ~ rows[q.file].deleted
           /\ SpaceOf[q.file] \notin closed)
            => q.file \in objects
  /\ q.op \in {"delete", "rename", "complete"} => q.todo = {}
  /\ q.op = "sweep" =>
       /\ q.at = "find" => q.file \in File \ fresh /\ (Has(q.file) => rows[q.file].ready)
       /\ q.todo \cap fresh = {}
       /\ \A f \in q.todo : Has(f) => HasHeir(f)
       /\ q.at = "save" /\ Has(q.file) => HasHeir(q.file)

\* What holds of the store.
StoreInv ==
  /\ FreshAreUnknown
  /\ emptied \subseteq closed
  /\ \A f \in File : rows[f].deleted => f \in asked \cup swept
  /\ Quota(Live)
  /\ ReadyHasBytes /\ DeletedSpaceStaysEmpty /\ ReplacementSurvives

\* FileInv is what holds of the store together with what holds of every request.
LEMMA FileParts ==
  /\ FileInv <=> FileTypes /\ StoreInv /\ \A r \in Request : Fits(r, req[r])
  /\ FileInv' <=> FileTypes' /\ StoreInv' /\ \A r \in Request : Fits(r, req[r])'
<1>1. FileInv <=> FileTypes /\ StoreInv /\ \A r \in Request : Fits(r, req[r])
  BY QuotaOfLive
     DEF FileInv, StoreInv, Fits, RegistersAlone, InsertsHaveRoom, CascadesAreMarked,
         SnapshotsLag, CompletionsSawBytes, SweepsLeaveAnHeir, At
<1>2. FileInv' <=> FileTypes' /\ StoreInv' /\ \A r \in Request : Fits(r, req[r])'
  BY QuotaOfLive
     DEF FileInv, StoreInv, Fits, RegistersAlone, InsertsHaveRoom, CascadesAreMarked,
         SnapshotsLag, CompletionsSawBytes, SweepsLeaveAnHeir, At
<1> QED BY <1>1, <1>2

\* An idle request fits everywhere.
LEMMA IdleFits ==
  ASSUME NEW r PROVE Fits(r, Idle) /\ Fits(r, Idle)' /\ Idle \in Work
<1>1. /\ Idle.op = "idle" /\ Idle.at = "idle"
  BY DEF Idle
<1>2. Idle \in Work
  BY FileStoreAssumption DEF Idle, Work, Op, Place, Row, NoRow
<1>3. Idle' = Idle
  BY DEF Idle, NoRow
<1> QED BY <1>1, <1>2, <1>3 DEF Fits

-----------------------------------------------------------------------------
(* Steps that change one request and nothing in the store.                 *)

\* One request goes to a place it fits and the store stays as it is; it may take or
\* release the workspace's lock.
LEMMA RequestMoves ==
  ASSUME FileInv, NEW r \in Request, NEW q \in Work, req' = [req EXCEPT ![r] = q],
         UNCHANGED <<rows, fresh, objects, parts, closed, swept, asked, emptied>>,
         \/ lock' = lock
         \/ lock = Free /\ lock' = r
         \/ lock = r /\ lock' = Free,
         Fits(r, q)'
  PROVE  FileInv'
<1>0. FileTypes /\ StoreInv /\ \A x \in Request : Fits(x, req[x])
  BY FileParts
<1>1. FileTypes'
  BY <1>0 DEF FileTypes
<1>2. /\ \A f : Has(f)' <=> Has(f)
      /\ Live' = Live
      /\ \A f : HasHeir(f)' <=> HasHeir(f)
      /\ \A sp : In(sp)' = In(sp)
  BY DEF Has, Live, HasHeir, In
<1>3. StoreInv'
  BY <1>0, <1>2 DEF StoreInv, FreshAreUnknown, ReadyHasBytes, DeletedSpaceStaysEmpty,
                    ReplacementSurvives
<1>4. ASSUME NEW x \in Request, x # r PROVE Fits(x, req[x])'
  <2>1. req'[x] = req[x] /\ Fits(x, req[x])
    BY <1>0, <1>4 DEF FileTypes
  <2>2. req[x].op = "register" => lock' = lock
    BY <2>1, <1>4, FileStoreAssumption DEF Fits
  <2> QED BY <1>2, <2>1, <2>2 DEF Fits
<1>5. Fits(r, req[r])'
  <2>1. req'[r] = q
    BY <1>0 DEF FileTypes
  <2> QED BY <2>1 DEF Fits
<1> QED BY <1>1, <1>3, <1>4, <1>5, FileParts

\* A request that ends.
LEMMA RequestEnds ==
  ASSUME FileInv, NEW r \in Request, Done(r),
         UNCHANGED <<rows, fresh, objects, parts, closed, swept, asked, emptied>>,
         lock' = lock \/ (lock = r /\ lock' = Free)
  PROVE  FileInv'
BY IdleFits, RequestMoves DEF Done

\* A guard that refuses, a store that fails or a process that dies ends a request.
LEMMA StopsKeeps ==
  ASSUME FileInv, NEW r \in Request, Stops(r)
  PROVE  FileInv'
BY RequestEnds DEF Stops

\* QuotaLock.hold: the new registration is the only one, in a space that is open.
LEMMA RegisterHoldKeeps ==
  ASSUME FileInv, NEW r \in Request, RegisterHold(r)
  PROVE  FileInv'
<1> USE FileStoreAssumption
<1>0. FileTypes
  BY FileParts
<1>1. PICK f \in fresh :
        /\ lock = Free /\ lock' = r /\ SpaceOf[f] \notin closed
        /\ req' = [req EXCEPT ![r] = [Idle EXCEPT !.op = "register", !.at = "count", !.file = f]]
        /\ UNCHANGED <<rows, fresh, objects, parts, closed, swept, asked, emptied>>
  BY DEF RegisterHold
<1> DEFINE q == [Idle EXCEPT !.op = "register", !.at = "count", !.file = f]
<1>2. f \in File /\ f \in 0..N
  BY <1>0 DEF FileTypes, File
<1>3. q \in Work /\ q.op = "register" /\ q.at = "count" /\ q.file = f
  BY <1>2, IdleFits DEF Work, Op, Place, Idle
<1> HIDE DEF q
<1>4. Fits(r, q)'
  BY <1>1, <1>2, <1>3 DEF Fits
<1> QED BY <1>1, <1>3, <1>4, RequestMoves DEF q

\* The count under the lock finds room for one more file.
LEMMA RegisterCountKeeps ==
  ASSUME FileInv, NEW r \in Request, RegisterCount(r)
  PROVE  FileInv'
<1>0. FileTypes /\ Fits(r, req[r]) /\ req[r] \in Work
  BY FileParts DEF FileTypes
<1>1. /\ req[r].op = "register" /\ Room(Live, req[r].file)
      /\ req' = [req EXCEPT ![r] = [req[r] EXCEPT !.at = "insert"]]
      /\ UNCHANGED <<rows, fresh, objects, parts, closed, lock, swept, asked, emptied>>
  BY QuotaOfLive DEF RegisterCount, At, Step
<1>2. PICK q \in Work : q = [req[r] EXCEPT !.at = "insert"]
  BY <1>0 DEF Work, Place
<1>3. q.op = "register" /\ q.at = "insert" /\ q.file = req[r].file
  BY <1>0, <1>1, <1>2 DEF Work
<1>4. Live' = Live
  BY <1>1 DEF Live, Has
<1>5. Fits(r, q)'
  BY <1>0, <1>1, <1>3, <1>4 DEF Fits
<1> QED BY <1>1, <1>2, <1>5, RequestMoves

\* assemble sends a completion to the row only past the bytes or past a file that is
\* done for.
LEMMA ListPartsKeeps ==
  ASSUME FileInv, NEW r \in Request, ListParts(r)
  PROVE  FileInv'
<1> USE FileStoreAssumption
<1>0. FileTypes /\ StoreInv
  BY FileParts
<1>1. PICK f \in File, at \in {"load", "join"} :
        /\ f \notin fresh
        /\ req' = [req EXCEPT ![r] = [Idle EXCEPT !.op = "complete", !.at = at, !.file = f]]
        /\ at = "load" => \/ f \notin Multipart \/ ~ Has(f) \/ rows[f].ready \/ rows[f].deleted
                          \/ f \in objects
        /\ UNCHANGED <<rows, fresh, objects, parts, closed, lock, swept, asked, emptied>>
  BY DEF ListParts
<1>2. PICK q \in Work : q = [Idle EXCEPT !.op = "complete", !.at = at, !.file = f]
  <2>1. f \in 0..N /\ at \in Place
    BY DEF File, Place
  <2> QED BY <2>1, IdleFits DEF Work, Op
<1>3. q.op = "complete" /\ q.at = at /\ q.file = f /\ q.todo = {}
  BY <1>2 DEF Idle
<1>4. Has(f)' <=> Has(f)
  BY <1>1 DEF Has
<1>5. Fits(r, q)'
  BY <1>0, <1>1, <1>3, <1>4 DEF Fits, StoreInv
<1> QED BY <1>1, <1>2, <1>5, RequestMoves

\* object_size has seen the joined bytes.
LEMMA ObjectSizeKeeps ==
  ASSUME FileInv, NEW r \in Request, ObjectSize(r)
  PROVE  FileInv'
<1>0. FileTypes /\ Fits(r, req[r]) /\ req[r] \in Work
  BY FileParts DEF FileTypes
<1>1. /\ req[r].op = "complete" /\ req[r].file \in objects
      /\ req' = [req EXCEPT ![r] = [req[r] EXCEPT !.at = "load"]]
      /\ UNCHANGED <<rows, fresh, objects, parts, closed, lock, swept, asked, emptied>>
  BY DEF ObjectSize, At, Step
<1>2. PICK q \in Work : q = [req[r] EXCEPT !.at = "load"]
  BY <1>0 DEF Work, Place
<1>3. q.op = "complete" /\ q.at = "load" /\ q.file = req[r].file /\ q.todo = req[r].todo
  BY <1>0, <1>1, <1>2 DEF Work
<1>4. Fits(r, q)'
  BY <1>0, <1>1, <1>3 DEF Fits
<1> QED BY <1>1, <1>2, <1>4, RequestMoves

\* CompleteUpload reads a row that is neither ready nor deleted.
LEMMA CompleteLoadKeeps ==
  ASSUME FileInv, NEW r \in Request, CompleteLoad(r)
  PROVE  FileInv'
<1>0. FileTypes /\ Fits(r, req[r]) /\ req[r] \in Work
  BY FileParts DEF FileTypes
<1> DEFINE f == req[r].file
<1>1. /\ req[r].op = "complete" /\ req[r].at = "load" /\ Has(f) /\ ~ rows[f].deleted /\ ~ rows[f].ready
      /\ req' = [req EXCEPT ![r] = [Load(r, f) EXCEPT !.at = "save"]]
      /\ UNCHANGED <<rows, fresh, objects, parts, closed, lock, swept, asked, emptied>>
  BY DEF CompleteLoad, At
<1>2. f \in File /\ f \notin fresh /\ rows[f] \in Row /\ req[r].todo = {}
  BY <1>0, <1>1 DEF Fits, FileTypes
<1>3. PICK q \in Work : q = [Load(r, f) EXCEPT !.at = "save"]
  BY <1>0, <1>2 DEF Work, Load, Place
<1>4. /\ q.op = "complete" /\ q.at = "save" /\ q.file = f /\ q.snap = rows[f] /\ q.todo = {}
  BY <1>0, <1>1, <1>2, <1>3 DEF Work, Load
<1>5. Fits(r, q)'
  <2>1. rows' = rows /\ fresh' = fresh /\ objects' = objects /\ closed' = closed
    BY <1>1
  <2>2. f \in Multipart /\ SpaceOf[f] \notin closed => f \in objects
    BY <1>0, <1>1 DEF Fits
  <2>3. ~ rows[f].ready /\ ~ rows[f].deleted
    BY <1>1
  <2> HIDE DEF f
  <2> QED BY <1>2, <1>4, <2>1, <2>2, <2>3 DEF Fits
<1> QED BY <1>1, <1>3, <1>5, RequestMoves

\* RenameFile and RetagFile read the row they will save.
LEMMA RenameLoadKeeps ==
  ASSUME FileInv, NEW r \in Request, RenameLoad(r)
  PROVE  FileInv'
<1>0. FileTypes /\ StoreInv /\ req[r] \in Work
  BY FileParts DEF FileTypes
<1>1. PICK f \in Live, k \in Key :
        /\ req[r] = Idle
        /\ req' = [req EXCEPT ![r] =
                     [Load(r, f) EXCEPT !.op = "rename", !.at = "save", !.key = k]]
        /\ UNCHANGED <<rows, fresh, objects, parts, closed, lock, swept, asked, emptied>>
  BY DEF RenameLoad
<1>2. f \in File /\ f \notin fresh /\ rows[f] \in Row /\ f \in 0..N
  BY <1>0, FileStoreAssumption DEF Live, StoreInv, FreshAreUnknown, FileTypes, File
<1>3. PICK q \in Work : q = [Load(r, f) EXCEPT !.op = "rename", !.at = "save", !.key = k]
  BY <1>0, <1>2 DEF Work, Load, Place, Op
<1>4. q.op = "rename" /\ q.at = "save" /\ q.file = f /\ q.snap = rows[f] /\ q.todo = {}
  BY <1>1, <1>3 DEF Load, Idle
<1>5. Fits(r, q)'
  BY <1>1, <1>2, <1>4 DEF Fits
<1> QED BY <1>1, <1>3, <1>5, RequestMoves

\* The list of what f replaces: f itself is the heir, or whoever replaced it.
LEMMA FindNamesakesKeeps ==
  ASSUME FileInv, NEW r \in Request, FindNamesakes(r)
  PROVE  FileInv'
<1>0. FileTypes /\ StoreInv /\ Fits(r, req[r]) /\ req[r] \in Work
  BY FileParts DEF FileTypes
<1> DEFINE f == req[r].file
           L == LiveNamesakes(f, rows[f].key)
<1>1. /\ req[r].op = "sweep" /\ req[r].at = "find"
      /\ UNCHANGED <<rows, fresh, objects, parts, closed, lock, swept, asked, emptied>>
  BY DEF FindNamesakes, At
<1>2. CASE req' = [req EXCEPT ![r] = Idle]
  BY <1>1, <1>2, RequestEnds DEF Done
<1>3. CASE /\ Has(f)
           /\ req' = [req EXCEPT ![r] = [Idle EXCEPT !.op = "sweep", !.at = "next", !.todo = L]]
  <2>1. f \in File /\ rows[f].ready
    BY <1>0, <1>1, <1>3 DEF Fits
  <2>2. L \subseteq File /\ \A g \in L : Has(g) /\ SpaceOf[g] = SpaceOf[f] /\ g < f
    BY DEF LiveNamesakes, Live, In
  <2>3. L \cap fresh = {}
    BY <1>0, <2>2 DEF StoreInv, FreshAreUnknown
  <2>4. ASSUME NEW g \in L PROVE HasHeir(g)
    <3>0. g \in Nat /\ f \in Nat /\ g < f /\ SpaceOf[g] = SpaceOf[f]
      BY <2>1, <2>2, FileStoreAssumption DEF File
    <3>1. CASE f \notin swept
      <4>1. rows[f].deleted => f \in asked
        BY <1>0, <2>1, <3>1 DEF StoreInv
      <4>2. f \in In(SpaceOf[g]) \ swept
        BY <1>3, <2>1, <3>0, <3>1 DEF In
      <4>3. f > g
        BY <3>0
      <4> QED BY <2>1, <4>1, <4>2, <4>3 DEF HasHeir
    <3>2. CASE f \in swept
      <4>1. HasHeir(f)
        BY <1>0, <3>2 DEF StoreInv, ReplacementSurvives
      <4>2. PICK h \in In(SpaceOf[f]) \ swept :
              h > f /\ rows[h].ready /\ (rows[h].deleted => h \in asked)
        BY <4>1 DEF HasHeir
      <4>3. h \in Nat
        BY FileStoreAssumption DEF In, File
      <4>4. h > g /\ h \in In(SpaceOf[g]) \ swept
        BY <3>0, <4>2, <4>3
      <4> QED BY <4>2, <4>4 DEF HasHeir
    <3> QED BY <3>1, <3>2
  <2>5. PICK q \in Work : q = [Idle EXCEPT !.op = "sweep", !.at = "next", !.todo = L]
    <3> HIDE DEF L
    <3> QED BY <2>2, IdleFits DEF Work, Op, Place
  <2>6. q.op = "sweep" /\ q.at = "next" /\ q.todo = L
    BY <2>5 DEF Idle
  <2>7. \A g : (Has(g)' <=> Has(g)) /\ (HasHeir(g)' <=> HasHeir(g))
    BY <1>1 DEF Has, HasHeir, In
  <2> HIDE DEF L
  <2>8. Fits(r, q)'
    BY <1>1, <2>3, <2>4, <2>6, <2>7 DEF Fits
  <2> QED BY <1>1, <1>3, <2>5, <2>8, RequestMoves DEF L
<1> QED BY <1>2, <1>3 DEF FindNamesakes

\* What a DELETE or a sweep becomes once it is through with a file.
LEMMA AfterEraseIs ==
  ASSUME FileTypes, NEW r \in Request
  PROVE  /\ AfterErase(r) \in Work
         /\ \/ AfterErase(r) = Idle
            \/ /\ AfterErase(r).op = "sweep" /\ AfterErase(r).at = "next"
               /\ AfterErase(r).todo = req[r].todo /\ req[r].todo # {}
<1>1. req[r] \in Work
  BY DEF FileTypes
<1>2. req[r].todo \subseteq File
  BY <1>1 DEF Work
<1> DEFINE w == [Idle EXCEPT !.op = "sweep", !.at = "next", !.todo = req[r].todo]
<1>3. w \in Work
  BY <1>2, IdleFits DEF Work, Op, Place
<1>4. w.op = "sweep" /\ w.at = "next" /\ w.todo = req[r].todo
  BY DEF Idle
<1> QED BY <1>3, <1>4, IdleFits DEF AfterErase

\* A failed erasure drops a file from a sweep's list; what is left keeps its heirs.
LEMMA SweepFailsKeeps ==
  ASSUME FileInv, NEW r \in Request, SweepFails(r)
  PROVE  FileInv'
<1>0. FileTypes /\ Fits(r, req[r]) /\ req[r] \in Work
  BY FileParts DEF FileTypes
<1>1. /\ req[r].op = "sweep"
      /\ UNCHANGED <<rows, fresh, objects, parts, closed, lock, swept, asked, emptied>>
  BY DEF SweepFails
<1>2. \A g : (Has(g)' <=> Has(g)) /\ (HasHeir(g)' <=> HasHeir(g))
  BY <1>1 DEF Has, HasHeir, In
<1>3. CASE Done(r)
  BY <1>1, <1>3, RequestEnds
<1>4. ASSUME NEW q \in Work, req' = [req EXCEPT ![r] = q], q.op = "sweep", q.at = "next",
             q.todo \subseteq req[r].todo
      PROVE  FileInv'
  <2>1. Fits(r, q)'
    BY <1>0, <1>1, <1>2, <1>4 DEF Fits
  <2> QED BY <1>1, <1>4, <2>1, RequestMoves
<1>5. CASE req' = [req EXCEPT ![r] = AfterErase(r)]
  <2>1. PICK q \in Work : q = AfterErase(r)
    BY <1>0, AfterEraseIs
  <2>2. q = Idle \/ (q.op = "sweep" /\ q.at = "next" /\ q.todo = req[r].todo)
    BY <1>0, <2>1, AfterEraseIs
  <2>3. CASE q = Idle
    BY <1>1, <1>5, <2>1, <2>3, RequestEnds DEF Done
  <2> QED BY <1>4, <1>5, <2>1, <2>2, <2>3
<1>6. CASE At(r, "sweep", "next") /\ \E f \in req[r].todo : req' = [req EXCEPT ![r].todo = @ \ {f}]
  <2>1. PICK f \in req[r].todo : req' = [req EXCEPT ![r] = [req[r] EXCEPT !.todo = req[r].todo \ {f}]]
    BY <1>0, <1>6 DEF FileTypes
  <2>2. PICK q \in Work : q = [req[r] EXCEPT !.todo = req[r].todo \ {f}]
    BY <1>0 DEF Work
  <2>3. q.op = "sweep" /\ q.at = "next" /\ q.todo \subseteq req[r].todo
    BY <1>0, <1>6, <2>2 DEF Work, At
  <2> QED BY <1>4, <2>1, <2>2, <2>3
<1> QED BY <1>3, <1>5, <1>6 DEF SweepFails

\* SoftDeleteFile reads the row; a sweep reads one of those that have an heir.
LEMMA EraseLoadKeeps ==
  ASSUME FileInv, NEW r \in Request, EraseLoad(r)
  PROVE  FileInv'
<1>0. FileTypes /\ StoreInv /\ Fits(r, req[r]) /\ req[r] \in Work
  BY FileParts DEF FileTypes
<1>1. UNCHANGED <<rows, fresh, objects, parts, closed, lock, swept, asked, emptied>>
  BY DEF EraseLoad
<1>2. \A g : (Has(g)' <=> Has(g)) /\ (HasHeir(g)' <=> HasHeir(g))
  BY <1>1 DEF Has, HasHeir, In
<1>3. ASSUME NEW f \in File, Has(f)
      PROVE  f \notin fresh /\ rows[f] \in Row /\ f \in 0..N
  BY <1>0, <1>3, FileStoreAssumption DEF StoreInv, FreshAreUnknown, FileTypes, File
<1>4. ASSUME NEW f \in File, Has(f), req[r] = Idle,
             req' = [req EXCEPT ![r] = [Load(r, f) EXCEPT !.op = "delete", !.at = "save"]]
      PROVE  FileInv'
  <2>1. f \notin fresh /\ rows[f] \in Row /\ f \in 0..N
    BY <1>3, <1>4
  <2>2. PICK q \in Work : q = [Load(r, f) EXCEPT !.op = "delete", !.at = "save"]
    BY <1>0, <2>1 DEF Work, Load, Place, Op
  <2>3. q.op = "delete" /\ q.at = "save" /\ q.file = f /\ q.snap = rows[f] /\ q.todo = {}
    BY <1>4, <2>2 DEF Load, Idle
  <2>4. Fits(r, q)'
    BY <1>1, <2>1, <2>3 DEF Fits
  <2> QED BY <1>1, <1>4, <2>2, <2>4, RequestMoves
<1>5. ASSUME At(r, "sweep", "next"), NEW f \in req[r].todo, Has(f),
             req' = [req EXCEPT ![r] = [Load(r, f) EXCEPT !.at = "save", !.todo = @ \ {f}]]
      PROVE  FileInv'
  <2>1. f \in File /\ f \notin fresh /\ rows[f] \in Row /\ f \in 0..N
    <3>1. f \in File
      BY <1>0 DEF Work
    <3> QED BY <1>3, <1>5, <3>1
  <2>2. PICK q \in Work : q = [Load(r, f) EXCEPT !.at = "save", !.todo = @ \ {f}]
    BY <1>0, <2>1 DEF Work, Load, Place
  <2>3. /\ q.op = "sweep" /\ q.at = "save" /\ q.file = f /\ q.snap = rows[f]
        /\ q.todo \subseteq req[r].todo
    BY <1>0, <1>5, <2>2 DEF Load, Work, At
  <2>4. Fits(r, q)'
    BY <1>0, <1>1, <1>2, <1>5, <2>1, <2>3 DEF Fits, At
  <2> QED BY <1>1, <1>5, <2>2, <2>4, RequestMoves
<1> QED BY <1>4, <1>5 DEF EraseLoad

\* PurgeSpaceFiles lists keys of its own, marked space.
LEMMA SpaceKeysKeeps ==
  ASSUME FileInv, NEW r \in Request, SpaceKeys(r)
  PROVE  FileInv'
<1>0. FileTypes /\ Fits(r, req[r]) /\ req[r] \in Work
  BY FileParts DEF FileTypes
<1> DEFINE T == Multipart \cap In(req[r].space)
<1>1. /\ req[r].op = "space"
      /\ req' = [req EXCEPT ![r] = [req[r] EXCEPT !.at = "objects", !.todo = T]]
      /\ UNCHANGED <<rows, fresh, objects, parts, closed, lock, swept, asked, emptied>>
  BY <1>0 DEF SpaceKeys, At, FileTypes
<1>2. T \subseteq File /\ \A f \in T : SpaceOf[f] = req[r].space
  BY DEF In
<1> HIDE DEF T
<1>3. PICK q \in Work : q = [req[r] EXCEPT !.at = "objects", !.todo = T]
  BY <1>0, <1>2 DEF Work, Place
<1>4. q.op = "space" /\ q.at = "objects" /\ q.todo = T /\ q.space = req[r].space
  BY <1>0, <1>1, <1>3 DEF Work
<1>5. Fits(r, q)'
  BY <1>0, <1>1, <1>2, <1>4 DEF Fits
<1> QED BY <1>1, <1>3, <1>5, RequestMoves

-----------------------------------------------------------------------------
(* Steps that change the object store or the marks.                        *)

\* The object store gains bytes, or loses those of deleted spaces; a space is marked that
\* no registration holds.  Only r moves.
LEMMA ObjectsMove ==
  ASSUME FileInv, NEW r \in Request, NEW q \in Work, req' = [req EXCEPT ![r] = q],
         UNCHANGED <<rows, fresh, lock, swept, asked, emptied>>, FileTypes',
         closed \subseteq closed',
         \A x \in Request : req[x].op = "register" => SpaceOf[req[x].file] \notin closed',
         \A f \in objects \ objects' : SpaceOf[f] \in closed,
         Fits(r, q)'
  PROVE  FileInv'
<1>0. FileTypes /\ StoreInv /\ \A x \in Request : Fits(x, req[x])
  BY FileParts
<1>2. /\ \A f : Has(f)' <=> Has(f)
      /\ Live' = Live
      /\ \A f : HasHeir(f)' <=> HasHeir(f)
      /\ \A sp : In(sp)' = In(sp)
  BY DEF Has, Live, HasHeir, In
<1>3. StoreInv'
  BY <1>0, <1>2 DEF StoreInv, FreshAreUnknown, ReadyHasBytes, DeletedSpaceStaysEmpty,
                    ReplacementSurvives
<1>4. ASSUME NEW x \in Request, x # r PROVE Fits(x, req[x])'
  <2>1. req'[x] = req[x] /\ Fits(x, req[x])
    BY <1>0, <1>4 DEF FileTypes
  <2> QED BY <1>2, <2>1 DEF Fits
<1>5. Fits(r, req[r])'
  <2>1. req'[r] = q
    BY <1>0 DEF FileTypes
  <2> QED BY <2>1 DEF Fits
<1> QED BY <1>3, <1>4, <1>5, FileParts

\* complete_multipart adds bytes or does nothing.
LEMMA JoinKeeps ==
  ASSUME FileInv, NEW r \in Request, Join(r)
  PROVE  FileInv'
<1>0. FileTypes /\ Fits(r, req[r]) /\ req[r] \in Work /\ \A x \in Request : Fits(x, req[x])
  BY FileParts DEF FileTypes
<1>1. /\ req[r].op = "complete"
      /\ req' = [req EXCEPT ![r] = [req[r] EXCEPT !.at = "size"]]
      /\ objects \subseteq objects'
      /\ UNCHANGED <<rows, fresh, closed, lock, swept, asked, emptied>>
  BY DEF Join, At, Step
<1>2. PICK q \in Work : q = [req[r] EXCEPT !.at = "size"]
  BY <1>0 DEF Work, Place
<1>3. q.op = "complete" /\ q.at = "size" /\ q.file = req[r].file /\ q.todo = req[r].todo
  BY <1>0, <1>1, <1>2 DEF Work
<1>4. Fits(r, q)'
  BY <1>0, <1>1, <1>3 DEF Fits
<1>5. req[r].file \in File
  BY <1>0, <1>1 DEF Fits
<1>6. objects' \subseteq File /\ parts' \in [File -> {"some", "all", "gone"}]
  BY <1>0, <1>5 DEF Join, FileTypes
<1>7. FileTypes'
  BY <1>0, <1>1, <1>2, <1>6 DEF FileTypes
<1>8. \A x \in Request : req[x].op = "register" => SpaceOf[req[x].file] \notin closed'
  BY <1>0, <1>1 DEF Fits
<1> QED BY <1>1, <1>2, <1>4, <1>7, <1>8, ObjectsMove

\* The parts of an upload say nothing about rows, bytes or requests.
LEMMA PartsKeep ==
  ASSUME FileInv, NEW f \in File, PutPart(f) \/ StorageSweeps(f)
  PROVE  FileInv'
<1>1. FileTypes /\ StoreInv /\ \A x \in Request : Fits(x, req[x])
  BY FileParts
<1>2. UNCHANGED <<rows, fresh, objects, closed, lock, req, swept, asked, emptied>>
  BY DEF PutPart, StorageSweeps
<1>3. parts' \in [File -> {"some", "all", "gone"}]
  BY <1>1 DEF PutPart, StorageSweeps, FileTypes
<1>4. FileTypes'
  BY <1>1, <1>2, <1>3 DEF FileTypes
<1>5. StoreInv'
  BY <1>1, <1>2 DEF StoreInv, FreshAreUnknown, ReadyHasBytes, DeletedSpaceStaysEmpty,
                    ReplacementSurvives, Has, Live, HasHeir, In
<1>6. ASSUME NEW x \in Request PROVE Fits(x, req[x])'
  BY <1>1, <1>2 DEF Fits, Has, Live, HasHeir, In
<1> QED BY <1>4, <1>5, <1>6, FileParts

\* DeleteSpace marks a space that no registration holds.
LEMMA MarkSpaceKeeps ==
  ASSUME FileInv, NEW r \in Request, MarkSpace(r)
  PROVE  FileInv'
<1>0. FileTypes /\ \A x \in Request : Fits(x, req[x])
  BY FileParts
<1>1. PICK sp \in Space :
        /\ ~ RowHeld(sp) /\ closed' = closed \cup {sp}
        /\ req' = [req EXCEPT ![r] = [Idle EXCEPT !.op = "space", !.space = sp, !.at = "keys"]]
        /\ UNCHANGED <<rows, fresh, objects, parts, lock, swept, asked, emptied>>
  BY DEF MarkSpace
<1>2. PICK q \in Work : q = [Idle EXCEPT !.op = "space", !.space = sp, !.at = "keys"]
  BY IdleFits DEF Work, Op, Place
<1>3. q.op = "space" /\ q.at = "keys" /\ q.space = sp /\ q.todo = {}
  BY <1>2 DEF Idle
<1>4. Fits(r, q)'
  BY <1>1, <1>3 DEF Fits
<1>5. FileTypes'
  BY <1>0, <1>1, <1>2 DEF FileTypes
<1>6. \A x \in Request : req[x].op = "register" => SpaceOf[req[x].file] \notin closed'
  <2> SUFFICES ASSUME NEW x \in Request, req[x].op = "register"
               PROVE  SpaceOf[req[x].file] \notin closed'
    OBVIOUS
  <2>1. lock = x /\ SpaceOf[req[x].file] \notin closed
    BY <1>0 DEF Fits
  <2>2. SpaceOf[req[x].file] # sp
    BY <1>1, <2>1 DEF RowHeld
  <2> QED BY <1>1, <2>1, <2>2
<1> QED BY <1>1, <1>2, <1>4, <1>5, <1>6, ObjectsMove

\* The cascade takes bytes of a marked space only.
LEMMA SpaceObjectKeeps ==
  ASSUME FileInv, NEW r \in Request, SpaceObject(r)
  PROVE  FileInv'
<1>0. FileTypes /\ Fits(r, req[r]) /\ req[r] \in Work /\ \A x \in Request : Fits(x, req[x])
  BY FileParts DEF FileTypes
<1>1. PICK f \in req[r].todo :
        /\ req[r].op = "space" /\ objects' = objects \ {f}
        /\ req' = [req EXCEPT ![r] = [req[r] EXCEPT !.todo = req[r].todo \ {f}]]
        /\ UNCHANGED <<rows, fresh, parts, closed, lock, swept, asked, emptied>>
        /\ req[r].at = "objects"
  BY <1>0 DEF SpaceObject, At, FileTypes
<1>2. PICK q \in Work : q = [req[r] EXCEPT !.todo = req[r].todo \ {f}]
  BY <1>0 DEF Work
<1>3. /\ q.op = "space" /\ q.at = "objects" /\ q.space = req[r].space
      /\ q.todo \subseteq req[r].todo
  BY <1>0, <1>1, <1>2 DEF Work
<1>4. Fits(r, q)'
  BY <1>0, <1>1, <1>3 DEF Fits
<1>5. FileTypes'
  BY <1>0, <1>1, <1>2 DEF FileTypes
<1>6. SpaceOf[f] \in closed
  BY <1>0, <1>1 DEF Fits
<1>7. \A x \in Request : req[x].op = "register" => SpaceOf[req[x].file] \notin closed'
  BY <1>0, <1>1 DEF Fits
<1> QED BY <1>1, <1>2, <1>4, <1>5, <1>6, <1>7, ObjectsMove

-----------------------------------------------------------------------------
(* Steps that change rows.                                                 *)

\* A versioned save of a row that only gains ready or deleted: every other request's
\* snapshot lags behind, every heir stays one or is replaced by its own.
LEMMA SaveKeeps ==
  ASSUME FileInv, NEW r \in Request, NEW f \in File, NEW row \in Row, NEW next \in Work,
         Save(r, f, row, next),
         rows[f].ready => row.ready, rows[f].deleted => row.deleted,
         f \in Multipart /\ row.ready /\ SpaceOf[f] \notin closed => f \in objects,
         asked \subseteq asked', asked' \subseteq File,
         swept \subseteq swept', swept' \subseteq swept \cup {f},
         row.deleted => f \in asked' \cup swept',
         f \in swept' \ swept => HasHeir(f),
         UNCHANGED <<fresh, objects, parts, closed, lock, emptied>>,
         next.op \in {"idle", "sweep"}, next.at \in {"idle", "find", "next"},
         next.at = "find" => next.file = f /\ row.ready /\ next.todo = {},
         next.todo = {} \/ (req[r].op = "sweep" /\ next.todo = req[r].todo)
  PROVE  FileInv'
<1>0. FileTypes /\ StoreInv /\ \A x \in Request : Fits(x, req[x])
  BY FileParts
<1>1. /\ Has(f) /\ rows' = [rows EXCEPT ![f] = row]
      /\ req' = [x \in Request |->
                   IF x = r THEN next
                   ELSE IF req[x].file = f THEN [req[x] EXCEPT !.stale = TRUE]
                   ELSE req[x]]
  BY DEF Save
<1>2. rows'[f] = row /\ \A g \in File : g # f => rows'[g] = rows[g]
  BY <1>0, <1>1 DEF FileTypes
<1>3. f \notin fresh
  BY <1>0, <1>1 DEF StoreInv, FreshAreUnknown
<1>4. /\ \A g \in File : Has(g)' => Has(g)
      /\ \A g \in File : g # f => (Has(g)' <=> Has(g))
      /\ \A g \in File : (rows[g].ready => rows'[g].ready) /\ (rows[g].deleted => rows'[g].deleted)
      /\ row.ready => Has(f)'
  BY <1>1, <1>2 DEF Has, NoRow
<1>5. ASSUME NEW g \in File, HasHeir(g) PROVE HasHeir(g)'
  <2>1. PICK h \in In(SpaceOf[g]) \ swept :
          h > g /\ rows[h].ready /\ (rows[h].deleted => h \in asked)
    BY <1>5 DEF HasHeir
  <2>2. h \in File /\ Has(h) /\ SpaceOf[h] = SpaceOf[g]
    BY <2>1 DEF In
  <2>3. CASE h # f
    <3>1. h \in In(SpaceOf[g])' \ swept'
      BY <1>4, <2>1, <2>2, <2>3 DEF In
    <3> QED BY <1>2, <2>1, <2>2, <2>3, <3>1 DEF HasHeir
  <2>4. CASE h = f /\ f \notin swept'
    <3>1. h \in In(SpaceOf[g])' \ swept'
      BY <1>4, <2>1, <2>2, <2>4 DEF In
    <3> QED BY <1>2, <2>1, <2>4, <3>1 DEF HasHeir
  <2>5. CASE h = f /\ f \in swept'
    <3>1. HasHeir(f)
      BY <2>1, <2>5
    <3>2. PICK k \in In(SpaceOf[f]) \ swept :
            k > f /\ rows[k].ready /\ (rows[k].deleted => k \in asked)
      BY <3>1 DEF HasHeir
    <3>3. k \in File /\ Has(k) /\ SpaceOf[k] = SpaceOf[g]
      BY <2>2, <2>5, <3>2 DEF In
    <3>4. k \in Nat /\ f \in Nat /\ g \in Nat
      BY <3>3, FileStoreAssumption DEF File
    <3>5. k > g /\ k # f
      BY <2>1, <2>5, <3>2, <3>4
    <3>6. k \in In(SpaceOf[g])' \ swept'
      BY <1>4, <3>2, <3>3, <3>5 DEF In
    <3> QED BY <1>2, <3>2, <3>3, <3>5, <3>6 DEF HasHeir
  <2> QED BY <2>3, <2>4, <2>5
<1>6. Live' \subseteq Live /\ Live \subseteq File
  BY <1>4 DEF Live
<1>7. Quota(Live') /\ \A g \in File : Room(Live, g) => Room(Live', g)
  BY <1>0, <1>6, FewerKeepQuota DEF StoreInv
<1>8. FileTypes'
  <2>1. rows' \in [File -> Row]
    BY <1>0, <1>1 DEF FileTypes
  <2>2. req' \in [Request -> Work]
    <3>1. ASSUME NEW x \in Request PROVE req[x] \in Work /\ [req[x] EXCEPT !.stale = TRUE] \in Work
      <4>1. req[x] \in Work
        BY <1>0 DEF FileTypes
      <4> QED BY <4>1 DEF Work
    <3> QED BY <1>1, <3>1
  <2>3. swept' \subseteq File
    BY <1>0 DEF FileTypes
  <2> QED BY <1>0, <2>1, <2>2, <2>3 DEF FileTypes
<1>9. StoreInv'
  <2>1. FreshAreUnknown'
    BY <1>0, <1>3, <1>4 DEF StoreInv, FreshAreUnknown, FileTypes
  <2>2. \A g \in File : rows'[g].deleted => g \in asked' \cup swept'
    BY <1>0, <1>2 DEF StoreInv
  <2>3. Quota(Live')
    BY <1>7
  <2>4. ReadyHasBytes'
    <3> SUFFICES ASSUME NEW g \in Multipart, Has(g)', rows'[g].ready, SpaceOf[g] \notin closed
                 PROVE  g \in objects
      BY DEF ReadyHasBytes
    <3>1. g \in File
      BY FileStoreAssumption
    <3>2. CASE g = f
      BY <1>2, <3>2
    <3>3. CASE g # f
      BY <1>0, <1>2, <1>4, <3>1, <3>3 DEF StoreInv, ReadyHasBytes
    <3> QED BY <3>2, <3>3
  <2>5. DeletedSpaceStaysEmpty'
    BY <1>0, <1>4 DEF StoreInv, DeletedSpaceStaysEmpty, In
  <2>6. ReplacementSurvives'
    <3> SUFFICES ASSUME NEW g \in swept' PROVE HasHeir(g)'
      BY DEF ReplacementSurvives
    <3>1. g \in File /\ HasHeir(g)
      BY <1>0 DEF FileTypes, StoreInv, ReplacementSurvives
    <3> QED BY <1>5, <3>1
  <2> QED BY <1>0, <2>1, <2>2, <2>3, <2>4, <2>5, <2>6 DEF StoreInv
<1>10. ASSUME NEW x \in Request, x # r PROVE Fits(x, req[x])'
  <2>0. req[x] \in Work /\ Fits(x, req[x])
    BY <1>0 DEF FileTypes
  <2>1. /\ req'[x].op = req[x].op /\ req'[x].at = req[x].at /\ req'[x].file = req[x].file
        /\ req'[x].snap = req[x].snap /\ req'[x].todo = req[x].todo
        /\ req'[x].space = req[x].space
        /\ req'[x].file # f => req'[x].stale = req[x].stale
        /\ req'[x].file = f => req'[x].stale = TRUE
    BY <1>1, <1>10, <2>0 DEF Work
  <2>2. req[x].todo \subseteq File
    BY <2>0 DEF Work
  <2>y. PICK y \in Work : y = req'[x]
    BY <1>8 DEF FileTypes
  <2>3. /\ y.op = req[x].op /\ y.at = req[x].at /\ y.file = req[x].file /\ y.snap = req[x].snap
        /\ y.todo = req[x].todo /\ y.space = req[x].space
        /\ y.file # f => y.stale = req[x].stale
        /\ y.file = f => y.stale = TRUE
    BY <2>1, <2>y
  <2>4. Fits(x, y)
    BY <2>0, <2>3 DEF Fits
  <2>5. y.at = "insert" /\ y.op = "register" => Room(Live', y.file)
    BY <1>7, <2>4 DEF Fits
  <2>6. y.at = "save" =>
          /\ y.file \in File \ fresh
          /\ Has(y.file)' => /\ y.stale \/ y.snap = rows'[y.file]
                             /\ y.snap.ready => rows'[y.file].ready
    <3> SUFFICES ASSUME y.at = "save", Has(y.file)'
                 PROVE  /\ y.stale \/ y.snap = rows'[y.file]
                        /\ y.snap.ready => rows'[y.file].ready
      BY <2>4 DEF Fits
    <3>1. y.file \in File
      BY <2>4 DEF Fits
    <3>2. Has(y.file)
      BY <1>4, <3>1
    <3>3. (y.stale \/ y.snap = rows[y.file]) /\ (y.snap.ready => rows[y.file].ready)
      BY <2>4, <3>2 DEF Fits
    <3> QED BY <1>2, <1>4, <2>3, <3>1, <3>3
  <2>7. y.op = "complete" =>
          /\ y.file \in File \ fresh
          /\ y.at = "save" => ~ y.snap.ready /\ ~ y.snap.deleted
          /\ (/\ y.at \in {"load", "save"} /\ y.file \in Multipart
              /\ Has(y.file)' /\ ~ rows'[y.file].ready /\ ~ rows'[y.file].deleted
              /\ SpaceOf[y.file] \notin closed)
               => y.file \in objects
    BY <1>4, <2>4 DEF Fits
  <2>8. y.op = "sweep" =>
          /\ y.at = "find" => y.file \in File \ fresh /\ (Has(y.file)' => rows'[y.file].ready)
          /\ y.todo \cap fresh = {}
          /\ \A g \in y.todo : Has(g)' => HasHeir(g)'
          /\ y.at = "save" /\ Has(y.file)' => HasHeir(y.file)'
    <3> SUFFICES ASSUME y.op = "sweep"
                 PROVE  /\ y.at = "find" => y.file \in File \ fresh /\ (Has(y.file)' => rows'[y.file].ready)
                        /\ y.todo \cap fresh = {}
                        /\ \A g \in y.todo : Has(g)' => HasHeir(g)'
                        /\ y.at = "save" /\ Has(y.file)' => HasHeir(y.file)'
      OBVIOUS
    <3>1. y.todo \subseteq File
      BY <2>2, <2>3
    <3>2. y.at \in {"find", "save"} => y.file \in File \ fresh
      BY <2>4 DEF Fits
    <3>3. y.at = "find" => (Has(y.file)' => rows'[y.file].ready)
      BY <1>4, <2>4, <3>2 DEF Fits
    <3>4. \A g \in y.todo : Has(g)' => HasHeir(g)'
      BY <1>4, <1>5, <2>4, <3>1 DEF Fits
    <3>5. y.at = "save" /\ Has(y.file)' => HasHeir(y.file)'
      BY <1>4, <1>5, <2>4, <3>2 DEF Fits
    <3> QED BY <2>4, <3>2, <3>3, <3>4, <3>5 DEF Fits
  <2>9. Fits(x, y)'
    BY <2>4, <2>5, <2>6, <2>7, <2>8 DEF Fits
  <2> QED BY <2>y, <2>9 DEF Fits
<1>11. Fits(r, req[r])'
  <2>1. req'[r] = next
    BY <1>1
  <2>2. next.todo \subseteq File /\ (next.todo # {} => req[r].op = "sweep" /\ next.todo = req[r].todo)
    BY DEF Work
  <2>3. next.todo \cap fresh = {} /\ \A g \in next.todo : Has(g)' => HasHeir(g)'
    <3>1. next.todo \cap fresh = {} /\ \A g \in next.todo : Has(g) => HasHeir(g)
      BY <1>0, <2>2 DEF Fits
    <3> QED BY <1>4, <1>5, <2>2, <3>1
  <2>4. Fits(r, next)'
    BY <1>2, <1>3, <2>3 DEF Fits
  <2> QED BY <2>1, <2>4 DEF Fits
<1> QED BY <1>8, <1>9, <1>10, <1>11, FileParts

\* A sweep that starts is a place a request can be at.
LEMMA SweepingIs ==
  ASSUME NEW f \in File
  PROVE  /\ Sweeping(f) \in Work
         /\ Sweeping(f).op = "sweep" /\ Sweeping(f).at = "find" /\ Sweeping(f).file = f
         /\ Sweeping(f).todo = {}
<1>1. f \in 0..N
  BY FileStoreAssumption DEF File
<1> QED BY <1>1, IdleFits DEF Sweeping, Work, Op, Place, Idle

\* CompleteUpload's save: the bytes were seen, and the sweep starts from a ready file.
LEMMA CompleteSaveKeeps ==
  ASSUME FileInv, NEW r \in Request, CompleteSave(r)
  PROVE  FileInv'
<1>0. FileTypes /\ StoreInv /\ Fits(r, req[r]) /\ req[r] \in Work
  BY FileParts DEF FileTypes
<1>1. /\ req[r].op = "complete" /\ req[r].at = "save" /\ ~ req[r].stale
      /\ Save(r, req[r].file, [req[r].snap EXCEPT !.ready = TRUE], Sweeping(req[r].file))
      /\ Has(req[r].file)
      /\ UNCHANGED <<fresh, objects, parts, closed, lock, swept, asked, emptied>>
  BY DEF CompleteSave, At, Save
<1>2. PICK f \in File : f = req[r].file
  BY <1>0, <1>1 DEF Fits
<1>3. /\ req[r].snap = rows[f] /\ rows[f] \in Row /\ ~ rows[f].ready /\ ~ rows[f].deleted
      /\ f \in Multipart /\ SpaceOf[f] \notin closed => f \in objects
  BY <1>0, <1>1, <1>2 DEF Fits, FileTypes
<1>4. PICK row \in Row : row = [rows[f] EXCEPT !.ready = TRUE]
  BY <1>3 DEF Row
<1>5. row.ready /\ row.deleted = rows[f].deleted
  BY <1>3, <1>4 DEF Row
<1>6. PICK next \in Work : next = Sweeping(f)
  BY SweepingIs
<1>7. next.op = "sweep" /\ next.at = "find" /\ next.file = f /\ next.todo = {}
  BY <1>6, SweepingIs
<1>8. Save(r, f, row, next)
  BY <1>1, <1>2, <1>3, <1>4, <1>6
<1>9. asked \subseteq File
  BY <1>0 DEF FileTypes
<1> QED BY <1>1, <1>3, <1>5, <1>7, <1>8, <1>9, SaveKeeps

\* RenameFile's save, or the rename that changes nothing: either sweeps only for a file
\* that is ready.
LEMMA RenameSaveKeeps ==
  ASSUME FileInv, NEW r \in Request, RenameSave(r)
  PROVE  FileInv'
<1>0. FileTypes /\ StoreInv /\ Fits(r, req[r]) /\ req[r] \in Work
  BY FileParts DEF FileTypes
<1>1. /\ req[r].op = "rename" /\ req[r].at = "save"
      /\ UNCHANGED <<fresh, objects, parts, closed, lock, swept, asked, emptied>>
  BY DEF RenameSave, At
<1>2. PICK f \in File : f = req[r].file
  BY <1>0, <1>1 DEF Fits
<1>3. PICK next \in Work : next = AfterRename(r)
  BY <1>2, IdleFits, SweepingIs DEF AfterRename
<1>4. /\ \/ next.op = "idle" /\ next.at = "idle" /\ next.todo = {}
         \/ /\ req[r].snap.ready /\ next.op = "sweep" /\ next.at = "find" /\ next.file = f
            /\ next.todo = {}
  BY <1>2, <1>3, SweepingIs DEF AfterRename, Idle
<1>5. CASE /\ Save(r, req[r].file, [req[r].snap EXCEPT !.key = req[r].key], AfterRename(r))
  <2>1. /\ Has(f) /\ req[r].snap = rows[f] /\ rows[f] \in Row
    BY <1>0, <1>1, <1>2, <1>5 DEF Fits, FileTypes, Save
  <2>2. PICK row \in Row : row = [rows[f] EXCEPT !.key = req[r].key]
    BY <1>0, <2>1 DEF Row, Work
  <2>3. row.ready = rows[f].ready /\ row.deleted = rows[f].deleted
    BY <2>1, <2>2 DEF Row
  <2>4. Save(r, f, row, next)
    BY <1>2, <1>3, <1>5, <2>1, <2>2
  <2>5. /\ asked \subseteq File
        /\ row.deleted => f \in asked \cup swept
        /\ f \in Multipart /\ row.ready /\ SpaceOf[f] \notin closed => f \in objects
    BY <1>0, <2>1, <2>3 DEF FileTypes, StoreInv, ReadyHasBytes
  <2> QED BY <1>1, <1>4, <2>1, <2>3, <2>4, <2>5, SaveKeeps
<1>6. CASE req' = [req EXCEPT ![r] = AfterRename(r)] /\ UNCHANGED rows
  <2>1. f \notin fresh /\ (Has(f) /\ req[r].snap.ready => rows[f].ready)
    BY <1>0, <1>1, <1>2 DEF Fits
  <2>2. Has(f)' <=> Has(f)
    BY <1>6 DEF Has
  <2>3. Fits(r, next)'
    BY <1>1, <1>4, <1>6, <2>1, <2>2 DEF Fits
  <2> QED BY <1>1, <1>3, <1>6, <2>3, RequestMoves
<1> QED BY <1>5, <1>6 DEF RenameSave

\* SoftDeleteFile's save: a sweep takes a file that has an heir, a DELETE what was asked.
LEMMA EraseSaveKeeps ==
  ASSUME FileInv, NEW r \in Request, EraseSave(r)
  PROVE  FileInv'
<1>0. FileTypes /\ StoreInv /\ Fits(r, req[r]) /\ req[r] \in Work
  BY FileParts DEF FileTypes
<1>1. /\ req[r].op \in {"delete", "sweep"} /\ req[r].at = "save"
      /\ Save(r, req[r].file, [req[r].snap EXCEPT !.deleted = TRUE], AfterErase(r))
      /\ UNCHANGED <<fresh, objects, parts, closed, lock, emptied>>
  BY DEF EraseSave, At
<1>2. PICK f \in File : f = req[r].file
  BY <1>0, <1>1 DEF Fits
<1>3. /\ Has(f) /\ req[r].snap = rows[f] /\ rows[f] \in Row
      /\ req[r].op = "sweep" => HasHeir(f)
      /\ req[r].op = "delete" => req[r].todo = {}
  BY <1>0, <1>1, <1>2 DEF Fits, FileTypes, Save
<1>4. PICK row \in Row : row = [rows[f] EXCEPT !.deleted = TRUE]
  BY <1>3 DEF Row
<1>5. row.ready = rows[f].ready /\ row.deleted
  BY <1>3, <1>4 DEF Row
<1>6. PICK next \in Work : next = AfterErase(r)
  BY <1>0, AfterEraseIs
<1>7. /\ next.op \in {"idle", "sweep"} /\ next.at \in {"idle", "next"}
      /\ next.todo = {} \/ (req[r].op = "sweep" /\ next.todo = req[r].todo)
  <2>1. CASE next = Idle
    BY <2>1 DEF Idle
  <2>2. CASE /\ next.op = "sweep" /\ next.at = "next"
             /\ next.todo = req[r].todo /\ req[r].todo # {}
    BY <1>1, <1>3, <2>2
  <2> QED BY <1>0, <1>6, <2>1, <2>2, AfterEraseIs
<1>8. Save(r, f, row, next)
  BY <1>1, <1>2, <1>3, <1>4, <1>6
<1>9. /\ asked \subseteq File
      /\ rows[f].deleted => f \in asked \cup swept
      /\ f \in Multipart /\ row.ready /\ SpaceOf[f] \notin closed => f \in objects
  BY <1>0, <1>3, <1>5 DEF FileTypes, StoreInv, ReadyHasBytes
<1>10. /\ asked \subseteq asked' /\ asked' \subseteq File
       /\ swept \subseteq swept' /\ swept' \subseteq swept \cup {f}
       /\ f \in asked' \cup swept'
       /\ f \in swept' \ swept => HasHeir(f)
  <2>1. CASE rows[f].deleted
    BY <1>2, <1>3, <1>9, <2>1 DEF EraseSave
  <2>2. CASE ~ rows[f].deleted
    BY <1>1, <1>2, <1>3, <1>9, <2>2 DEF EraseSave
  <2> QED BY <2>1, <2>2
<1> QED BY <1>1, <1>3, <1>5, <1>7, <1>8, <1>9, <1>10, SaveKeeps

\* The rows of a marked space go.  Heirs are of the space of what they replaced, so the
\* files of other spaces keep theirs; the purged ones have no row to need one.
LEMMA SpaceRowsKeeps ==
  ASSUME FileInv, NEW r \in Request, SpaceRows(r)
  PROVE  FileInv'
<1>0. FileTypes /\ StoreInv /\ Fits(r, req[r]) /\ \A x \in Request : Fits(x, req[x])
  BY FileParts
<1> PICK sp : sp = req[r].space
  OBVIOUS
<1> PICK gone : gone = {f \in File \ fresh : SpaceOf[f] = sp}
  OBVIOUS
<1>1. /\ req[r].op = "space"
      /\ rows' = [f \in File |-> IF f \in gone THEN NoRow ELSE rows[f]]
      /\ parts' = [f \in File |-> IF f \in gone THEN "gone" ELSE parts[f]]
      /\ swept' = swept \ gone /\ asked' = asked \ gone
      /\ emptied' = emptied \cup {sp} /\ req' = [req EXCEPT ![r] = Idle]
      /\ UNCHANGED <<fresh, objects, closed, lock>>
  BY DEF SpaceRows, At, Done
<1>2. sp \in closed
  BY <1>0, <1>1 DEF Fits
<1>3. /\ \A f \in gone : rows'[f] = NoRow
      /\ \A f \in File \ gone : rows'[f] = rows[f]
      /\ \A f \in File : Has(f)' => f \notin gone /\ Has(f)
      /\ \A f \in File : Has(f)' => SpaceOf[f] # sp
  <2>1. /\ \A f \in gone : rows'[f] = NoRow
        /\ \A f \in File \ gone : rows'[f] = rows[f]
    BY <1>1
  <2>2. \A f \in File : Has(f)' => f \notin gone /\ Has(f)
    BY <2>1 DEF Has
  <2>3. \A f \in File : Has(f) => f \notin fresh
    BY <1>0 DEF StoreInv, FreshAreUnknown
  <2> QED BY <2>1, <2>2, <2>3
<1>4. ASSUME NEW f \in File, HasHeir(f), f \notin gone, f \notin fresh PROVE HasHeir(f)'
  <2>1. PICK h \in In(SpaceOf[f]) \ swept :
          h > f /\ rows[h].ready /\ (rows[h].deleted => h \in asked)
    BY <1>4 DEF HasHeir
  <2>2. h \in File /\ Has(h) /\ SpaceOf[h] = SpaceOf[f] /\ SpaceOf[f] # sp
    BY <1>4, <2>1 DEF In
  <2>3. h \notin gone /\ rows'[h] = rows[h] /\ Has(h)'
    BY <1>3, <2>2 DEF Has
  <2>4. h \in In(SpaceOf[f])' \ swept'
    BY <1>1, <2>1, <2>2, <2>3 DEF In
  <2> QED BY <1>1, <2>1, <2>3, <2>4 DEF HasHeir
<1>5. Live' \subseteq Live /\ Live \subseteq File
  BY <1>3 DEF Live
<1>6. Quota(Live') /\ \A g \in File : Room(Live, g) => Room(Live', g)
  BY <1>0, <1>5, FewerKeepQuota DEF StoreInv
<1>7. FileTypes'
  <2>1. rows' \in [File -> Row]
    <3>1. NoRow \in Row
      BY DEF NoRow, Row
    <3> QED BY <1>0, <1>1, <3>1 DEF FileTypes
  <2>2. parts' \in [File -> {"some", "all", "gone"}]
    BY <1>0, <1>1 DEF FileTypes
  <2>3. req' \in [Request -> Work] /\ emptied' \subseteq Space
    BY <1>0, <1>1, <1>2, IdleFits DEF FileTypes
  <2> QED BY <1>0, <1>1, <2>1, <2>2, <2>3 DEF FileTypes
<1>8. StoreInv'
  <2>1. FreshAreUnknown'
    BY <1>0, <1>1, <1>3 DEF StoreInv, FreshAreUnknown, FileTypes
  <2>2. \A g \in File : rows'[g].deleted => g \in asked' \cup swept'
    <3>1. ~ NoRow.deleted
      BY DEF NoRow
    <3> QED BY <1>0, <1>1, <1>3, <3>1 DEF StoreInv
  <2>3. Quota(Live')
    BY <1>6
  <2>4. ReadyHasBytes'
    BY <1>0, <1>1, <1>3, FileStoreAssumption DEF StoreInv, ReadyHasBytes
  <2>5. DeletedSpaceStaysEmpty'
    BY <1>0, <1>1, <1>3 DEF StoreInv, DeletedSpaceStaysEmpty, In
  <2>6. ReplacementSurvives'
    <3> SUFFICES ASSUME NEW g \in swept' PROVE HasHeir(g)'
      BY DEF ReplacementSurvives
    <3>1. g \in File /\ HasHeir(g) /\ g \notin gone /\ g \notin fresh
      BY <1>0, <1>1 DEF FileTypes, StoreInv, ReplacementSurvives, FreshAreUnknown
    <3> QED BY <1>4, <3>1
  <2>7. emptied' \subseteq closed'
    BY <1>0, <1>1, <1>2 DEF StoreInv
  <2> QED BY <2>1, <2>2, <2>3, <2>4, <2>5, <2>6, <2>7 DEF StoreInv
<1>9. ASSUME NEW x \in Request PROVE Fits(x, req[x])'
  <2>1. CASE x = r
    <3>1. req'[x] = Idle
      BY <1>0, <1>1, <2>1 DEF FileTypes
    <3>2. Fits(x, Idle)'
      BY IdleFits
    <3>3. Idle' = Idle
      BY DEF Idle, NoRow
    <3> QED BY <3>1, <3>2, <3>3 DEF Fits
  <2>2. CASE x # r
    <3>1. PICK y \in Work : y = req[x]
      BY <1>0 DEF FileTypes
    <3>2. req'[x] = y /\ Fits(x, y)
      BY <1>0, <1>1, <2>2, <3>1 DEF FileTypes
    <3>3. y.at = "insert" /\ y.op = "register" => Room(Live', y.file)
      BY <1>6, <3>2 DEF Fits
    <3>4. \A g \in File : Has(g)' => Has(g) /\ rows'[g] = rows[g]
      BY <1>3
    <3>5. y.todo \subseteq File
      BY DEF Work
    <3>6. y.op = "sweep" =>
            /\ \A g \in y.todo : Has(g)' => HasHeir(g)'
            /\ y.at = "save" /\ Has(y.file)' => HasHeir(y.file)'
      <4>1. \A g \in File : Has(g)' => g \notin gone /\ g \notin fresh
        BY <1>0, <1>3 DEF StoreInv, FreshAreUnknown
      <4>2. y.op = "sweep" => \A g \in y.todo : Has(g)' => HasHeir(g)'
        BY <1>4, <3>2, <3>4, <3>5, <4>1 DEF Fits
      <4>3. y.op = "sweep" /\ y.at = "save" /\ Has(y.file)' => HasHeir(y.file)'
        <5>1. y.at = "save" => y.file \in File
          BY <3>2 DEF Fits
        <5> QED BY <1>4, <3>2, <3>4, <4>1, <5>1 DEF Fits
      <4> QED BY <4>2, <4>3
    <3>7. y.at = "save" =>
            /\ y.file \in File \ fresh
            /\ Has(y.file)' => /\ y.stale \/ y.snap = rows'[y.file]
                               /\ y.snap.ready => rows'[y.file].ready
      BY <3>2, <3>4 DEF Fits
    <3>8. y.op = "complete" =>
            /\ y.file \in File \ fresh
            /\ y.at = "save" => ~ y.snap.ready /\ ~ y.snap.deleted
            /\ (/\ y.at \in {"load", "save"} /\ y.file \in Multipart
                /\ Has(y.file)' /\ ~ rows'[y.file].ready /\ ~ rows'[y.file].deleted
                /\ SpaceOf[y.file] \notin closed)
                 => y.file \in objects
      BY <3>2, <3>4 DEF Fits
    <3>9. y.op = "sweep" /\ y.at = "find" =>
            y.file \in File \ fresh /\ (Has(y.file)' => rows'[y.file].ready)
      BY <3>2, <3>4 DEF Fits
    <3>10. Fits(x, y)'
      BY <1>1, <3>2, <3>3, <3>6, <3>7, <3>8, <3>9 DEF Fits
    <3> QED BY <3>2, <3>10 DEF Fits
  <2> QED BY <2>1, <2>2
<1> QED BY <1>7, <1>8, <1>9, FileParts

\* The insert: nobody else registers while this request holds the lock, and the count it
\* made under the lock left room.
LEMMA RegisterInsertKeeps ==
  ASSUME FileInv, NEW r \in Request, RegisterInsert(r)
  PROVE  FileInv'
<1>0. FileTypes /\ StoreInv /\ Fits(r, req[r]) /\ \A x \in Request : Fits(x, req[x])
  BY FileParts
<1>1. PICK k \in Key, f \in fresh :
        /\ f = req[r].file /\ req[r].op = "register" /\ req[r].at = "insert"
        /\ rows' = [rows EXCEPT ![f] = [key |-> k, ready |-> FALSE, deleted |-> FALSE]]
        /\ fresh' = fresh \ {f} /\ req' = [req EXCEPT ![r] = Idle]
        /\ lock' = IF lock = r THEN Free ELSE lock
        /\ UNCHANGED <<objects, parts, closed, swept, asked, emptied>>
  BY DEF RegisterInsert, At, Done
<1>2. /\ lock = r /\ f \in File /\ SpaceOf[f] \notin closed
      /\ Room(Live, f) /\ ~ Has(f) /\ f \notin swept
  BY <1>0, <1>1 DEF Fits, StoreInv, FreshAreUnknown
<1>3. /\ ~ rows'[f].ready /\ ~ rows'[f].deleted
      /\ \A g \in File : g # f => rows'[g] = rows[g] /\ (Has(g)' <=> Has(g))
      /\ \A g \in File : Has(g) => rows'[g] = rows[g] /\ Has(g)'
  <2>1. /\ ~ rows'[f].ready /\ ~ rows'[f].deleted
        /\ \A g \in File : g # f => rows'[g] = rows[g]
    BY <1>0, <1>1, <1>2 DEF FileTypes
  <2> QED BY <1>2, <2>1 DEF Has
<1>4. ASSUME NEW g, HasHeir(g) PROVE HasHeir(g)'
  <2>1. PICK h \in In(SpaceOf[g]) \ swept :
          h > g /\ rows[h].ready /\ (rows[h].deleted => h \in asked)
    BY <1>4 DEF HasHeir
  <2>2. h \in File /\ Has(h) /\ SpaceOf[h] = SpaceOf[g]
    BY <2>1 DEF In
  <2>3. h \in In(SpaceOf[g])' \ swept' /\ rows'[h] = rows[h]
    BY <1>1, <1>3, <2>1, <2>2 DEF In
  <2> QED BY <1>1, <2>1, <2>3 DEF HasHeir
<1>5. FileTypes'
  <2>1. rows' \in [File -> Row]
    <3>1. [key |-> k, ready |-> FALSE, deleted |-> FALSE] \in Row
      BY DEF Row
    <3> QED BY <1>0, <1>1, <3>1 DEF FileTypes
  <2>2. req' \in [Request -> Work]
    BY <1>0, <1>1, IdleFits DEF FileTypes
  <2> QED BY <1>0, <1>1, <2>1, <2>2 DEF FileTypes
<1>6. StoreInv'
  <2>1. FreshAreUnknown'
    BY <1>0, <1>1, <1>3 DEF StoreInv, FreshAreUnknown, FileTypes
  <2>2. \A g \in File : rows'[g].deleted => g \in asked' \cup swept'
    BY <1>0, <1>1, <1>3 DEF StoreInv
  <2>3. Quota(Live')
    <3>1. Live' \subseteq Live \cup {f} /\ Live \subseteq File /\ f \in File \ Live
      BY <1>2, <1>3 DEF Live
    <3>2. Quota(Live \cup {f})
      BY <1>0, <1>2, <3>1, RoomIsEnough DEF StoreInv
    <3> QED BY <3>1, <3>2, FewerKeepQuota
  <2>4. ReadyHasBytes'
    BY <1>0, <1>1, <1>3, FileStoreAssumption DEF StoreInv, ReadyHasBytes
  <2>5. DeletedSpaceStaysEmpty'
    <3>1. SpaceOf[f] \notin emptied
      BY <1>0, <1>2 DEF StoreInv
    <3> QED BY <1>0, <1>1, <1>3, <3>1 DEF StoreInv, DeletedSpaceStaysEmpty, In
  <2>6. ReplacementSurvives'
    BY <1>0, <1>1, <1>4 DEF StoreInv, ReplacementSurvives
  <2> QED BY <1>0, <1>1, <2>1, <2>2, <2>3, <2>4, <2>5, <2>6 DEF StoreInv
<1>7. ASSUME NEW x \in Request PROVE Fits(x, req[x])'
  <2>1. CASE x = r
    <3>1. req'[x] = Idle
      BY <1>0, <1>1, <2>1 DEF FileTypes
    <3>2. Fits(x, Idle)'
      BY IdleFits
    <3>3. Idle' = Idle
      BY DEF Idle, NoRow
    <3> QED BY <3>1, <3>2, <3>3 DEF Fits
  <2>2. CASE x # r
    <3>1. PICK y \in Work : y = req[x]
      BY <1>0 DEF FileTypes
    <3>2. req'[x] = y /\ Fits(x, y)
      BY <1>0, <1>1, <2>2, <3>1 DEF FileTypes
    <3>3. y.op # "register"
      BY <1>2, <2>2, <3>2 DEF Fits
    <3>4. \A g \in File \ fresh :
            rows'[g] = rows[g] /\ (Has(g)' <=> Has(g)) /\ (HasHeir(g) => HasHeir(g)')
      BY <1>1, <1>3, <1>4
    <3>5. y.todo \subseteq File
      BY DEF Work
    <3>6. y.op = "sweep" => /\ y.todo \cap fresh' = {}
                            /\ \A g \in y.todo : Has(g)' => HasHeir(g)'
      BY <1>1, <3>2, <3>4, <3>5 DEF Fits
    <3>7. y.at = "save" =>
            /\ y.file \in File \ fresh'
            /\ Has(y.file)' => /\ y.stale \/ y.snap = rows'[y.file]
                               /\ y.snap.ready => rows'[y.file].ready
            /\ y.op = "sweep" /\ Has(y.file)' => HasHeir(y.file)'
      BY <1>1, <3>2, <3>4 DEF Fits
    <3>8. y.op = "complete" =>
            /\ y.file \in File \ fresh'
            /\ y.at = "save" => ~ y.snap.ready /\ ~ y.snap.deleted
            /\ (/\ y.at \in {"load", "save"} /\ y.file \in Multipart
                /\ Has(y.file)' /\ ~ rows'[y.file].ready /\ ~ rows'[y.file].deleted
                /\ SpaceOf[y.file] \notin closed)
                 => y.file \in objects
      BY <1>1, <3>2, <3>4 DEF Fits
    <3>9. y.op = "sweep" /\ y.at = "find" =>
            y.file \in File \ fresh' /\ (Has(y.file)' => rows'[y.file].ready)
      BY <1>1, <3>2, <3>4 DEF Fits
    <3>10. Fits(x, y)'
      BY <1>1, <3>2, <3>3, <3>6, <3>7, <3>8, <3>9 DEF Fits
    <3> QED BY <3>2, <3>10 DEF Fits
  <2> QED BY <2>1, <2>2
<1> QED BY <1>5, <1>6, <1>7, FileParts

-----------------------------------------------------------------------------
(* The theorems.                                                           *)

\* No file is registered and nobody asks for anything: the invariant holds at the start.
LEMMA InitKeeps == Init => FileInv
<1> SUFFICES ASSUME Init PROVE FileInv
  OBVIOUS
<1>1. \A f \in File : rows[f] = NoRow
  BY DEF Init
<1>2. /\ \A f \in File : ~ Has(f) /\ ~ rows[f].deleted
      /\ Live = {} /\ \A sp : In(sp) = {}
  BY <1>1 DEF Has, Live, In, NoRow
<1>3. FileTypes
  <2>1. NoRow \in Row
    BY DEF NoRow, Row
  <2> QED BY <2>1, IdleFits, FileStoreAssumption DEF Init, FileTypes
<1>4. StoreInv
  <2>1. Quota(Live)
    <3>1. \A sp : Those(Live, sp) = {}
      BY <1>2 DEF Those
    <3>2. BytesOf({}) = {}
      BY DEF BytesOf
    <3>3. Cardinality(Live) = 0 /\ \A sp : Cardinality(BytesOf(Those(Live, sp))) = 0
      BY <1>2, <3>1, <3>2, FS_EmptySet
    <3> QED BY <1>2, <3>3, FileStoreAssumption DEF Quota
  <2> QED BY <1>2, <2>1, FileStoreAssumption
          DEF Init, StoreInv, FreshAreUnknown, ReadyHasBytes, DeletedSpaceStaysEmpty,
              ReplacementSurvives
<1>5. \A x \in Request : Fits(x, req[x])
  BY IdleFits DEF Init
<1> QED BY <1>3, <1>4, <1>5, FileParts

\* Every step keeps the invariant.
LEMMA NextKeeps == FileInv /\ [Next]_vars => FileInv'
<1> SUFFICES ASSUME FileInv, [Next]_vars PROVE FileInv'
  OBVIOUS
<1>1. ASSUME NEW r \in Request,
             \/ Stops(r) \/ RegisterHold(r) \/ RegisterCount(r) \/ RegisterInsert(r)
             \/ ListParts(r) \/ Join(r) \/ ObjectSize(r)
             \/ CompleteLoad(r) \/ CompleteSave(r)
             \/ RenameLoad(r) \/ RenameSave(r)
      PROVE  FileInv'
  BY <1>1, StopsKeeps, RegisterHoldKeeps, RegisterCountKeeps, RegisterInsertKeeps,
     ListPartsKeeps, JoinKeeps, ObjectSizeKeeps, CompleteLoadKeeps, CompleteSaveKeeps,
     RenameLoadKeeps, RenameSaveKeeps
<1>2. ASSUME NEW r \in Request,
             \/ FindNamesakes(r) \/ SweepFails(r)
             \/ EraseLoad(r) \/ EraseSave(r)
             \/ MarkSpace(r) \/ SpaceKeys(r) \/ SpaceObject(r) \/ SpaceRows(r)
      PROVE  FileInv'
  BY <1>2, FindNamesakesKeeps, SweepFailsKeeps, EraseLoadKeeps, EraseSaveKeeps,
     MarkSpaceKeeps, SpaceKeysKeeps, SpaceObjectKeeps, SpaceRowsKeeps
<1>3. ASSUME NEW f \in File, PutPart(f) \/ StorageSweeps(f) PROVE FileInv'
  BY <1>3, PartsKeep
<1>4. CASE UNCHANGED vars
  <2>1. FileTypes /\ StoreInv /\ \A x \in Request : Fits(x, req[x])
    BY FileParts
  <2>2. FileTypes'
    BY <1>4, <2>1 DEF vars, FileTypes
  <2>3. StoreInv'
    BY <1>4, <2>1 DEF vars, StoreInv, FreshAreUnknown, ReadyHasBytes, DeletedSpaceStaysEmpty,
                      ReplacementSurvives, Has, Live, HasHeir, In
  <2>4. ASSUME NEW x \in Request PROVE Fits(x, req[x])'
    <3>1. /\ \A f : Has(f)' <=> Has(f)
          /\ Live' = Live
          /\ \A f : HasHeir(f)' <=> HasHeir(f)
      BY <1>4 DEF vars, Has, Live, HasHeir, In
    <3> QED BY <1>4, <2>1, <3>1 DEF vars, Fits
  <2> QED BY <2>2, <2>3, <2>4, FileParts
<1> QED BY <1>1, <1>2, <1>3, <1>4 DEF Next

\* The inductive invariant of the file store holds whatever the requests, the client and
\* the object store do, for any number of files, requests and spaces.
THEOREM FileInvariant == Spec => []FileInv
BY InitKeeps, NextKeeps, PTL DEF Spec

\* ReplaceNamesakesService never costs the user the content: every file a sweep destroyed
\* has a completed newer one that no sweep took.
THEOREM ReplacedHaveHeirs == Spec => []ReplacementSurvives
<1>1. FileInv => ReplacementSurvives
  BY DEF FileInv
<1> QED BY <1>1, FileInvariant, PTL

\* A multipart upload that says ready has its bytes in the object store until the cascade
\* of its space takes them.
THEOREM ReadyUploadsHaveBytes == Spec => []ReadyHasBytes
<1>1. FileInv => ReadyHasBytes
  BY DEF FileInv
<1> QED BY <1>1, FileInvariant, PTL

\* No row appears in a space once DeleteSpaceService purged its files.
THEOREM PurgedSpacesStayEmpty == Spec => []DeletedSpaceStaysEmpty
<1>1. FileInv => DeletedSpaceStaysEmpty
  BY DEF FileInv
<1> QED BY <1>1, FileInvariant, PTL

\* SpaceQuotaService keeps both ceilings: the workspace's lock, and the counts under it,
\* hold the live files of every space within max_space_bytes and those of the workspace
\* within max_files_per_workspace, however many registrations run at once.
THEOREM QuotasAreKept == Spec => []QuotaHolds
<1>1. FileInv => QuotaHolds
  BY DEF FileInv
<1> QED BY <1>1, FileInvariant, PTL

\* A save that the version lets through keeps deleted_at: its snapshot is the row.
LEMMA SavesKeepDeletion ==
  ASSUME FileInv, NEW r \in Request, req[r].at = "save", NEW row, NEW next,
         Save(r, req[r].file, row, next),
         req[r].snap = rows[req[r].file] => (rows[req[r].file].deleted => row.deleted),
         NEW f \in File, rows[f].deleted
  PROVE  rows'[f].deleted
<1>0. FileTypes /\ Fits(r, req[r])
  BY FileParts
<1>1. /\ ~ req[r].stale /\ Has(req[r].file)
      /\ rows' = [rows EXCEPT ![req[r].file] = row]
  BY DEF Save
<1>2. req[r].file \in File /\ req[r].snap = rows[req[r].file]
  BY <1>0, <1>1 DEF Fits
<1> QED BY <1>0, <1>1, <1>2 DEF FileTypes

\* A deleted file stays deleted until its row is purged: the version in save's WHERE
\* refuses every rename, re-tag and completion that read the row before the deletion.
THEOREM DeletedStayDeleted == Spec => DeletedForGood
<1>1. FileInv /\ [Next]_vars =>
        [\A f \in File : rows[f].deleted => rows'[f].deleted \/ rows'[f] = NoRow]_vars
  <2> SUFFICES ASSUME FileInv, Next, NEW f \in File, rows[f].deleted
               PROVE  rows'[f].deleted \/ rows'[f] = NoRow
    BY DEF vars
  <2>0. FileTypes /\ StoreInv /\ \A x \in Request : Fits(x, req[x])
    BY FileParts
  <2>1. ASSUME NEW r \in Request, CompleteSave(r) PROVE rows'[f].deleted
    <3>1. /\ req[r].at = "save" /\ req[r].op = "complete"
          /\ Save(r, req[r].file, [req[r].snap EXCEPT !.ready = TRUE], Sweeping(req[r].file))
      BY <2>1 DEF CompleteSave, At
    <3>2. req[r].file \in File /\ rows[req[r].file] \in Row
      BY <2>0, <3>1 DEF Fits, FileTypes
    <3> QED BY <3>1, <3>2, SavesKeepDeletion DEF Row
  <2>2. ASSUME NEW r \in Request, RenameSave(r) PROVE rows'[f].deleted
    <3>1. CASE UNCHANGED rows
      BY <3>1
    <3>2. CASE Save(r, req[r].file, [req[r].snap EXCEPT !.key = req[r].key], AfterRename(r))
      <4>1. req[r].at = "save"
        BY <2>2 DEF RenameSave, At
      <4>2. req[r].file \in File /\ rows[req[r].file] \in Row
        BY <2>0, <4>1 DEF Fits, FileTypes
      <4> QED BY <3>2, <4>1, <4>2, SavesKeepDeletion DEF Row
    <3> QED BY <2>2, <3>1, <3>2 DEF RenameSave
  <2>3. ASSUME NEW r \in Request, EraseSave(r) PROVE rows'[f].deleted
    <3>1. /\ req[r].at = "save"
          /\ Save(r, req[r].file, [req[r].snap EXCEPT !.deleted = TRUE], AfterErase(r))
      BY <2>3 DEF EraseSave, At
    <3>2. req[r].file \in File /\ rows[req[r].file] \in Row
      BY <2>0, <3>1 DEF Fits, FileTypes
    <3> QED BY <3>1, <3>2, SavesKeepDeletion DEF Row
  <2>4. ASSUME NEW r \in Request, SpaceRows(r) PROVE rows'[f].deleted \/ rows'[f] = NoRow
    BY <2>4 DEF SpaceRows
  <2>5. ASSUME NEW r \in Request, RegisterInsert(r) PROVE rows'[f].deleted
    <3>1. f \notin fresh
      BY <2>0 DEF StoreInv, FreshAreUnknown, Has, NoRow
    <3> QED BY <2>0, <2>5, <3>1 DEF RegisterInsert, FileTypes
  <2>6. ASSUME NEW r \in Request,
               \/ Stops(r) \/ RegisterHold(r) \/ RegisterCount(r)
               \/ ListParts(r) \/ Join(r) \/ ObjectSize(r)
               \/ CompleteLoad(r) \/ RenameLoad(r)
               \/ FindNamesakes(r) \/ SweepFails(r) \/ EraseLoad(r)
               \/ MarkSpace(r) \/ SpaceKeys(r) \/ SpaceObject(r)
        PROVE  rows' = rows
    BY <2>6 DEF Stops, RegisterHold, RegisterCount, ListParts, Join, ObjectSize, CompleteLoad,
                RenameLoad, FindNamesakes, SweepFails, EraseLoad, MarkSpace, SpaceKeys, SpaceObject
  <2>7. ASSUME NEW g \in File, PutPart(g) \/ StorageSweeps(g) PROVE rows' = rows
    BY <2>7 DEF PutPart, StorageSweeps
  <2> QED BY <2>1, <2>2, <2>3, <2>4, <2>5, <2>6, <2>7 DEF Next
<1> QED BY <1>1, FileInvariant, PTL DEF Spec, DeletedForGood

-----------------------------------------------------------------------------
(* ConnectionHub: the registry.                                            *)

\* A lost call allows an entry one interval more, and all of them leave it within Ttl.
LEMMA LostRenewals ==
  ASSUME NEW n \in 0..MaxFaults
  PROVE  /\ n * RenewEvery \in Nat /\ (n + 1) * RenewEvery = n * RenewEvery + RenewEvery
         /\ n * RenewEvery + RenewEvery < Ttl
<1>1. n \in Nat /\ MaxFaults \in Nat /\ RenewEvery \in Nat /\ n <= MaxFaults /\ Ttl \in Nat
  BY HubAssumption
<1>2. n * RenewEvery \in Nat /\ (n + 1) * RenewEvery = n * RenewEvery + RenewEvery
  BY <1>1
<1>3. (n + 1) * RenewEvery <= (MaxFaults + 1) * RenewEvery
  BY <1>1
<1>4. (MaxFaults + 1) * RenewEvery < Ttl /\ (MaxFaults + 1) * RenewEvery \in Nat
  BY <1>1, HubAssumption
<1> QED BY <1>1, <1>2, <1>3, <1>4

\* An entry an eviction leaves behind counts.
LEMMA EvictionCounts ==
  ASSUME HubTypes
  PROVE  Members(Evicted) = Counted
BY HubAssumption DEF HubTypes, Members, Evicted, Counted, None

\* The entries that count are finitely many, and fewer of them still fit.
LEMMA FewerCount ==
  ASSUME NEW S \in SUBSET Session, NEW T \in SUBSET S
  PROVE  /\ IsFiniteSet(S) /\ Cardinality(S) \in Nat /\ Cardinality(T) \in Nat
         /\ Cardinality(T) <= Cardinality(S)
BY HubAssumption, FS_Subset, FS_CardinalityType

\* Steps that touch neither the registry nor a clock; sessions may end.
LEMMA RegistryStays ==
  ASSUME RegistryInv, UNCHANGED <<up, age, clocks, faults>>, HubTypes',
         \A s \in Session : stage'[s] \in {"admitted", "live", "new"} => stage'[s] = stage[s],
         faults = 0 => \A s \in Session : stage'[s] = "over" => age[s] = None
  PROVE  RegistryInv'
BY DEF RegistryInv, EntriesFit, RenewedInTime, NothingLeaks, Counted, Admitted, None, clocks

\* Sessions that end, lose their routing or their outbox, or are given one.
LEMMA RegistryUntouched ==
  ASSUME RegistryInv,
         \/ \E s \in Session : \/ Rejected(s) \/ SocketEnds(s) \/ Unregister(s) \/ Take(s)
                               \/ Sent(s) \/ DrainDelay(s) \/ DrainCut(s)
         \/ \E p \in Process : Notify(p) \/ Disconnect(p) \/ KickOne(p) \/ Drain(p)
         \/ UNCHANGED hubVars
  PROVE  RegistryInv'
<1>1. HubTypes' /\ UNCHANGED <<up, age, clocks, faults>>
  BY DEF RegistryInv, HubTypes, Rejected, SocketEnds, Unregister, Take, Sent, DrainDelay,
         DrainCut, Notify, Overflow, Disconnect, KickOne, Drain, Goto, CloseOutbox, hubVars, local,
         clocks
<1>2. \A s \in Session : /\ stage'[s] \in {"admitted", "live", "new"} => stage'[s] = stage[s]
                         /\ stage'[s] = "over" => stage[s] \in {"over", "new"}
  BY DEF RegistryInv, HubTypes, Rejected, SocketEnds, Unregister, Take, Sent, DrainDelay,
         DrainCut, Notify, Disconnect, KickOne, Drain, Goto, hubVars
<1> QED BY <1>1, <1>2, RegistryStays DEF RegistryInv, EntriesFit, NothingLeaks

\* The answer to an admission arrives.
LEMMA RegisterKeepsRegistry ==
  ASSUME RegistryInv, NEW s \in Session, Register(s)
  PROVE  RegistryInv'
BY HubAssumption DEF RegistryInv, Register, Goto, HubTypes, EntriesFit, RenewedInTime,
                     NothingLeaks, Counted, Admitted, None, clocks

\* The entry a script adds makes one more.
LEMMA OneMoreCounts ==
  ASSUME RegistryInv, NEW s \in Session, age' = [Evicted EXCEPT ![s] = 0],
         Cardinality(Members(Evicted)) < Cap
  PROVE  /\ Cardinality(Counted') <= Cap
         /\ age' \in [Session -> 0..None] /\ age'[s] = 0
         /\ \A t \in Session : t # s => age'[t] = IF age[t] < Ttl THEN age[t] ELSE None
<1>1. HubTypes
  BY DEF RegistryInv
<1>2. /\ age' \in [Session -> 0..None] /\ age'[s] = 0
      /\ \A t \in Session : t # s => age'[t] = IF age[t] < Ttl THEN age[t] ELSE None
  BY <1>1, HubAssumption DEF HubTypes, Evicted, None
<1>3. Counted' \subseteq Counted \cup {s} /\ Counted \in SUBSET Session
      /\ Counted' \in SUBSET Session
  BY <1>1, <1>2, HubAssumption DEF Counted, None, HubTypes
<1>4. Cardinality(Counted) < Cap /\ IsFiniteSet(Counted)
  BY <1>1, <1>3, EvictionCounts, FewerCount
<1>5. Cardinality(Counted \cup {s}) <= Cardinality(Counted) + 1 /\ Cardinality(Counted) \in Nat
  <2>1. Cardinality(Counted) \in Nat
    BY <1>4, FS_CardinalityType
  <2>2. Cardinality(Counted \cup {s}) = IF s \in Counted THEN Cardinality(Counted)
                                        ELSE Cardinality(Counted) + 1
    BY <1>4, FS_AddElement
  <2> QED BY <2>1, <2>2
<1>6. Cardinality(Counted') <= Cardinality(Counted \cup {s})
      /\ Cardinality(Counted') \in Nat /\ Cardinality(Counted \cup {s}) \in Nat
  BY <1>3, FewerCount
<1> QED BY <1>2, <1>4, <1>5, <1>6, HubAssumption

\* An admission evicts, counts and adds in one script, or the call is lost.
LEMMA AcquireKeepsRegistry ==
  ASSUME RegistryInv, NEW s \in Session, Acquire(s)
  PROVE  RegistryInv'
<1>1. /\ stage[s] = "new" /\ Home[s] \in up /\ age[s] = None /\ HubTypes
      /\ UNCHANGED <<up, since, renewing>>
      /\ \A t \in Session : t # s => stage'[t] = stage[t]
  BY DEF RegistryInv, Acquire, Goto, EntriesFit, HubTypes, clocks
<1>2. \A t \in Session : Admitted(t) => age[t] < Ttl
  <2>1. faults * RenewEvery + RenewEvery < Ttl /\ faults * RenewEvery \in Nat
    BY <1>1, LostRenewals DEF HubTypes
  <2>2. \A t \in Session : since[Home[t]] <= RenewEvery /\ since[Home[t]] \in Nat
                           /\ age[t] \in Nat
    BY <1>1, HubAssumption DEF HubTypes, None
  <2> QED BY <2>1, <2>2, HubAssumption DEF RegistryInv, RenewedInTime
<1>3. CASE TryAcquire(s) /\ Goto(s, "admitted") /\ UNCHANGED <<open, faults>>
  <2>1. /\ Cardinality(Counted') <= Cap
        /\ age' \in [Session -> 0..None] /\ age'[s] = 0
        /\ \A t \in Session : t # s => age'[t] = IF age[t] < Ttl THEN age[t] ELSE None
    BY <1>3, OneMoreCounts DEF TryAcquire
  <2>2. HubTypes'
    BY <1>3, <2>1 DEF Acquire, Goto, RegistryInv, HubTypes, None, clocks
  <2>3. EntriesFit' /\ NothingLeaks'
    BY <1>1, <1>3, <2>1, HubAssumption DEF Goto, RegistryInv, HubTypes, EntriesFit,
       NothingLeaks, None
  <2>4. RenewedInTime'
    <3>1. /\ stage'[s] = "admitted"
          /\ \A t \in Session : t # s /\ Admitted(t) => age'[t] = age[t]
      BY <1>1, <1>2, <1>3, <2>1 DEF Goto, HubTypes
    <3>2. faults' * RenewEvery + since'[Home[s]] >= 0
      <4>1. faults * RenewEvery \in Nat /\ since[Home[s]] \in Nat
        BY <1>1, HubAssumption, LostRenewals DEF HubTypes
      <4> QED BY <1>1, <1>3, <4>1
    <3> QED BY <1>1, <1>3, <2>1, <3>1, <3>2 DEF RegistryInv, RenewedInTime, Admitted
  <2> QED BY <2>2, <2>3, <2>4 DEF RegistryInv
<1>4. CASE /\ Cardinality(Members(Evicted)) >= Cap /\ age' = Evicted
           /\ Goto(s, "over") /\ open' = open \ {s} /\ UNCHANGED faults
  <2>1. /\ age' \in [Session -> 0..None] /\ Counted' = Counted
        /\ \A t \in Session : age'[t] = IF age[t] < Ttl THEN age[t] ELSE None
    BY <1>1, <1>4, HubAssumption DEF HubTypes, Evicted, Counted, None
  <2>2. HubTypes'
    BY <1>4, <2>1 DEF Acquire, Goto, RegistryInv, HubTypes, None, clocks
  <2>3. EntriesFit' /\ NothingLeaks'
    BY <1>1, <1>4, <2>1, HubAssumption DEF Goto, RegistryInv, HubTypes, EntriesFit,
       NothingLeaks, None
  <2>4. RenewedInTime'
    <3>1. /\ stage'[s] = "over"
          /\ \A t \in Session : t # s /\ Admitted(t) => age'[t] = age[t]
      BY <1>1, <1>2, <1>4, <2>1 DEF Goto, HubTypes
    <3> QED BY <1>1, <1>4, <2>1, <3>1 DEF RegistryInv, RenewedInTime, Admitted
  <2> QED BY <2>2, <2>3, <2>4 DEF RegistryInv
<1>5. CASE /\ Fault /\ age' \in {age, [Evicted EXCEPT ![s] = 0]}
           /\ age' # age => Cardinality(Members(Evicted)) < Cap
           /\ Goto(s, "over") /\ open' = open \ {s}
  <2>1. /\ Cardinality(Counted') <= Cap /\ age' \in [Session -> 0..None]
        /\ \A t \in Session : t # s => \/ age'[t] = age[t]
                                       \/ age[t] >= Ttl /\ age'[t] = None
    <3>1. CASE age' = age
      BY <1>1, <3>1 DEF RegistryInv, EntriesFit, Counted, HubTypes
    <3>2. CASE age' # age
      BY <1>1, <1>5, <3>2, OneMoreCounts, HubAssumption DEF HubTypes, None
    <3> QED BY <3>1, <3>2
  <2>2. faults' = faults + 1 /\ faults' \in 0..MaxFaults
    BY <1>1, <1>5, HubAssumption DEF Fault, HubTypes
  <2>3. HubTypes'
    BY <1>5, <2>1, <2>2 DEF Acquire, Goto, RegistryInv, HubTypes, None, clocks
  <2>4. EntriesFit' /\ NothingLeaks'
    BY <1>1, <1>5, <2>1, <2>2, HubAssumption DEF Goto, RegistryInv, HubTypes, EntriesFit,
       NothingLeaks, None
  <2>5. RenewedInTime'
    <3>1. /\ stage'[s] = "over"
          /\ \A t \in Session : t # s /\ Admitted(t) => age'[t] = age[t]
      BY <1>1, <1>2, <1>5, <2>1, HubAssumption DEF Goto, HubTypes
    <3>2. /\ faults * RenewEvery \in Nat
          /\ faults' * RenewEvery = faults * RenewEvery + RenewEvery
      BY <1>1, <2>2, LostRenewals DEF HubTypes
    <3>3. \A t \in Session : since[Home[t]] \in Nat /\ age[t] \in Nat
      BY <1>1, HubAssumption DEF HubTypes, None
    <3> QED BY <1>1, <2>2, <3>1, <3>2, <3>3, HubAssumption
        DEF RegistryInv, RenewedInTime, Admitted
  <2> QED BY <2>3, <2>4, <2>5 DEF RegistryInv
<1> QED BY <1>3, <1>4, <1>5 DEF Acquire

\* A release takes the entry out, or is lost.
LEMMA ReleaseKeepsRegistry ==
  ASSUME RegistryInv, NEW s \in Session, Release(s)
  PROVE  RegistryInv'
<1>1. /\ HubTypes /\ stage[s] = "releasing" /\ stage'[s] = "over"
      /\ \A t \in Session : t # s => stage'[t] = stage[t]
      /\ UNCHANGED <<up, since, renewing>>
  BY DEF RegistryInv, Release, Goto, HubTypes, clocks
<1>2. /\ \A t \in Session : t # s => age'[t] = age[t]
      /\ age' \in [Session -> 0..None] /\ age'[s] \in {age[s], None}
      /\ faults' = faults => age'[s] = None
  BY HubAssumption DEF Release, Fault, HubTypes, RegistryInv, None
<1>3. /\ faults' \in 0..MaxFaults
      /\ faults' = faults \/ faults' = faults + 1
  BY HubAssumption DEF Release, Fault, HubTypes, RegistryInv
<1>4. HubTypes'
  BY <1>2, <1>3 DEF Release, Goto, RegistryInv, HubTypes, None, clocks
<1>5. EntriesFit' /\ NothingLeaks'
  <2>1. Counted' \subseteq Counted /\ Counted \in SUBSET Session
    BY <1>1, <1>2, HubAssumption DEF Counted, None, HubTypes
  <2>2. Cardinality(Counted') <= Cardinality(Counted) /\ Cardinality(Counted) \in Nat
        /\ Cardinality(Counted') \in Nat
    BY <2>1, FewerCount
  <2>3. EntriesFit'
    BY <1>1, <1>2, <2>2, HubAssumption DEF RegistryInv, EntriesFit, None
  <2>4. NothingLeaks'
    BY <1>1, <1>2, <1>3 DEF RegistryInv, NothingLeaks, HubTypes, None
  <2> QED BY <2>3, <2>4
<1>6. RenewedInTime'
  <2>1. /\ faults * RenewEvery \in Nat
        /\ (faults + 1) * RenewEvery = faults * RenewEvery + RenewEvery
    BY <1>1, LostRenewals DEF HubTypes
  <2>2. faults' * RenewEvery \in Nat /\ faults' * RenewEvery >= faults * RenewEvery
    <3>1. CASE faults' = faults
      BY <2>1, <3>1
    <3>2. CASE faults' = faults + 1
      BY <2>1, <3>2, HubAssumption
    <3> QED BY <1>3, <3>1, <3>2
  <2>3. \A t \in Session : since[Home[t]] \in Nat /\ age[t] \in Nat
    BY <1>1, HubAssumption DEF HubTypes, None
  <2> QED BY <1>1, <1>2, <2>1, <2>2, <2>3 DEF RegistryInv, RenewedInTime, Admitted
<1> QED BY <1>4, <1>5, <1>6 DEF RegistryInv

\* A renewal starts with every slot its process has.
LEMMA RenewStartKeepsRegistry ==
  ASSUME RegistryInv, NEW p \in Process, RenewStart(p)
  PROVE  RegistryInv'
<1>1. HubTypes' /\ EntriesFit' /\ NothingLeaks'
  BY HubAssumption DEF RegistryInv, RenewStart, Slots, Here, HubTypes, EntriesFit, Counted,
                       NothingLeaks, None, local
<1>2. RenewedInTime'
  <2>1. faults * RenewEvery \in Nat
    BY LostRenewals DEF RegistryInv, HubTypes
  <2> QED BY <2>1, HubAssumption DEF RegistryInv, RenewStart, Slots, Here, HubTypes,
             RenewedInTime, Admitted, None
<1> QED BY <1>1, <1>2 DEF RegistryInv

\* A renewal makes every entry it covers new, or is lost.
LEMMA RenewEndKeepsRegistry ==
  ASSUME RegistryInv, NEW p \in Process, RenewEnd(p)
  PROVE  RegistryInv'
<1>1. /\ HubTypes /\ renewing[p] # {} /\ since[p] = RenewEvery
      /\ renewing' = [renewing EXCEPT ![p] = {}] /\ since' = [since EXCEPT ![p] = 0]
      /\ UNCHANGED <<up, stage>>
  BY DEF RegistryInv, RenewEnd, RenewedInTime
<1>2. /\ age' \in [Session -> 0..None] /\ Counted' \subseteq Counted
      /\ \A s \in Session : age[s] = None => age'[s] = None
      /\ \A s \in Session : age[s] < Ttl => age'[s] <= age[s] /\ age'[s] \in Nat
      /\ \/ faults' = faults /\ \A s \in renewing[p] : age[s] < Ttl => age'[s] = 0
         \/ faults < MaxFaults /\ faults' = faults + 1 /\ age' = age
  BY <1>1, HubAssumption DEF RenewEnd, Renew, Evicted, Fault, HubTypes, Counted, None
<1>3. faults' \in 0..MaxFaults /\ HubTypes'
  BY <1>1, <1>2, HubAssumption DEF RenewEnd, HubTypes, local, None
<1>4. EntriesFit' /\ NothingLeaks'
  <2>1. Cardinality(Counted') <= Cardinality(Counted) /\ Cardinality(Counted) \in Nat
        /\ Cardinality(Counted') \in Nat
    BY <1>2, FewerCount DEF Counted
  <2> QED BY <1>1, <1>2, <2>1, HubAssumption DEF RegistryInv, EntriesFit, NothingLeaks, HubTypes,
             None
<1>5. RenewedInTime'
  <2>1. /\ faults * RenewEvery \in Nat /\ faults * RenewEvery + RenewEvery < Ttl
        /\ (faults + 1) * RenewEvery = faults * RenewEvery + RenewEvery
    BY <1>1, LostRenewals DEF HubTypes
  <2>2. \A s \in Session : since[Home[s]] \in 0..RenewEvery /\ age[s] \in Nat /\ Home[s] \in Process
    BY <1>1, HubAssumption DEF HubTypes, None
  <2>3. \A s \in Session : Admitted(s) => age[s] < Ttl
    BY <2>1, <2>2, HubAssumption DEF RegistryInv, RenewedInTime
  <2>4. \A q \in Process : /\ renewing'[q] = IF q = p THEN {} ELSE renewing[q]
                           /\ since'[q] = IF q = p THEN 0 ELSE since[q]
    BY <1>1 DEF HubTypes
  <2>5. \A q \in Process : renewing'[q] # {} => q \in up' /\ since'[q] = RenewEvery
    BY <1>1, <2>4 DEF RegistryInv, RenewedInTime
  <2>6. ASSUME NEW s \in Session, Admitted(s)
        PROVE  age'[s] <= faults' * RenewEvery + since'[Home[s]]
    <3>1. age[s] <= faults * RenewEvery + since[Home[s]] /\ age'[s] <= age[s] /\ age'[s] \in Nat
      BY <1>2, <2>3, <2>6 DEF RegistryInv, RenewedInTime
    <3>2. CASE Home[s] # p
      BY <1>2, <2>1, <2>2, <2>4, <3>1, <3>2, HubAssumption
    <3>3. CASE Home[s] = p /\ faults' = faults + 1
      BY <1>1, <2>1, <2>2, <2>4, <3>1, <3>3, HubAssumption
    <3>4. CASE Home[s] = p /\ faults' = faults
      <4>1. s \in renewing[p] \/ age[s] = 0
        BY <1>1, <2>6, <3>4 DEF RegistryInv, RenewedInTime, Admitted
      <4>2. age'[s] = 0
        <5>1. faults \in Nat /\ faults' # faults + 1 /\ age[s] < Ttl
          BY <1>1, <2>3, <2>6, <3>4, HubAssumption DEF HubTypes
        <5> QED BY <1>2, <2>2, <3>1, <4>1, <5>1
      <4> QED BY <2>1, <2>2, <2>4, <3>4, <4>2
    <3> QED BY <1>2, <3>2, <3>3, <3>4
  <2>7. ASSUME NEW s \in Session, Admitted(s), age[s] = 0 PROVE age'[s] = 0
    BY <1>2, <2>3, <2>7
  <2> QED BY <1>1, <2>4, <2>5, <2>6, <2>7 DEF RegistryInv, RenewedInTime, Admitted
<1> QED BY <1>3, <1>4, <1>5 DEF RegistryInv

\* Time passes only when no renewal is due and no admission is on its way.
LEMMA TickKeepsRegistry ==
  ASSUME RegistryInv, Tick
  PROVE  RegistryInv'
<1>1. /\ HubTypes /\ UNCHANGED <<up, stage, renewing, faults>>
      /\ \A p \in up : since[p] < RenewEvery
      /\ \A p \in Process : since'[p] = IF p \in up THEN since[p] + 1 ELSE 0
      /\ \A s \in Session : stage[s] # "admitted"
      /\ \A s \in Session : age'[s] = IF age[s] < Ttl THEN age[s] + 1 ELSE age[s]
  BY DEF RegistryInv, Tick
<1>2. HubTypes'
  BY <1>1, HubAssumption DEF Tick, HubTypes, local, None
<1>3. EntriesFit' /\ NothingLeaks'
  <2>1. Counted' \subseteq Counted /\ Counted \in SUBSET Session
    BY <1>1, HubAssumption DEF Counted, HubTypes, None
  <2>2. Cardinality(Counted') <= Cardinality(Counted) /\ Cardinality(Counted) \in Nat
        /\ Cardinality(Counted') \in Nat
    BY <2>1, FewerCount
  <2> QED BY <1>1, <2>2, HubAssumption DEF RegistryInv, EntriesFit, NothingLeaks, None
<1>4. RenewedInTime'
  <2>1. faults * RenewEvery \in Nat
    BY <1>1, LostRenewals DEF HubTypes
  <2>2. \A s \in Session : since[Home[s]] \in Nat /\ age[s] \in Nat /\ Home[s] \in Process
    BY <1>1, HubAssumption DEF HubTypes, None
  <2>3. \A p \in Process : renewing[p] = {}
    BY <1>1, HubAssumption DEF RegistryInv, RenewedInTime, HubTypes
  <2> QED BY <1>1, <2>1, <2>2, <2>3 DEF RegistryInv, RenewedInTime, Admitted
<1> QED BY <1>2, <1>3, <1>4 DEF RegistryInv

\* A process that dies takes its sessions with it, not their entries.
LEMMA CrashKeepsRegistry ==
  ASSUME RegistryInv, NEW p \in Process, Crash(p)
  PROVE  RegistryInv'
<1>1. /\ HubTypes /\ UNCHANGED age /\ up' = up \ {p}
      /\ faults' = faults + 1 /\ faults' \in 0..MaxFaults
  BY HubAssumption DEF RegistryInv, Crash, Fault, HubTypes
<1>2. HubTypes' /\ EntriesFit' /\ NothingLeaks'
  BY <1>1, HubAssumption DEF RegistryInv, Crash, HubTypes, EntriesFit, Counted, NothingLeaks,
                             None
<1>3. RenewedInTime'
  <2>1. /\ faults * RenewEvery \in Nat
        /\ faults' * RenewEvery = faults * RenewEvery + RenewEvery
    BY <1>1, LostRenewals DEF HubTypes
  <2>2. /\ \A s \in Session : stage'[s] = IF Home[s] = p THEN "over" ELSE stage[s]
        /\ \A q \in Process : /\ renewing'[q] = IF q = p THEN {} ELSE renewing[q]
                              /\ since'[q] = IF q = p THEN 0 ELSE since[q]
    BY <1>1 DEF Crash, HubTypes
  <2>3. \A s \in Session : since[Home[s]] \in Nat /\ age[s] \in Nat /\ Home[s] \in Process
    BY <1>1, HubAssumption DEF HubTypes, None
  <2> QED BY <1>1, <2>1, <2>2, <2>3, HubAssumption DEF RegistryInv, RenewedInTime, Admitted
<1> QED BY <1>2, <1>3 DEF RegistryInv

\* An admitted socket is counted, so there are no more of them than the cap.
LEMMA CountedAreCapped == RegistryInv => LiveWithinCap
<1> SUFFICES ASSUME RegistryInv PROVE LiveWithinCap
  OBVIOUS
<1>1. faults * RenewEvery \in Nat /\ faults * RenewEvery + RenewEvery < Ttl
  BY LostRenewals DEF RegistryInv, HubTypes
<1>2. \A s \in Session : since[Home[s]] \in 0..RenewEvery /\ age[s] \in Nat
  BY HubAssumption DEF RegistryInv, HubTypes, None
<1>3. \A s \in Session : Admitted(s) => age[s] < Ttl
  BY <1>1, <1>2, HubAssumption DEF RegistryInv, RenewedInTime
<1>4. {s \in Session : stage[s] \in {"admitted", "live"}} \subseteq Counted
  BY <1>3 DEF Counted, Admitted
<1>5. /\ Cardinality({s \in Session : stage[s] \in {"admitted", "live"}}) <= Cardinality(Counted)
      /\ Cardinality({s \in Session : stage[s] \in {"admitted", "live"}}) \in Nat
      /\ Cardinality(Counted) \in Nat /\ Cardinality(Counted) <= Cap
  BY <1>4, FewerCount DEF RegistryInv, EntriesFit, Counted
<1> QED BY <1>3, <1>5, HubAssumption DEF LiveWithinCap, Admitted

\* RegistryInv is inductive, whatever is lost: for any number of processes, sessions and
\* faults that the entry's life allows for.
THEOREM RegistryInvariant == HubSpec => []RegistryInv
<1>1. HubInit => RegistryInv
  <2> SUFFICES ASSUME HubInit PROVE RegistryInv
    OBVIOUS
  <2>1. HubTypes /\ RenewedInTime /\ NothingLeaks
    BY HubAssumption DEF HubInit, HubTypes, RenewedInTime, Admitted, NothingLeaks, None
  <2>2. Counted = {}
    BY HubAssumption DEF HubInit, Counted, None
  <2>3. EntriesFit
    BY <2>2, FS_EmptySet, HubAssumption DEF HubInit, EntriesFit
  <2> QED BY <2>1, <2>3 DEF RegistryInv
<1>2. RegistryInv /\ [HubNext]_hubVars => RegistryInv'
  <2> SUFFICES ASSUME RegistryInv, [HubNext]_hubVars PROVE RegistryInv'
    OBVIOUS
  <2>1. ASSUME NEW s \in Session, Register(s) \/ Acquire(s) \/ Release(s)
        PROVE  RegistryInv'
    BY <2>1, RegisterKeepsRegistry, AcquireKeepsRegistry, ReleaseKeepsRegistry
  <2>2. ASSUME NEW p \in Process, RenewStart(p) \/ RenewEnd(p) \/ Crash(p)
        PROVE  RegistryInv'
    BY <2>2, RenewStartKeepsRegistry, RenewEndKeepsRegistry, CrashKeepsRegistry
  <2> QED BY <2>1, <2>2, TickKeepsRegistry, RegistryUntouched DEF HubNext
<1> QED BY <1>1, <1>2, PTL DEF HubSpec

\* ConnectionHub's cap: a live socket is always counted in Redis, so a user never has more
\* than Cap of them, over all processes.
THEOREM CapHolds == HubSpec => []LiveWithinCap
BY RegistryInvariant, CountedAreCapped, PTL

\* However a session ended, unregister released its entry, unless a call or the process
\* was lost.
THEOREM EntriesAreReleased == HubSpec => []NothingLeaks
<1>1. RegistryInv => NothingLeaks
  BY DEF RegistryInv
<1> QED BY <1>1, RegistryInvariant, PTL

-----------------------------------------------------------------------------
(* ConnectionHub: the outboxes.                                            *)

\* NoSilentGap of one session, entry by entry.
Continues(s) ==
  /\ \A i \in 1..Len(wire[s]) : wire[s][i] = first[s] + i
  /\ s \in routed \cap boxes \cap open =>
       Len(wire[s]) + InHand(s) + Len(queue[s]) = pos[Home[s]] - first[s]

SessionOk(s) == InOrder(s) /\ Continues(s)

\* A sequence is the run of numbers its entries say it is.
LEMMA RunOfNumbers ==
  ASSUME NEW w \in Seq(Nat), NEW f \in Nat
  PROVE  w = [i \in 1..Len(w) |-> f + i] <=> \A i \in 1..Len(w) : w[i] = f + i
<1>1. w = [i \in 1..Len(w) |-> w[i]]
  OBVIOUS
<1> QED BY <1>1

\* The outboxes are in order and without a gap when every session's is.
LEMMA EverySession ==
  /\ OutboxTypes => (OutboxInv <=> \A s \in Session : SessionOk(s))
  /\ OutboxTypes' => (OutboxInv' <=> \A s \in Session : SessionOk(s)')
<1>1. ASSUME OutboxTypes PROVE NoSilentGap <=> \A s \in Session : Continues(s)
  <2>1. \A s \in Session : wire[s] \in Seq(Nat) /\ first[s] \in Nat
    BY <1>1 DEF OutboxTypes
  <2> QED BY <2>1, RunOfNumbers DEF NoSilentGap, Continues, InHand
<1>2. ASSUME OutboxTypes' PROVE NoSilentGap' <=> \A s \in Session : Continues(s)'
  <2>1. \A s \in Session : wire'[s] \in Seq(Nat) /\ first'[s] \in Nat
    BY <1>2 DEF OutboxTypes
  <2> QED BY <2>1, RunOfNumbers DEF NoSilentGap, Continues, InHand
<1> QED BY <1>1, <1>2 DEF OutboxInv, OutboxesInOrder, SessionOk

\* What one more payload on the wire does to it.
LEMMA OneMoreSent ==
  ASSUME NEW w \in Seq(Nat), NEW f \in Nat, NEW x \in Nat, x = f + Len(w) + 1,
         \A i \in 1..Len(w) : w[i] = f + i
  PROVE  /\ Append(w, x) \in Seq(Nat) /\ Len(Append(w, x)) = Len(w) + 1
         /\ \A i \in 1..Len(Append(w, x)) : Append(w, x)[i] = f + i
<1>1. /\ Append(w, x) \in Seq(Nat) /\ Len(Append(w, x)) = Len(w) + 1 /\ Len(w) \in Nat
      /\ Append(w, x)[Len(w) + 1] = x
      /\ \A i \in 1..Len(w) : Append(w, x)[i] = w[i]
  BY AppendProperties
<1>2. ASSUME NEW i \in 1..Len(Append(w, x)) PROVE Append(w, x)[i] = f + i
  <2>1. CASE i \in 1..Len(w)
    BY <1>1, <2>1
  <2>2. CASE i = Len(w) + 1
    BY <1>1, <2>2
  <2> QED BY <1>1, <1>2, <2>1, <2>2
<1> QED BY <1>1, <1>2

\* A session whose outbox and wire stay; its socket may close, its routing go.
LEMMA SessionStays ==
  ASSUME NEW s \in Session, SessionOk(s), OutboxTypes,
         wire'[s] = wire[s], first'[s] = first[s], sending'[s] = sending[s],
         queue'[s] = queue[s], pos'[Home[s]] = pos[Home[s]],
         s \in boxes' <=> s \in boxes, s \in open' => s \in open,
         s \in routed' => s \in routed,
         stage'[s] \in {"new", "admitted"} => stage[s] \in {"new", "admitted"}
  PROVE  SessionOk(s)'
BY DEF SessionOk, InOrder, Continues, InHand

\* A session whose outbox is closed: the sender may have written what it held.
LEMMA SessionCloses ==
  ASSUME NEW s \in Session, SessionOk(s), OutboxTypes,
         \/ wire'[s] = wire[s]
         \/ /\ s \in boxes \cap open /\ sending[s] # 0
            /\ wire'[s] = Append(wire[s], sending[s]),
         first'[s] = first[s], sending'[s] = 0, queue'[s] = <<>>,
         s \notin boxes', s \in routed' => s \in routed,
         stage'[s] \in {"new", "admitted"} => stage[s] \in {"new", "admitted"}
  PROVE  SessionOk(s)'
<1>1. wire[s] \in Seq(Nat) /\ first[s] \in Nat /\ sending[s] \in Nat
  BY DEF OutboxTypes
<1>2. CASE wire'[s] = wire[s]
  BY <1>2 DEF SessionOk, InOrder, Continues
<1>3. CASE /\ s \in boxes \cap open /\ sending[s] # 0
           /\ wire'[s] = Append(wire[s], sending[s])
  <2>1. sending[s] = first[s] + Len(wire[s]) + 1 /\ stage[s] \notin {"new", "admitted"}
    BY <1>3 DEF SessionOk, InOrder
  <2>2. \A i \in 1..Len(wire'[s]) : wire'[s][i] = first[s] + i
    <3>1. \A i \in 1..Len(wire[s]) : wire[s][i] = first[s] + i
      BY DEF SessionOk, Continues
    <3> QED BY <1>1, <1>3, <2>1, <3>1, OneMoreSent
  <2> QED BY <2>1, <2>2 DEF InOrder, Continues, SessionOk
<1> QED BY <1>2, <1>3

\* A session that is over has nothing any more.
LEMMA SessionForgotten ==
  ASSUME NEW s \in Session, wire'[s] = <<>>, sending'[s] = 0, queue'[s] = <<>>,
         s \notin boxes', stage'[s] = "over"
  PROVE  SessionOk(s)'
BY DEF SessionOk, InOrder, Continues

\* Steps that leave every outbox and every wire alone.
LEMMA OutboxesStay ==
  ASSUME OutboxInv, HubTypes,
         \/ \E s \in Session : \/ Rejected(s) \/ Acquire(s) \/ SocketEnds(s) \/ Unregister(s)
                               \/ DrainDelay(s)
         \/ \E p \in Process : Disconnect(p) \/ Drain(p) \/ RenewStart(p) \/ RenewEnd(p)
         \/ Tick \/ UNCHANGED hubVars
  PROVE  OutboxInv'
<1>1. /\ UNCHANGED <<wire, first, sending, queue, pos, boxes>>
      /\ open' \subseteq open /\ routed' \subseteq routed
  BY DEF Rejected, Acquire, SocketEnds, Unregister, DrainDelay, Disconnect, Drain,
         RenewStart, RenewEnd, Tick, hubVars, local
<1>2. \A s \in Session : stage'[s] \in {"new", "admitted"} => stage[s] \in {"new", "admitted"}
  BY DEF Rejected, Acquire, SocketEnds, Unregister, DrainDelay, Disconnect, Drain,
         RenewStart, RenewEnd, Tick, hubVars, Goto, HubTypes
<1>3. OutboxTypes'
  <2>1. ASSUME NEW p \in Process, Disconnect(p) PROVE kick' \in [Process -> SUBSET Session]
    BY <2>1 DEF Disconnect, OutboxInv, OutboxTypes, Slots, Here
  <2>2. (\A p \in Process : ~Disconnect(p)) => kick' = kick
    BY DEF Rejected, Acquire, SocketEnds, Unregister, DrainDelay, Drain, RenewStart, RenewEnd,
           Tick, hubVars, local
  <2>3. kick' \in [Process -> SUBSET Session]
    BY <2>1, <2>2 DEF OutboxInv, OutboxTypes
  <2> QED BY <1>1, <2>3 DEF OutboxInv, OutboxTypes
<1>4. \A s \in Session : SessionOk(s)
  BY EverySession DEF OutboxInv
<1>5. \A s \in Session : SessionOk(s)'
  BY <1>1, <1>2, <1>4, SessionStays DEF OutboxInv
<1> QED BY <1>3, <1>5, EverySession

\* A session starts with an empty outbox, at the event its process is at.
LEMMA RegisterKeepsOutboxes ==
  ASSUME OutboxInv, HubTypes, NEW s \in Session, Register(s)
  PROVE  OutboxInv'
<1>1. \A t \in Session : SessionOk(t)
  BY EverySession DEF OutboxInv
<1>2. OutboxTypes'
  BY HubAssumption DEF Register, OutboxInv, OutboxTypes
<1>3. ASSUME NEW t \in Session, t # s PROVE SessionOk(t)'
  BY <1>1, <1>3, SessionStays DEF Register, Goto, OutboxInv, OutboxTypes, HubTypes
<1>4. SessionOk(s)'
  <2>1. wire[s] = <<>> /\ queue[s] = <<>> /\ sending[s] = 0 /\ pos[Home[s]] \in Nat
    BY <1>1, HubAssumption DEF Register, SessionOk, InOrder, OutboxInv, OutboxTypes
  <2>2. /\ wire'[s] = <<>> /\ queue'[s] = <<>> /\ sending'[s] = 0 /\ stage'[s] = "live"
        /\ s \in boxes' /\ first'[s] = pos[Home[s]] /\ pos'[Home[s]] = pos[Home[s]]
    BY <2>1 DEF Register, Goto, HubTypes, OutboxInv, OutboxTypes
  <2> QED BY <2>1, <2>2 DEF SessionOk, InOrder, Continues, InHand
<1> QED BY <1>2, <1>3, <1>4, EverySession

\* What _close_outbox does to the session and to the others.
LEMMA OutboxCloses ==
  ASSUME OutboxInv, HubTypes, NEW s \in Session, CloseOutbox(s),
         UNCHANGED <<stage, open, first, pos>>, routed' \subseteq routed,
         kick' \in [Process -> SUBSET Session]
  PROVE  OutboxInv'
<1>1. \A t \in Session : SessionOk(t)
  BY EverySession DEF OutboxInv
<1>2. /\ \/ wire' = wire
         \/ /\ s \in boxes \cap open /\ sending[s] # 0
            /\ wire' = [wire EXCEPT ![s] = Append(@, sending[s])]
      /\ boxes' = boxes \ {s} /\ queue' = [queue EXCEPT ![s] = <<>>]
      /\ sending' = [sending EXCEPT ![s] = 0]
  BY DEF CloseOutbox
<1>3. Append(wire[s], sending[s]) \in Seq(Nat)
  BY AppendProperties DEF OutboxInv, OutboxTypes
<1>4. OutboxTypes'
  <2>1. wire' \in [Session -> Seq(Nat)]
    BY <1>2, <1>3 DEF OutboxInv, OutboxTypes
  <2>2. queue' \in [Session -> Seq(Nat)] /\ sending' \in [Session -> Nat]
    BY <1>2 DEF OutboxInv, OutboxTypes
  <2> QED BY <2>1, <2>2 DEF OutboxInv, OutboxTypes
<1>5. ASSUME NEW t \in Session, t # s PROVE SessionOk(t)'
  BY <1>1, <1>2, <1>5, SessionStays DEF OutboxInv, OutboxTypes
<1>6. SessionOk(s)'
  BY <1>1, <1>2, SessionCloses DEF OutboxInv, OutboxTypes
<1> QED BY <1>4, <1>5, <1>6, EverySession

\* disconnect_user and the end of a drain close an outbox.
LEMMA ClosingKeepsOutboxes ==
  ASSUME OutboxInv, HubTypes,
         (\E s \in Session : DrainCut(s)) \/ (\E p \in Process : KickOne(p))
  PROVE  OutboxInv'
<1>1. ASSUME NEW s \in Session, DrainCut(s) PROVE OutboxInv'
  BY <1>1, OutboxCloses DEF DrainCut, OutboxInv, OutboxTypes
<1>2. ASSUME NEW p \in Process, KickOne(p) PROVE OutboxInv'
  <2>1. PICK s \in kick[p] : kick' = [kick EXCEPT ![p] = @ \ {s}] /\ CloseOutbox(s)
    BY <1>2 DEF KickOne
  <2>2. s \in Session /\ kick' \in [Process -> SUBSET Session]
    BY <2>1 DEF OutboxInv, OutboxTypes
  <2> QED BY <1>2, <2>1, <2>2, OutboxCloses DEF KickOne
<1> QED BY <1>1, <1>2

\* A release and a crash leave nothing of a session.
LEMMA ForgettingKeepsOutboxes ==
  ASSUME OutboxInv, HubTypes, NEW gone \in SUBSET Session, Forget(gone),
         boxes' = boxes \ gone, open' \subseteq open, routed' \subseteq routed, pos' = pos,
         \A s \in Session : stage'[s] = IF s \in gone THEN "over" ELSE stage[s]
  PROVE  OutboxInv'
<1>1. \A t \in Session : SessionOk(t)
  BY EverySession DEF OutboxInv
<1>2. OutboxTypes'
  BY DEF Forget, OutboxInv, OutboxTypes
<1>3. ASSUME NEW t \in Session, t \notin gone PROVE SessionOk(t)'
  BY <1>1, <1>3, SessionStays DEF Forget, OutboxInv
<1>4. ASSUME NEW t \in Session, t \in gone PROVE SessionOk(t)'
  BY <1>4, SessionForgotten DEF Forget
<1> QED BY <1>2, <1>3, <1>4, EverySession

\* The sender takes what comes next.
LEMMA TakeKeepsOutboxes ==
  ASSUME OutboxInv, HubTypes, NEW s \in Session, Take(s)
  PROVE  OutboxInv'
<1>1. \A t \in Session : SessionOk(t)
  BY EverySession DEF OutboxInv
<1>2. /\ queue[s] \in Seq(Nat) /\ queue[s] # <<>> /\ sending[s] = 0 /\ s \in boxes
      /\ wire[s] \in Seq(Nat) /\ first[s] \in Nat
  BY DEF Take, OutboxInv, OutboxTypes
<1>3. /\ Head(queue[s]) \in Nat /\ Head(queue[s]) = queue[s][1]
      /\ Tail(queue[s]) \in Seq(Nat) /\ Len(Tail(queue[s])) = Len(queue[s]) - 1
      /\ \A i \in 1..Len(Tail(queue[s])) : Tail(queue[s])[i] = queue[s][i + 1]
      /\ Len(queue[s]) \in Nat /\ Len(queue[s]) >= 1
  BY <1>2, HeadTailProperties
<1>4. OutboxTypes'
  BY <1>3 DEF Take, OutboxInv, OutboxTypes
<1>5. ASSUME NEW t \in Session, t # s PROVE SessionOk(t)'
  BY <1>1, <1>5, SessionStays DEF Take, OutboxInv, OutboxTypes
<1>6. SessionOk(s)'
  <2>1. /\ queue'[s] = Tail(queue[s]) /\ sending'[s] = Head(queue[s])
        /\ UNCHANGED <<wire, first, boxes, open, routed, stage, pos>>
    BY DEF Take, OutboxInv, OutboxTypes
  <2>2. stage[s] \notin {"new", "admitted"}
    BY <1>1, <1>2 DEF SessionOk, InOrder
  <2>3. ASSUME s \in open
        PROVE  /\ sending'[s] = first[s] + Len(wire[s]) + 1 /\ sending'[s] # 0
               /\ \A i \in 1..Len(queue'[s]) : queue'[s][i] = first[s] + Len(wire[s]) + 1 + i
    <3>1. \A i \in 1..Len(queue[s]) : queue[s][i] = first[s] + Len(wire[s]) + i
      BY <1>1, <1>2, <2>3 DEF SessionOk, InOrder, InHand
    <3>2. Len(wire[s]) \in Nat
      BY <1>2
    <3>3. sending'[s] = first[s] + Len(wire[s]) + 1
      BY <1>3, <2>1, <3>1
    <3>4. ASSUME NEW i \in 1..Len(queue'[s])
          PROVE  queue'[s][i] = first[s] + Len(wire[s]) + 1 + i
      <4>1. i \in Nat /\ i + 1 \in 1..Len(queue[s]) /\ queue'[s][i] = queue[s][i + 1]
        BY <1>3, <2>1, <3>4
      <4>2. queue[s][i + 1] = first[s] + Len(wire[s]) + (i + 1)
        BY <3>1, <4>1
      <4>3. first[s] + Len(wire[s]) + (i + 1) = first[s] + Len(wire[s]) + 1 + i
        <5> DEFINE f == first[s]
                   w == Len(wire[s])
        <5>1. f \in Nat /\ w \in Nat /\ i \in Nat
          BY <1>2, <3>2, <4>1
        <5>2. f + w + (i + 1) = f + w + 1 + i
          <6> HIDE DEF f, w
          <6> QED BY <5>1
        <5> QED BY <5>2
      <4> QED BY <4>1, <4>2, <4>3
    <3> QED BY <1>2, <3>2, <3>3, <3>4
  <2>4. InOrder(s)'
    BY <1>2, <2>1, <2>2, <2>3 DEF InOrder, InHand
  <2>5. Continues(s)'
    <3>1. ASSUME s \in routed \cap open
          PROVE  Len(wire[s]) + 1 + Len(queue'[s]) = pos[Home[s]] - first[s]
      <4>1. Len(wire[s]) + 0 + Len(queue[s]) = pos[Home[s]] - first[s]
        BY <1>1, <1>2, <3>1 DEF SessionOk, Continues, InHand
      <4>2. Len(wire[s]) \in Nat /\ Len(queue'[s]) = Len(queue[s]) - 1
        BY <1>2, <1>3, <2>1
      <4> DEFINE w == Len(wire[s])
                 k == Len(queue[s])
                 n == pos[Home[s]] - first[s]
      <4>3. w \in Nat /\ k \in Nat /\ w + 0 + k = n /\ Len(queue'[s]) = k - 1
        BY <1>3, <4>1, <4>2
      <4>4. w + 1 + (k - 1) = n
        <5> HIDE DEF w, k, n
        <5> QED BY <4>3
      <4> QED BY <4>3, <4>4
    <3>2. s \in open => InHand(s)' = 1
      BY <2>3 DEF InHand
    <3> QED BY <1>1, <2>1, <3>1, <3>2 DEF SessionOk, Continues
  <2> QED BY <2>4, <2>5 DEF SessionOk
<1> QED BY <1>4, <1>5, <1>6, EverySession

\* What was written is the next number; a dead socket gets nothing and stays dead.
LEMMA SentKeepsOutboxes ==
  ASSUME OutboxInv, HubTypes, NEW s \in Session, Sent(s)
  PROVE  OutboxInv'
<1>1. \A t \in Session : SessionOk(t)
  BY EverySession DEF OutboxInv
<1>2. /\ queue[s] \in Seq(Nat) /\ sending[s] \in Nat /\ sending[s] # 0 /\ s \in boxes
      /\ wire[s] \in Seq(Nat) /\ first[s] \in Nat
  BY DEF Sent, OutboxInv, OutboxTypes
<1>3. Append(wire[s], sending[s]) \in Seq(Nat)
  BY <1>2, AppendProperties
<1>4. OutboxTypes'
  BY <1>3 DEF Sent, OutboxInv, OutboxTypes
<1>5. ASSUME NEW t \in Session, t # s PROVE SessionOk(t)'
  BY <1>1, <1>5, SessionStays DEF Sent, OutboxInv, OutboxTypes
<1>6. SessionOk(s)'
  <2>1. /\ wire'[s] = IF s \in open THEN Append(wire[s], sending[s]) ELSE wire[s]
        /\ sending'[s] = 0
        /\ UNCHANGED <<queue, first, boxes, open, routed, stage, pos>>
    BY DEF Sent, OutboxInv, OutboxTypes
  <2>2. stage[s] \notin {"new", "admitted"}
    BY <1>1, <1>2 DEF SessionOk, InOrder
  <2>3. CASE s \notin open
    <3>1. wire'[s] = wire[s]
      BY <2>1, <2>3
    <3>2. InOrder(s)'
      BY <1>2, <2>1, <2>2, <2>3 DEF InOrder
    <3>3. Continues(s)
      BY <1>1 DEF SessionOk
    <3>4. Continues(s)'
      BY <2>1, <2>3, <3>1, <3>3 DEF Continues
    <3> QED BY <3>2, <3>4 DEF SessionOk
  <2>4. CASE s \in open
    <3>1. sending[s] = first[s] + Len(wire[s]) + 1
      BY <1>1, <1>2, <2>4 DEF SessionOk, InOrder
    <3>2. /\ wire'[s] \in Seq(Nat) /\ Len(wire'[s]) = Len(wire[s]) + 1
          /\ \A i \in 1..Len(wire'[s]) : wire'[s][i] = first[s] + i
      <4>1. \A i \in 1..Len(wire[s]) : wire[s][i] = first[s] + i
        BY <1>1 DEF SessionOk, Continues
      <4>2. wire'[s] = Append(wire[s], sending[s])
        BY <2>1, <2>4
      <4> DEFINE w == wire[s]
                 f == first[s]
                 x == sending[s]
      <4>3. /\ w \in Seq(Nat) /\ f \in Nat /\ x \in Nat /\ x = f + Len(w) + 1
            /\ \A i \in 1..Len(w) : w[i] = f + i
        BY <1>2, <3>1, <4>1
      <4>4. /\ Append(w, x) \in Seq(Nat) /\ Len(Append(w, x)) = Len(w) + 1
            /\ \A i \in 1..Len(Append(w, x)) : Append(w, x)[i] = f + i
        <5> HIDE DEF w, f, x
        <5> QED BY <4>3, OneMoreSent
      <4> QED BY <4>2, <4>4
    <3>3. \A i \in 1..Len(queue[s]) : queue[s][i] = first[s] + Len(wire[s]) + 1 + i
      BY <1>1, <1>2, <2>4 DEF SessionOk, InOrder, InHand
    <3>4. Len(wire[s]) \in Nat /\ Len(queue[s]) \in Nat
      BY <1>2
    <3>5. InHand(s) = 1 /\ InHand(s)' = 0
      BY <1>2, <2>1 DEF InHand
    <3>6. \A i \in 1..Len(queue'[s]) :
            queue'[s][i] = first'[s] + Len(wire'[s]) + InHand(s)' + i
      <4> SUFFICES ASSUME NEW i \in 1..Len(queue[s])
                   PROVE  queue[s][i] = first[s] + (Len(wire[s]) + 1) + 0 + i
        BY <2>1, <3>2, <3>5
      <4> DEFINE f == first[s]
                 w == Len(wire[s])
      <4>1. f \in Nat /\ w \in Nat /\ i \in Nat /\ queue[s][i] = f + w + 1 + i
        BY <1>2, <3>3, <3>4
      <4>2. f + w + 1 + i = f + (w + 1) + 0 + i
        <5> HIDE DEF f, w
        <5> QED BY <4>1
      <4> QED BY <4>1, <4>2
    <3>7. InOrder(s)'
      BY <1>2, <2>1, <2>2, <3>6 DEF InOrder
    <3>8. ASSUME s \in routed
          PROVE  Len(wire'[s]) + InHand(s)' + Len(queue'[s]) = pos'[Home[s]] - first'[s]
      <4>1. Len(wire[s]) + 1 + Len(queue[s]) = pos[Home[s]] - first[s]
        BY <1>1, <1>2, <2>4, <3>5, <3>8 DEF SessionOk, Continues
      <4> DEFINE w == Len(wire[s])
                 k == Len(queue[s])
                 n == pos[Home[s]] - first[s]
      <4>2. w \in Nat /\ k \in Nat /\ w + 1 + k = n
        BY <3>4, <4>1
      <4>3. (w + 1) + 0 + k = n
        <5> HIDE DEF w, k, n
        <5> QED BY <4>2
      <4> QED BY <2>1, <3>2, <3>5, <4>3
    <3>9. Continues(s)'
      BY <2>1, <3>2, <3>8 DEF Continues
    <3> QED BY <3>7, <3>9 DEF SessionOk
  <2> QED BY <2>3, <2>4
<1> QED BY <1>4, <1>5, <1>6, EverySession

\* A notification goes to every outbox that has room; the others are closed.
LEMMA NotifyKeepsOutboxes ==
  ASSUME OutboxInv, HubTypes, NEW p \in Process, Notify(p)
  PROVE  OutboxInv'
<1> DEFINE to == {s \in Here(p) : s \in routed \cap boxes}
           slow == {s \in Here(p) : Full(s)}
<1>1. \A t \in Session : SessionOk(t)
  BY EverySession DEF OutboxInv
<1>2. /\ UNCHANGED <<stage, open, first, kick>>
      /\ routed' = routed \ slow /\ boxes' = boxes \ slow
      /\ pos \in [Process -> Nat] /\ pos' = [pos EXCEPT ![p] = @ + 1]
      /\ \A s \in Session : sending'[s] = IF s \in slow THEN 0 ELSE sending[s]
      /\ sending' \in [Session -> Nat]
  BY DEF Notify, Overflow, OutboxInv, OutboxTypes
<1>3. \A s \in Session : s \in slow <=> s \in to /\ ~ (Len(queue[s]) < QueueSize)
  <2>1. \A s \in Session : Len(queue[s]) \in Nat
    BY DEF OutboxInv, OutboxTypes
  <2> QED BY <2>1, HubAssumption DEF Full, Here
<1>4. \A s \in Session :
        /\ s \in to \ slow => queue'[s] = Append(queue[s], pos[p] + 1)
        /\ s \in slow => queue'[s] = <<>>
        /\ s \notin to => queue'[s] = queue[s]
  BY <1>2, <1>3 DEF Notify
<1>5. PICK out \in SUBSET slow :
        /\ \A s \in out : sending[s] # 0 /\ s \in open \cap boxes
        /\ wire' = [s \in Session |-> IF s \in out THEN Append(wire[s], sending[s])
                                      ELSE wire[s]]
  BY DEF Notify, Full
<1>6. to \subseteq Session /\ \A s \in Session : s \in to <=> Home[s] = p /\ s \in routed \cap boxes
  BY DEF Here
<1> HIDE DEF to, slow
<1>7. OutboxTypes'
  <2>1. \A s \in Session : queue'[s] \in Seq(Nat) /\ wire'[s] \in Seq(Nat)
    <3>1. \A s \in Session : /\ queue[s] \in Seq(Nat) /\ wire[s] \in Seq(Nat)
                             /\ sending[s] \in Nat /\ pos[p] + 1 \in Nat
      BY DEF OutboxInv, OutboxTypes
    <3>2. \A s \in Session : /\ Append(queue[s], pos[p] + 1) \in Seq(Nat)
                             /\ Append(wire[s], sending[s]) \in Seq(Nat)
      BY <3>1, AppendProperties
    <3>3. ASSUME NEW s \in Session PROVE wire'[s] \in Seq(Nat)
      BY <1>5, <3>1, <3>2
    <3>4. ASSUME NEW s \in Session PROVE queue'[s] \in Seq(Nat)
      <4>1. CASE s \in slow
        <5>1. <<>> \in Seq(Nat)
          OBVIOUS
        <5> QED BY <1>4, <4>1, <5>1
      <4>2. CASE s \in to \ slow
        BY <1>4, <3>2, <4>2
      <4>3. CASE s \notin to
        BY <1>4, <3>1, <4>3
      <4> QED BY <4>1, <4>2, <4>3
    <3> QED BY <3>3, <3>4
  <2>2. /\ queue' = [s \in Session |-> queue'[s]] /\ wire' = [s \in Session |-> wire'[s]]
        /\ pos' \in [Process -> Nat]
    BY <1>2, <1>5 DEF Notify
  <2> QED BY <1>2, <2>1, <2>2 DEF OutboxInv, OutboxTypes
<1>8. ASSUME NEW s \in Session PROVE SessionOk(s)'
  <2>1. CASE s \in slow
    BY <1>1, <1>2, <1>4, <1>5, <2>1, SessionCloses DEF OutboxInv
  <2>2. CASE s \notin slow /\ s \notin to /\ Home[s] # p
    BY <1>1, <1>2, <1>4, <1>5, <2>2, HubAssumption, SessionStays DEF OutboxInv
  <2>3. CASE s \notin slow /\ s \notin to /\ Home[s] = p
    <3>1. ~ (s \in routed' \cap boxes')
      BY <1>2, <1>6, <2>3
    <3>2. /\ wire'[s] = wire[s] /\ queue'[s] = queue[s] /\ sending'[s] = sending[s]
          /\ s \in boxes' <=> s \in boxes
      BY <1>2, <1>4, <1>5, <2>3
    <3>3. InOrder(s)'
      BY <1>1, <1>2, <3>2 DEF SessionOk, InOrder, InHand
    <3>4. Continues(s)'
      BY <1>1, <1>2, <3>1, <3>2 DEF SessionOk, Continues
    <3> QED BY <3>3, <3>4 DEF SessionOk
  <2>4. CASE s \in to \ slow
    <3>1. /\ queue[s] \in Seq(Nat) /\ wire[s] \in Seq(Nat) /\ first[s] \in Nat
          /\ Len(queue[s]) \in Nat /\ Len(wire[s]) \in Nat /\ pos[p] \in Nat
          /\ InHand(s) \in Nat
      BY DEF OutboxInv, OutboxTypes, InHand
    <3>2. /\ s \in routed \cap boxes /\ Home[s] = p /\ stage[s] \notin {"new", "admitted"}
          /\ s \in boxes' /\ s \in routed'
      BY <1>1, <1>2, <1>6, <2>4 DEF SessionOk, InOrder
    <3>3. /\ wire'[s] = wire[s] /\ sending'[s] = sending[s] /\ first'[s] = first[s]
          /\ queue'[s] = Append(queue[s], pos[p] + 1) /\ pos'[p] = pos[p] + 1
          /\ InHand(s)' = InHand(s) /\ stage'[s] = stage[s] /\ (s \in open' <=> s \in open)
      BY <1>2, <1>4, <1>5, <2>4 DEF InHand
    <3>4. /\ Len(queue'[s]) = Len(queue[s]) + 1
          /\ \A i \in 1..Len(queue[s]) : queue'[s][i] = queue[s][i]
          /\ queue'[s][Len(queue[s]) + 1] = pos[p] + 1
      BY <3>1, <3>3, AppendProperties
    <3>5. CASE s \notin open
      BY <1>1, <3>2, <3>3, <3>5 DEF SessionOk, InOrder, Continues
    <3>6. CASE s \in open
      <4>1. Len(wire[s]) + InHand(s) + Len(queue[s]) = pos[p] - first[s]
        BY <1>1, <3>2, <3>6 DEF SessionOk, Continues
      <4>2. \A i \in 1..Len(queue[s]) : queue[s][i] = first[s] + Len(wire[s]) + InHand(s) + i
        BY <1>1, <3>2, <3>6 DEF SessionOk, InOrder
      <4>3. /\ pos[p] + 1 = first[s] + Len(wire[s]) + InHand(s) + (Len(queue[s]) + 1)
            /\ Len(wire[s]) + InHand(s) + (Len(queue[s]) + 1) = (pos[p] + 1) - first[s]
        <5> DEFINE w == Len(wire[s])
                   h == InHand(s)
                   k == Len(queue[s])
                   n == pos[p]
                   f == first[s]
        <5>1. w \in Nat /\ h \in Nat /\ k \in Nat /\ n \in Nat /\ f \in Nat /\ w + h + k = n - f
          BY <3>1, <4>1
        <5>2. n + 1 = f + w + h + (k + 1) /\ w + h + (k + 1) = (n + 1) - f
          <6> HIDE DEF w, h, k, n, f
          <6> QED BY <5>1
        <5> QED BY <5>2
      <4>4. \A i \in 1..Len(queue'[s]) :
              queue'[s][i] = first[s] + Len(wire[s]) + InHand(s) + i
        <5> SUFFICES ASSUME NEW i \in 1..Len(queue'[s])
                     PROVE  queue'[s][i] = first[s] + Len(wire[s]) + InHand(s) + i
          OBVIOUS
        <5>1. CASE i \in 1..Len(queue[s])
          BY <3>4, <4>2, <5>1
        <5>2. CASE i = Len(queue[s]) + 1
          <6>1. pos[p] + 1 = first[s] + Len(wire[s]) + InHand(s) + (Len(queue[s]) + 1)
            BY <4>3
          <6> QED BY <3>4, <5>2, <6>1
        <5> QED BY <3>1, <3>4, <5>1, <5>2
      <4>5. InOrder(s)'
        BY <1>1, <3>2, <3>3, <3>6, <4>4 DEF SessionOk, InOrder
      <4>6. Len(wire'[s]) + InHand(s)' + Len(queue'[s]) = pos'[p] - first'[s]
        BY <3>3, <3>4, <4>3
      <4> QED BY <1>1, <3>2, <3>3, <4>5, <4>6 DEF SessionOk, Continues
    <3> QED BY <3>5, <3>6
  <2> QED BY <2>1, <2>2, <2>3, <2>4
<1> QED BY <1>7, <1>8, EverySession

\* OutboxInv is inductive: notifications, evictions, disconnects, drains and crashes, for
\* any number of sessions, any queue size and any number of events.
THEOREM OutboxInvariant == HubSpec => []OutboxInv
<1>1. HubInit => OutboxInv
  <2> SUFFICES ASSUME HubInit PROVE OutboxInv
    OBVIOUS
  <2>1. OutboxTypes
    BY DEF HubInit, OutboxTypes
  <2>2. \A s \in Session : SessionOk(s)
    BY DEF HubInit, SessionOk, InOrder, Continues
  <2> QED BY <2>1, <2>2, EverySession
<1>2. HubTypes /\ OutboxInv /\ [HubNext]_hubVars => OutboxInv'
  <2> SUFFICES ASSUME HubTypes, OutboxInv, [HubNext]_hubVars PROVE OutboxInv'
    OBVIOUS
  <2>1. ASSUME NEW s \in Session, Release(s) PROVE OutboxInv'
    BY <2>1, ForgettingKeepsOutboxes DEF Release, Goto, HubTypes
  <2>2. ASSUME NEW p \in Process, Crash(p) PROVE OutboxInv'
    <3>1. Here(p) \in SUBSET Session /\ \A s \in Session : s \in Here(p) <=> Home[s] = p
      BY DEF Here
    <3> QED BY <2>2, <3>1, ForgettingKeepsOutboxes DEF Crash
  <2>3. ASSUME NEW s \in Session, Register(s) \/ Take(s) \/ Sent(s) \/ DrainCut(s)
        PROVE  OutboxInv'
    BY <2>3, RegisterKeepsOutboxes, TakeKeepsOutboxes, SentKeepsOutboxes, ClosingKeepsOutboxes
  <2>4. ASSUME NEW p \in Process, Notify(p) \/ KickOne(p) PROVE OutboxInv'
    BY <2>4, NotifyKeepsOutboxes, ClosingKeepsOutboxes
  <2> QED BY <2>1, <2>2, <2>3, <2>4, OutboxesStay DEF HubNext
<1>3. RegistryInv => HubTypes
  BY DEF RegistryInv
<1> QED BY <1>1, <1>2, <1>3, RegistryInvariant, PTL DEF HubSpec

\* What a peer gets is what was notified since it registered, in order and without a hole,
\* and a session that is still served misses nothing.
THEOREM NoGapIsSilent == HubSpec => []NoSilentGap
<1>1. OutboxInv => NoSilentGap
  BY DEF OutboxInv
<1> QED BY <1>1, OutboxInvariant, PTL
=============================================================================
