--------------------------- MODULE BlobCacheProofs --------------------------
(***************************************************************************)
(* The safety invariants of BlobCache, for any requests, keys, permits and *)
(* budget and any number of restarts.                                      *)
(*                                                                         *)
(* Four parts, each with an invariant of its own: types and permits        *)
(* (Sound); which put has which file open, whose key it is and how far it  *)
(* got (FilesInv); who stores a member's photo (FewStore); and the order   *)
(* of the files the eviction goes through (EvictInv).                      *)
(***************************************************************************)
EXTENDS BlobCache, FiniteSetTheorems, TLAPS

Ages == {<<>>} \cup UNION {[names -> Nat] : names \in SUBSET Names}

Evictions ==
    [at : {"due", "listed", "removing", "done", "aborted"}, listed : SUBSET Names,
     age : Ages, scanned : Nat, removed : Nat]

(* Only avatar_downloads is waited for, and only user_avatar_bytes looks    *)
(* into the cache again.                                                   *)
OnlyAvatarsWait ==
    \A r \in Requests :
        /\ req[r] = "wait" => r \in Avatars
        /\ req[r] = "recheck" => r \in Users

Types == TypeOK /\ evict \in Evictions /\ OnlyAvatarsWait

-----------------------------------------------------------------------------
(* Permits.  Every step but Restart moves at most one request, so Holders  *)
(* gains or loses at most that one.                                        *)

LEMMA Finite ==
    /\ IsFiniteSet(Requests) /\ IsFiniteSet(Holders) /\ IsFiniteSet(Names)
    /\ \A T \in SUBSET Requests : IsFiniteSet(T) /\ Cardinality(T) \in Nat
    /\ \A T \in SUBSET Names : IsFiniteSet(T) /\ Cardinality(T) \in Nat
<1>1. IsFiniteSet(Requests) /\ IsFiniteSet(Keys)
    BY RequestsAssumption
<1>2. IsFiniteSet({"bin", "tmp"})
    <2>1. {"bin", "tmp"} = {"bin"} \cup {"tmp"}
        OBVIOUS
    <2>2. IsFiniteSet({"bin"})
        BY FS_Singleton
    <2>3. IsFiniteSet({"bin"} \cup {"tmp"})
        BY <2>2, FS_AddElement
    <2> QED BY <2>1, <2>3
<1>3. IsFiniteSet(Names)
    BY <1>1, <1>2, FS_Product DEF Names
<1>4. Holders \in SUBSET Requests
    BY RequestsAssumption DEF Holders, Avatars
<1> QED BY <1>1, <1>3, <1>4, FS_Subset, FS_CardinalityType

LEMMA RequestIsAvatarOrMedia ==
    /\ Avatars \subseteq Requests
    /\ \A r \in Requests : r \in Media \/ r \in Avatars
    /\ Users \subseteq Avatars
BY RequestsAssumption DEF Avatars

LEMMA ModificationTimes ==
    ASSUME mtime \in [Requests -> Nat], NEW i
    PROVE  /\ Without(i) \in [Requests -> Nat]
           /\ Touched(i) \in [Requests -> Nat]
<1>1. Without(i) \in [Requests -> Nat]
    BY DEF Without
<1>2. Cardinality(Ranked(Without(i))) \in Nat
    BY Finite DEF Ranked
<1>3. 1 + Cardinality(Ranked(Without(i))) \in Nat
    BY <1>2
<1> QED BY <1>1, <1>3 DEF Touched

(* The moves of a request between the stages that hold a permit.           *)
LEMMA PermitTaken ==
    ASSUME Types, PermitsConserved, NEW r \in Avatars, NEW stage \in {"recheck", "download"},
           req[r] = "wait", permits > 0,
           permits' = permits - 1, req' = [req EXCEPT ![r] = stage]
    PROVE  PermitsConserved' /\ permits' \in 0 .. Permits
<1>1. r \in Requests
    BY RequestIsAvatarOrMedia
<1>2. Holders' = Holders \cup {r} /\ r \notin Holders
    BY <1>1, RequestIsAvatarOrMedia DEF Holders, Writing, Types, TypeOK
<1>3. Cardinality(Holders') = Cardinality(Holders) + 1
    BY <1>2, Finite, FS_AddElement
<1>4. Cardinality(Holders) \in Nat
    BY Finite, FS_CardinalityType
<1> QED BY <1>3, <1>4, LimitsAssumption DEF PermitsConserved, Types, TypeOK

LEMMA PermitKept ==
    ASSUME Types, PermitsConserved, NEW r \in Requests, NEW stage \in Stages,
           \/ r \in Holders /\ stage \in {"download"} \cup Writing
           \/ r \in Media
           \/ r \notin Holders /\ stage \in {"new", "wait"} \cup Ends,
           permits' = permits, req' = [req EXCEPT ![r] = stage]
    PROVE  PermitsConserved' /\ permits' \in 0 .. Permits
<1>1. Holders' = Holders
    BY RequestsAssumption, RequestIsAvatarOrMedia
       DEF Holders, Writing, Ends, Types, TypeOK, Avatars
<1> QED BY <1>1 DEF PermitsConserved, Types, TypeOK

LEMMA PermitGivenBack ==
    ASSUME Types, PermitsConserved, NEW r \in Requests, NEW end \in Ends, End(r, end)
    PROVE  PermitsConserved' /\ permits' \in 0 .. Permits
<1>0. end \in Stages
    BY DEF Stages
<1>1. CASE r \in Holders
    <2>1. Holders' = Holders \ {r}
        BY <1>1, RequestIsAvatarOrMedia DEF Holders, Writing, Ends, End, Types, TypeOK
    <2>2. Cardinality(Holders') = Cardinality(Holders) - 1
        BY <1>1, <2>1, Finite, FS_RemoveElement
    <2>3. Cardinality(Holders) \in Nat /\ Cardinality(Holders') \in Nat
        BY <2>1, Finite, FS_CardinalityType, FS_RemoveElement
    <2>4. permits' = permits + 1
        BY <1>1 DEF End
    <2> QED BY <2>2, <2>3, <2>4, LimitsAssumption DEF PermitsConserved, Types, TypeOK
<1>2. CASE r \notin Holders
    BY <1>0, <1>2, PermitKept DEF End
<1> QED BY <1>1, <1>2

-----------------------------------------------------------------------------
(* The type invariant and the permits hold each other up: permits stay in  *)
(* their range because each is free or has a holder.                       *)

Sound == Types /\ PermitsConserved

LEMMA InitSound == ASSUME Init PROVE Sound
<1>1. Holders = {}
    BY RequestIsAvatarOrMedia DEF Init, Holders, Writing
<1>2. PermitsConserved
    BY <1>1, FS_EmptySet, LimitsAssumption DEF Init, PermitsConserved
<1>3. NoScan \in Evictions
    BY DEF NoScan, Evictions, Ages
<1>4. TypeOK
    BY LimitsAssumption, TogetherAssumption
       DEF Init, TypeOK, NoScan, Stages, Ends, NotSeen
<1>5. OnlyAvatarsWait
    BY DEF Init, OnlyAvatarsWait
<1> QED BY <1>2, <1>3, <1>4, <1>5 DEF Sound, Types, Init

LEMMA StepWaits ==
    ASSUME Types, NEW r \in Requests, Step(r)
    PROVE  OnlyAvatarsWait'
<1>1. PICK stage : /\ req' = [req EXCEPT ![r] = stage]
                   /\ stage = "wait" => r \in Avatars
                   /\ stage = "recheck" => r \in Users
    BY DEF Step, Hit, Undecryptable, Miss, Acquire, NoClient, DownloadFails, PutOpen, PutWrite,
           PutFails, PutRename, PutRenameFails, End
<1> QED BY <1>1 DEF OnlyAvatarsWait, Types, TypeOK

(* What a step of a request changes besides the permits is of its type.    *)
LEMMA StepTypes ==
    ASSUME Types, NEW r \in Requests, Step(r), permits' \in 0 .. Permits
    PROVE  Types'
<1> USE StepWaits DEF Types
<1>0. KeyOf[r] \in Keys /\ r # None
    BY RequestsAssumption, NoneAssumption
<1>1. CASE Hit(r)
    <2>1. mtime' \in [Requests -> Nat]
        BY <1>1, ModificationTimes DEF Hit, TypeOK
    <2> QED BY <1>1, <2>1 DEF Hit, End, TypeOK, Stages, Ends, NotSeen, Evictions
<1>2. CASE Undecryptable(r) \/ NoClient(r) \/ DownloadFails(r)
    BY <1>2 DEF Undecryptable, NoClient, DownloadFails, End, files, TypeOK, Stages, Ends, Evictions
<1>3. CASE Miss(r)
    BY <1>3 DEF Miss, files, TypeOK, Stages, Working, Evictions
<1>4. CASE Acquire(r)
    BY <1>4 DEF Acquire, files, TypeOK, Stages, Working, Evictions
<1>5. CASE PutOpen(r)
    <2> DEFINE i == IF tmp[KeyOf[r]] = None THEN r ELSE tmp[KeyOf[r]]
    <2>1. i \in Requests
        BY <1>0 DEF TypeOK
    <2>2. mtime' \in [Requests -> Nat]
        BY <1>5, ModificationTimes DEF PutOpen, TypeOK
    <2>3. /\ tmp' = [tmp EXCEPT ![KeyOf[r]] = i] /\ fd' = [fd EXCEPT ![r] = i]
          /\ bytes' = [bytes EXCEPT ![i] = "torn"]
        BY <1>5 DEF PutOpen
    <2> HIDE DEF i
    <2>4. /\ tmp' \in [Keys -> Requests \cup {None}] /\ fd' \in [Requests -> Requests \cup {None}]
          /\ bytes' \in [Requests -> {"torn", "whole"}]
        BY <2>1, <2>3 DEF TypeOK
    <2> QED BY <1>0, <1>5, <2>2, <2>4 DEF PutOpen, TypeOK, Stages, Working, NotSeen, Evictions
<1>6. CASE PutWrite(r)
    <2>1. mtime' \in [Requests -> Nat]
        BY <1>6, ModificationTimes DEF PutWrite, TypeOK
    <2> QED BY <1>6, <2>1 DEF PutWrite, TypeOK, Stages, Working, NotSeen, Evictions
<1>7. CASE PutFails(r) \/ PutRenameFails(r)
    BY <1>7 DEF PutFails, PutRenameFails, End, files, TypeOK, Stages, Ends, Evictions
<1>8. CASE PutRename(r)
    <2>1. mtime' \in [Requests -> Nat]
        BY <1>8, ModificationTimes DEF PutRename, TypeOK
    <2> QED BY <1>0, <1>8, <2>1 DEF PutRename, End, TypeOK, Stages, Ends, NotSeen, Evictions
<1> QED BY <1>1, <1>2, <1>3, <1>4, <1>5, <1>6, <1>7, <1>8 DEF Step

LEMMA StepPermits ==
    ASSUME Sound, NEW r \in Requests, Step(r)
    PROVE  PermitsConserved' /\ permits' \in 0 .. Permits
<1> USE DEF Sound
<1>1. CASE \E end \in Ends : End(r, end)
    BY <1>1, PermitGivenBack
<1>2. CASE Miss(r)
    <2>1. PICK stage \in {"wait", "download"} :
            /\ req' = [req EXCEPT ![r] = stage] /\ permits' = permits
            /\ stage = IF req[r] = "new" /\ r \in Avatars THEN "wait" ELSE "download"
        BY <1>2 DEF Miss, Types, TypeOK
    <2>2. req[r] \in {"new", "recheck"}
        BY <1>2 DEF Miss, Asks
    <2>3. r \in Holders <=> r \in Avatars /\ req[r] = "recheck"
        BY <2>2 DEF Holders, Writing
    <2> QED BY <2>1, <2>2, <2>3, PermitKept, RequestIsAvatarOrMedia DEF Stages, Working, Ends
<1>3. CASE Acquire(r)
    <2>1. CASE r \in Avatars
        BY <1>3, <2>1, PermitTaken DEF Acquire
    <2> QED BY <1>3, <2>1 DEF Acquire, Types, OnlyAvatarsWait
<1>4. CASE PutOpen(r) \/ PutWrite(r)
    <2>1. PICK stage \in Writing : req' = [req EXCEPT ![r] = stage]
        BY <1>4 DEF PutOpen, PutWrite, Writing
    <2>2. permits' = permits /\ req[r] \in {"download"} \cup Writing
        BY <1>4 DEF PutOpen, PutWrite, Writing
    <2>3. r \in Avatars => r \in Holders
        BY <2>2 DEF Holders
    <2> QED BY <2>1, <2>2, <2>3, PermitKept, RequestIsAvatarOrMedia DEF Stages, Working, Writing
<1> QED BY <1>1, <1>2, <1>3, <1>4
        DEF Step, Hit, Undecryptable, NoClient, DownloadFails, PutFails, PutRename,
            PutRenameFails, Ends

LEMMA EvictionSound == ASSUME Sound, Eviction PROVE Sound'
<1> USE DEF Sound, Types
<1>1. req' = req /\ permits' = permits /\ crashes' = crashes
    BY DEF Eviction, EvictList, EvictStat, EvictAborts, EvictRemove, EvictDone
<1>2. PermitsConserved'
    BY <1>1 DEF PermitsConserved, Holders
<1>3. evict' \in Evictions
    <2>0. <<>> \in Ages /\ Present \subseteq Names
        BY DEF Ages, Present
    <2>1. CASE EvictList \/ EvictAborts
        <3>1. NoScan \in Evictions
            BY <2>0 DEF NoScan, Evictions
        <3> QED BY <2>0, <2>1, <3>1 DEF EvictList, EvictAborts, Evictions
    <2>2. CASE EvictStat
        <3>1. [name \in evict.listed |-> mtime[Bound(name)]] \in Ages
            <4>1. \A name \in evict.listed : mtime[Bound(name)] \in Nat
                BY <2>2 DEF EvictStat, Present, TypeOK, Bound, Names
            <4> QED BY <4>1 DEF Ages, TypeOK
        <3>2. Cardinality(evict.listed) \in Nat
            BY Finite DEF TypeOK
        <3> QED BY <2>2, <3>1, <3>2 DEF EvictStat, Evictions
    <2>3. CASE EvictRemove
        <3>1. PICK name :
                evict' = IF name \in Present
                         THEN [evict EXCEPT !.listed = @ \ {name}, !.removed = @ + 1]
                         ELSE [evict EXCEPT !.listed = @ \ {name}]
            BY <2>3 DEF EvictRemove
        <3>2. evict.listed \ {name} \in SUBSET Names /\ evict.removed + 1 \in Nat
            BY DEF Evictions
        <3> QED BY <3>1, <3>2 DEF Evictions
    <2>4. CASE EvictDone
        BY <2>0, <2>4 DEF EvictDone, Evictions
    <2> QED BY <2>1, <2>2, <2>3, <2>4 DEF Eviction
<1>4. mtime' \in [Requests -> Nat] /\ seen' \in [Requests -> Nat] \cup {NotSeen}
    <2>1. CASE EvictRemove
        BY <2>1, ModificationTimes DEF EvictRemove, TypeOK
    <2>2. CASE EvictList \/ EvictStat \/ EvictAborts \/ EvictDone
        BY <2>2 DEF EvictList, EvictStat, EvictAborts, EvictDone, files, TypeOK
    <2> QED BY <2>1, <2>2 DEF Eviction
<1>5. /\ fd' = fd /\ bytes' = bytes /\ shared' = shared /\ lost' \subseteq Keys
      /\ bin' \in [Keys -> Requests \cup {None}] /\ tmp' \in [Keys -> Requests \cup {None}]
    <2>1. CASE EvictRemove
        BY <2>1 DEF EvictRemove, OldestFirst, TypeOK, Names
    <2>2. CASE EvictList \/ EvictStat \/ EvictAborts \/ EvictDone
        BY <2>2 DEF EvictList, EvictStat, EvictAborts, EvictDone, files, TypeOK
    <2> QED BY <2>1, <2>2 DEF Eviction
<1>6. TypeOK'
    BY <1>1, <1>3, <1>4, <1>5 DEF TypeOK, Evictions
<1>7. OnlyAvatarsWait'
    BY <1>1 DEF OnlyAvatarsWait
<1> QED BY <1>2, <1>3, <1>6, <1>7

LEMMA RestartSound == ASSUME Sound, Restart PROVE Sound'
<1> USE DEF Sound, Types
<1>1. Holders' = {}
    BY RequestIsAvatarOrMedia DEF Restart, Holders, Writing, Working, TypeOK
<1>2. PermitsConserved'
    BY <1>1, FS_EmptySet, LimitsAssumption DEF Restart, PermitsConserved
<1>3. evict' \in Evictions
    BY DEF Restart, NoScan, Evictions, Ages
<1>4. req' \in [Requests -> Stages]
    BY DEF Restart, TypeOK, Stages, Ends
<1>5. TypeOK'
    BY <1>3, <1>4, LimitsAssumption DEF Restart, TypeOK, files, Evictions
<1>6. OnlyAvatarsWait'
    BY DEF Restart, OnlyAvatarsWait, TypeOK
<1> QED BY <1>2, <1>3, <1>5, <1>6

LEMMA NextSound == ASSUME Sound, [Next]_vars PROVE Sound'
<1>1. ASSUME NEW r \in Requests, Step(r) PROVE Sound'
    BY <1>1, StepPermits, StepTypes DEF Sound
<1>2. CASE UNCHANGED vars
    BY <1>2 DEF vars, files, Sound, Types, TypeOK, PermitsConserved, Holders, OnlyAvatarsWait
<1> QED BY <1>1, <1>2, EvictionSound, RestartSound DEF Next

(* The type invariant: what put, evict and the services store stays of its *)
(* type.                                                                   *)
THEOREM TypeCorrect == Spec => []TypeOK
<1>1. Sound => TypeOK
    BY DEF Sound, Types
<1> QED BY <1>1, InitSound, NextSound, PTL DEF Spec

(* A permit is free or held by one running request, whichever way the      *)
(* requests before it ended.                                               *)
THEOREM PermitsAreConserved == Spec => []PermitsConserved
<1>1. Sound => PermitsConserved
    BY DEF Sound
<1> QED BY <1>1, InitSound, NextSound, PTL DEF Spec

-----------------------------------------------------------------------------
(* Files.  An inode belongs to one key and has one name at most, and the   *)
(* request it is named after is past opening it.                           *)

Past == Writing \cup Ends

Inodes ==
    /\ \A k \in Keys, i \in Requests :
        bin[k] = i \/ tmp[k] = i => KeyOf[i] = k /\ req[i] \in Past
    /\ \A r, i \in Requests : fd[r] = i => KeyOf[i] = KeyOf[r] /\ req[i] \in Past
    /\ \A r \in Requests : req[r] \in Writing <=> fd[r] # None
    /\ \A k \in Keys : bin[k] # None => bin[k] # tmp[k]

(* A put that shares its temporary file with nobody has it to itself, and  *)
(* has filled it when it comes to rename it.                               *)
Alone ==
    \A r \in Requests : KeyOf[r] \notin shared /\ req[r] \in Writing =>
        /\ Others(r) = {}
        /\ tmp[KeyOf[r]] \in {None, fd[r]}
        /\ bin[KeyOf[r]] # fd[r]
        /\ req[r] = "rename" => bytes[fd[r]] = "whole"

FilesInv == Inodes /\ Alone /\ TornOnlyIfShared

(* Those that will have fetched a key, if nothing fails.                   *)
Storing(k) ==
    {r \in Requests : KeyOf[r] = k /\ req[r] \in {"download", "fetched"} \cup Writing}

OfMembers == {k \in Keys : {r \in Requests : KeyOf[r] = k} \subseteq Users}

FewStore ==
    \A k \in OfMembers \ lost :
        /\ Cardinality(Storing(k)) <= Permits
        /\ bin[k] = None => Fetched(k) = {}

(* The modification times rank the inodes that have a name.                *)
Bounds == {Bound(name) : name \in Present}

Ranking(times) ==
    /\ \A i, j \in Ranked(times) : times[i] = times[j] => i = j
    /\ \A n \in Nat \ {0} :
        (\E i \in Requests : times[i] = n) <=> n <= Cardinality(Ranked(times))

(* How far an eviction that nothing disturbed has come.                    *)
Progress ==
    /\ evict.removed <= Excess
    /\ evict.at = "listed" => evict.removed = 0
    /\ seen # NotSeen =>
        /\ evict.at \in {"listed", "removing", "done"}
        /\ Ranking(seen)
        /\ evict.at = "listed" => evict.listed = Present /\ mtime = seen
        /\ evict.at = "removing" =>
            /\ evict.listed = Present
            /\ \A name \in Present : evict.age[name] = seen[Bound(name)]
            /\ Bounds = {i \in Requests : seen[i] > evict.removed}
        /\ evict.at \in {"removing", "done"} => evict.scanned = Cardinality(Ranked(seen))

-----------------------------------------------------------------------------
(* The files under the steps of a put.                                     *)

LEMMA InitFiles == ASSUME Init PROVE FilesInv
<1>1. \A r \in Requests : r # None /\ KeyOf[r] \in Keys
    BY RequestsAssumption, NoneAssumption
<1> QED BY <1>1 DEF Init, FilesInv, Inodes, Alone, TornOnlyIfShared, Writing

(* A request that has no file open moves.                                  *)
LEMMA FilesUntouched ==
    ASSUME Types, FilesInv, NEW r \in Requests, NEW stage, stage \notin Writing,
           req[r] \notin Past, req' = [req EXCEPT ![r] = stage],
           fd' = fd, bin' = bin, tmp' = tmp, bytes' = bytes, shared' = shared
    PROVE  FilesInv'
<1> USE DEF Types, TypeOK, FilesInv
<1>1. Inodes'
    BY DEF Inodes, Past
<1>2. Alone'
    BY DEF Alone, Others, Past
<1>3. TornOnlyIfShared'
    BY DEF TornOnlyIfShared
<1> QED BY <1>1, <1>2, <1>3

LEMMA PutOpenFiles ==
    ASSUME Types, FilesInv, NEW r \in Requests, PutOpen(r)
    PROVE  FilesInv'
<1> USE DEF Types, TypeOK, FilesInv
<1> DEFINE k == KeyOf[r]
           i == IF tmp[k] = None THEN r ELSE tmp[k]
<1>1. /\ k \in Keys /\ i \in Requests /\ i # None /\ r # None /\ KeyOf[i] = k
      /\ i = r \/ req[i] \in Past
    BY RequestsAssumption, NoneAssumption DEF Inodes
<1>2. /\ tmp' = [tmp EXCEPT ![k] = i] /\ fd' = [fd EXCEPT ![r] = i]
      /\ bytes' = [bytes EXCEPT ![i] = "torn"] /\ bin' = bin
      /\ req' = [req EXCEPT ![r] = "write"] /\ req[r] = "download"
      /\ shared' = IF Others(r) = {} THEN shared ELSE shared \cup {k}
    BY DEF PutOpen
<1>3. \A j \in Keys : bin[j] # i
    BY <1>1, <1>2 DEF Inodes, Past, Writing, Ends
<1>4. i = tmp[k] \/ i = r
    OBVIOUS
<1> HIDE DEF i, k
<1>5. Inodes'
    <2>1. req' \in [Requests -> {"write"} \cup Stages] /\ \A q \in Requests \ {r} : req'[q] = req[q]
        BY <1>2
    <2>2. req'[i] \in Past /\ req'[r] = "write"
        BY <1>1, <1>2 DEF Past, Writing
    <2> QED BY <1>1, <1>2, <1>3, <2>1, <2>2 DEF Inodes, k, Past, Writing
<1>6. Alone'
    <2> SUFFICES ASSUME NEW q \in Requests, KeyOf[q] \notin shared', req'[q] \in Writing
                 PROVE  /\ Others(q)' = {}
                        /\ tmp'[KeyOf[q]] \in {None, fd'[q]}
                        /\ bin'[KeyOf[q]] # fd'[q]
                        /\ req'[q] = "rename" => bytes'[fd'[q]] = "whole"
        BY DEF Alone
    <2>1. CASE q = r
        <3>1. Others(r) = {}
            BY <1>2, <2>1 DEF k
        <3>2. Others(r)' = {}
            BY <1>2, <3>1 DEF Others
        <3> QED BY <1>1, <1>2, <1>3, <2>1, <3>2 DEF k
    <2>2. CASE q # r
        <3>1. req'[q] = req[q] /\ fd'[q] = fd[q] /\ req[q] \in Writing
            BY <1>2, <2>2
        <3>2. KeyOf[q] # k
            <4>1. KeyOf[q] = k => Others(r) # {}
                BY <2>2, <3>1 DEF Others, k
            <4> QED BY <1>2, <4>1
        <3>3. fd[q] # i /\ fd[q] \in Requests
            BY <1>1, <3>1, <3>2, NoneAssumption DEF Inodes
        <3>4. KeyOf[q] \notin shared /\ KeyOf[q] \in Keys
            BY <1>2, RequestsAssumption
        <3>5. Others(q)' = {}
            BY <1>2, <3>1, <3>2, <3>4 DEF Alone, Others, k
        <3> QED BY <1>1, <1>2, <3>1, <3>2, <3>3, <3>4, <3>5 DEF Alone
    <2> QED BY <2>1, <2>2
<1>7. TornOnlyIfShared'
    BY <1>1, <1>2, <1>3 DEF TornOnlyIfShared
<1> QED BY <1>5, <1>6, <1>7

LEMMA PutWriteFiles ==
    ASSUME Types, FilesInv, NEW r \in Requests, PutWrite(r)
    PROVE  FilesInv'
<1> USE DEF Types, TypeOK, FilesInv
<1>1. /\ bytes' = [bytes EXCEPT ![fd[r]] = "whole"] /\ fd' = fd /\ bin' = bin /\ tmp' = tmp
      /\ req' = [req EXCEPT ![r] = "rename"] /\ req[r] = "write" /\ shared' = shared
    BY DEF PutWrite
<1>2. fd[r] \in Requests
    BY <1>1 DEF Inodes, Writing
<1>3. Inodes'
    BY <1>1 DEF Inodes, Past, Writing
<1>4. Alone'
    <2>1. \A q \in Requests : req'[q] \in Writing <=> req[q] \in Writing
        BY <1>1 DEF Writing
    <2>2. \A q \in Requests : Others(q)' = Others(q)
        BY <1>1, <2>1 DEF Others
    <2>3. \A q \in Requests : bytes[q] = "whole" => bytes'[q] = "whole"
        BY <1>1
    <2> QED BY <1>1, <1>2, <2>1, <2>2, <2>3 DEF Alone, Inodes
<1>5. TornOnlyIfShared'
    BY <1>1 DEF TornOnlyIfShared
<1> QED BY <1>3, <1>4, <1>5

(* Closing the file, renamed or not: the name of the put's key is bound to *)
(* what it was, or to nothing.                                             *)
LEMMA PutRenameFiles ==
    ASSUME Types, FilesInv, NEW r \in Requests, PutRename(r)
    PROVE  FilesInv'
<1> USE DEF Types, TypeOK, FilesInv
<1> DEFINE k == KeyOf[r]
<1>1. k \in Keys
    BY RequestsAssumption
<1>2. /\ bin' = [bin EXCEPT ![k] = tmp[k]] /\ tmp' = [tmp EXCEPT ![k] = None]
      /\ fd' = [fd EXCEPT ![r] = None] /\ bytes' = bytes /\ shared' = shared
      /\ req' = [req EXCEPT ![r] = "fetched"] /\ req[r] = "rename" /\ tmp[k] # None
    BY DEF PutRename, End
<1>3. Inodes'
    BY <1>1, <1>2, NoneAssumption DEF Inodes, Past, Writing, Ends
<1>4. k \notin shared => tmp[k] = fd[r] /\ bytes[tmp[k]] = "whole" /\ Others(r) = {}
    BY <1>2 DEF Alone, Writing
<1>5. Alone'
    <2> SUFFICES ASSUME NEW q \in Requests, KeyOf[q] \notin shared, req'[q] \in Writing
                 PROVE  /\ Others(q)' = {}
                        /\ tmp'[KeyOf[q]] \in {None, fd'[q]}
                        /\ bin'[KeyOf[q]] # fd'[q]
                        /\ req'[q] = "rename" => bytes'[fd'[q]] = "whole"
        BY <1>2 DEF Alone
    <2>1. q # r /\ req[q] = req'[q] /\ fd'[q] = fd[q]
        BY <1>2 DEF Writing
    <2>2. KeyOf[q] # k
        <3>1. KeyOf[q] = k => q \in Others(r)
            BY <2>1 DEF Others
        <3> QED BY <1>4, <3>1
    <2>3. Others(q) = {}
        BY <2>1 DEF Alone
    <2>4. Others(q)' = {}
        BY <1>2, <2>1, <2>3 DEF Others, Writing
    <2> QED BY <1>2, <2>1, <2>2, <2>4, RequestsAssumption DEF Alone
<1>6. TornOnlyIfShared'
    BY <1>1, <1>2, <1>4 DEF TornOnlyIfShared
<1> QED BY <1>3, <1>5, <1>6

LEMMA PutGivesUpFiles ==
    ASSUME Types, FilesInv, NEW r \in Requests, PutFails(r) \/ PutRenameFails(r)
    PROVE  FilesInv'
<1> USE DEF Types, TypeOK, FilesInv
<1>1. /\ bin' = bin /\ tmp' = tmp /\ fd' = [fd EXCEPT ![r] = None] /\ bytes' = bytes
      /\ shared' = shared /\ req' = [req EXCEPT ![r] = "over"] /\ req[r] \in Writing
    BY DEF PutFails, PutRenameFails, End, files, Writing
<1>2. Inodes'
    BY <1>1, NoneAssumption DEF Inodes, Past, Writing, Ends
<1>3. Alone'
    BY <1>1 DEF Alone, Others, Writing
<1>4. TornOnlyIfShared'
    BY <1>1 DEF TornOnlyIfShared
<1> QED BY <1>2, <1>3, <1>4

LEMMA EvictionFiles == ASSUME Types, FilesInv, Eviction PROVE FilesInv'
<1> USE DEF Types, TypeOK, FilesInv
<1>1. /\ req' = req /\ fd' = fd /\ bytes' = bytes /\ shared' = shared
      /\ \A k \in Keys : bin'[k] \in {bin[k], None} /\ tmp'[k] \in {tmp[k], None}
    BY DEF Eviction, EvictList, EvictStat, EvictAborts, EvictRemove, EvictDone, files
<1>2. Inodes'
    BY <1>1, NoneAssumption DEF Inodes
<1>3. Alone'
    <2>1. \A r \in Requests : Others(r)' = Others(r)
        BY <1>1 DEF Others
    <2>2. \A r \in Requests : req[r] \in Writing => fd[r] # None
        BY DEF Inodes
    <2> QED BY <1>1, <2>1, <2>2, RequestsAssumption DEF Alone
<1>4. TornOnlyIfShared'
    BY <1>1 DEF TornOnlyIfShared
<1> QED BY <1>2, <1>3, <1>4

LEMMA RestartFiles == ASSUME Types, FilesInv, Restart PROVE FilesInv'
<1> USE DEF Types, TypeOK, FilesInv
<1>1. /\ bin' = bin /\ tmp' = tmp /\ bytes' = bytes /\ shared' = shared
      /\ \A r \in Requests : fd'[r] = None /\ req'[r] \notin Writing
      /\ \A r \in Requests : req[r] \in Past => req'[r] \in Past
    BY DEF Restart, files, Working, Writing, Past, Ends
<1>2. Inodes'
    BY <1>1, NoneAssumption DEF Inodes
<1>3. Alone'
    BY <1>1 DEF Alone
<1>4. TornOnlyIfShared'
    BY <1>1 DEF TornOnlyIfShared
<1> QED BY <1>2, <1>3, <1>4

LEMMA NextFiles == ASSUME Types, FilesInv, [Next]_vars PROVE FilesInv'
<1>1. ASSUME NEW r \in Requests, Step(r) PROVE FilesInv'
    <2>1. CASE PutOpen(r) \/ PutWrite(r) \/ PutRename(r) \/ PutFails(r) \/ PutRenameFails(r)
        BY <2>1, PutOpenFiles, PutWriteFiles, PutRenameFiles, PutGivesUpFiles
    <2>2. CASE Hit(r) \/ Undecryptable(r) \/ Miss(r) \/ Acquire(r) \/ NoClient(r) \/ DownloadFails(r)
        <3>1. PICK stage : stage \notin Writing /\ req' = [req EXCEPT ![r] = stage]
            BY <2>2 DEF Hit, Undecryptable, Miss, Acquire, NoClient, DownloadFails, End, Writing
        <3>2. /\ req[r] \notin Past /\ fd' = fd /\ bin' = bin /\ tmp' = tmp /\ bytes' = bytes
              /\ shared' = shared
            BY <2>2 DEF Hit, Undecryptable, Miss, Acquire, NoClient, DownloadFails, Asks, files,
                        Past, Writing, Ends
        <3> QED BY <3>1, <3>2, FilesUntouched
    <2> QED BY <1>1, <2>1, <2>2 DEF Step
<1>2. CASE UNCHANGED vars
    BY <1>2 DEF vars, files, FilesInv, Inodes, Alone, TornOnlyIfShared, Others
<1> QED BY <1>1, <1>2, EvictionFiles, RestartFiles DEF Next

(* "Readers never observe a torn blob": true of every key whose temporary  *)
(* file two puts have not had open together.                               *)
THEOREM NoTornBlobUnlessShared == Spec => []TornOnlyIfShared
<1>1. Init => Sound /\ FilesInv
    BY InitSound, InitFiles
<1>2. Sound /\ FilesInv /\ [Next]_vars => (Sound /\ FilesInv)'
    BY NextSound, NextFiles DEF Sound
<1>3. FilesInv => TornOnlyIfShared
    BY DEF FilesInv
<1> QED BY <1>1, <1>2, <1>3, PTL DEF Spec

-----------------------------------------------------------------------------
(* Photos of members.  While a key has no file, everybody who is storing   *)
(* it holds a permit; once it has one, the second look at the cache keeps  *)
(* everybody else from joining them.                                       *)

LEMMA InitFewStore == ASSUME Init PROVE FewStore
<1>1. \A k \in Keys : Storing(k) = {} /\ Fetched(k) = {}
    BY DEF Init, Storing, Fetched, Writing
<1> QED BY <1>1, FS_EmptySet, LimitsAssumption DEF FewStore, OfMembers

LEMMA StoringHolds ==
    ASSUME Types', PermitsConserved', NEW k \in OfMembers, Fetched(k)' = {}
    PROVE  Cardinality(Storing(k)') <= Permits
<1>1. Storing(k)' \subseteq Holders'
    BY RequestIsAvatarOrMedia DEF Storing, Fetched, Holders, OfMembers
<1>2. Holders' \in SUBSET Requests
    BY RequestIsAvatarOrMedia DEF Holders
<1>3. Cardinality(Storing(k)') <= Cardinality(Holders')
    BY <1>1, <1>2, Finite, FS_Subset
<1>4. Cardinality(Storing(k)') \in Nat /\ Cardinality(Holders') \in Nat
    BY <1>1, <1>2, Finite
<1>5. permits' + Cardinality(Holders') = Permits /\ permits' \in Nat
    BY LimitsAssumption DEF PermitsConserved, Types, TypeOK
<1> QED BY <1>3, <1>4, <1>5, LimitsAssumption

LEMMA FewerStore ==
    ASSUME NEW k \in Keys, Storing(k)' \subseteq Storing(k), Cardinality(Storing(k)) <= Permits
    PROVE  Cardinality(Storing(k)') <= Permits
<1>1. Storing(k) \in SUBSET Requests /\ Storing(k)' \in SUBSET Requests
    BY DEF Storing
<1>2. Cardinality(Storing(k)') <= Cardinality(Storing(k))
    BY <1>1, Finite, FS_Subset
<1>3. Cardinality(Storing(k)') \in Nat /\ Cardinality(Storing(k)) \in Nat
    BY <1>1, Finite
<1> QED BY <1>2, <1>3, LimitsAssumption

LEMMA StepFewStore ==
    ASSUME Sound, Sound', FewStore, NEW r \in Requests, Step(r)
    PROVE  FewStore'
<1> USE DEF Sound, Types, TypeOK
<1> SUFFICES ASSUME NEW k \in OfMembers, k \notin lost'
             PROVE  /\ Cardinality(Storing(k)') <= Permits
                    /\ bin'[k] = None => Fetched(k)' = {}
    BY DEF FewStore, OfMembers
<1>1. PICK stage : req' = [req EXCEPT ![r] = stage]
    BY DEF Step, Hit, Undecryptable, Miss, Acquire, NoClient, DownloadFails, PutOpen, PutWrite,
           PutFails, PutRename, PutRenameFails, End
<1>2. /\ k \in Keys /\ lost' = lost
      /\ Cardinality(Storing(k)) <= Permits
      /\ bin[k] = None => Fetched(k) = {}
    BY DEF FewStore, OfMembers, Step, Hit, Undecryptable, Miss, Acquire, NoClient, DownloadFails,
           PutOpen, PutWrite, PutFails, PutRename, PutRenameFails
<1>3. CASE KeyOf[r] # k
    <2>1. Storing(k)' = Storing(k) /\ Fetched(k)' = Fetched(k)
        BY <1>1, <1>3 DEF Storing, Fetched
    <2>2. bin' = bin \/ bin' = [bin EXCEPT ![KeyOf[r]] = tmp[KeyOf[r]]]
        BY DEF Step, Hit, Undecryptable, Miss, Acquire, NoClient, DownloadFails,
               PutOpen, PutWrite, PutFails, PutRename, PutRenameFails, files
    <2>3. bin'[k] = bin[k]
        BY <1>2, <1>3, <2>2
    <2> QED BY <1>2, <2>1, <2>3
<1>4. CASE KeyOf[r] = k
    <2>0. r \in Users
        BY <1>4 DEF OfMembers
    <2>1. CASE Miss(r)
        <3>1. bin'[k] = None /\ Fetched(k)' = {}
            BY <1>2, <1>4, <2>0, <2>1, RequestsAssumption DEF Miss, NotFound, Fetched, files
        <3> QED BY <3>1, StoringHolds
    <2>2. CASE PutRename(r)
        <3>1. Storing(k)' \subseteq Storing(k)
            BY <2>2 DEF PutRename, End, Storing, Writing
        <3>2. bin'[k] # None
            BY <1>2, <1>4, <2>2 DEF PutRename
        <3> QED BY <1>2, <3>1, <3>2, FewerStore
    <2>3. CASE ~ Miss(r) /\ ~ PutRename(r)
        <3>1. bin' = bin
            BY <2>3 DEF Step, Hit, Undecryptable, Acquire, NoClient, DownloadFails,
               PutOpen, PutWrite, PutFails, PutRenameFails, files
        <3>2. stage # "fetched" /\ (req[r] \in {"download"} \cup Writing \/ stage \notin {"download"} \cup Writing)
            BY <1>1, <2>0, <2>3 DEF Step, Hit, Undecryptable, Acquire, NoClient, DownloadFails,
               PutOpen, PutWrite, PutFails, PutRenameFails, End, Writing
        <3>3. Storing(k)' \subseteq Storing(k) /\ Fetched(k)' \subseteq Fetched(k)
            BY <1>1, <3>2 DEF Storing, Fetched
        <3> QED BY <1>2, <3>1, <3>3, FewerStore
    <2> QED BY <2>1, <2>2, <2>3
<1> QED BY <1>3, <1>4

LEMMA NextFewStore == ASSUME Sound, Sound', FewStore, [Next]_vars PROVE FewStore'
<1> USE DEF Sound, Types, TypeOK
<1>1. CASE Eviction \/ UNCHANGED vars
    <2> SUFFICES ASSUME NEW k \in OfMembers, k \notin lost'
                 PROVE  /\ Cardinality(Storing(k)') <= Permits
                        /\ bin'[k] = None => Fetched(k)' = {}
        BY DEF FewStore, OfMembers
    <2>1. req' = req /\ lost \subseteq lost' /\ (bin'[k] = bin[k])
        <3>1. CASE EvictRemove
            <4>1. PICK name \in OldestFirst(evict.listed, evict.age) :
                    /\ bin' = IF name[1] = "bin" THEN [bin EXCEPT ![name[2]] = None] ELSE bin
                    /\ lost' = IF name \in Present THEN lost \cup {name[2]} ELSE lost
                BY <3>1 DEF EvictRemove
            <4>2. name \in Names /\ name[2] \in Keys
                BY DEF OldestFirst, Names
            <4>3. bin[name[2]] # None /\ name[1] = "bin" => name \in Present
                BY <4>2 DEF Present, Bound
            <4> QED BY <3>1, <4>1, <4>2, <4>3 DEF EvictRemove, OfMembers
        <3>2. CASE EvictList \/ EvictStat \/ EvictAborts \/ EvictDone \/ UNCHANGED vars
            BY <3>2 DEF EvictList, EvictStat, EvictAborts, EvictDone, files, vars
        <3> QED BY <1>1, <3>1, <3>2 DEF Eviction
    <2>2. Storing(k)' = Storing(k) /\ Fetched(k)' = Fetched(k)
        BY <2>1 DEF Storing, Fetched
    <2> QED BY <2>1, <2>2 DEF FewStore
<1>2. CASE Restart
    <2> SUFFICES ASSUME NEW k \in OfMembers, k \notin lost'
                 PROVE  /\ Cardinality(Storing(k)') <= Permits
                        /\ bin'[k] = None => Fetched(k)' = {}
        BY DEF FewStore, OfMembers
    <2>1. /\ Storing(k)' \subseteq Storing(k) /\ Fetched(k)' = Fetched(k)
          /\ bin' = bin /\ lost' = lost /\ k \in Keys
        BY <1>2 DEF Restart, Storing, Fetched, Working, Writing, files, OfMembers
    <2> QED BY <2>1, FewerStore DEF FewStore
<1> QED BY <1>1, <1>2, StepFewStore DEF Next

(* However many requests for a member's photo miss together, no more of    *)
(* them store it than there are permits.                                   *)
THEOREM PhotoIsFetchedOnce == Spec => []PhotoFetchedOnce
<1>1. Sound /\ FewStore => PhotoFetchedOnce
    <2> SUFFICES ASSUME FewStore, NEW k \in OfMembers, k \notin lost
                 PROVE  Cardinality(Fetched(k)) <= Permits
        BY DEF PhotoFetchedOnce, OfMembers
    <2>1. Fetched(k) \subseteq Storing(k) /\ Storing(k) \in SUBSET Requests
        BY DEF Fetched, Storing
    <2>2. /\ Cardinality(Fetched(k)) <= Cardinality(Storing(k))
          /\ Cardinality(Fetched(k)) \in Nat /\ Cardinality(Storing(k)) \in Nat
        BY <2>1, Finite, FS_Subset
    <2> QED BY <2>2, LimitsAssumption DEF FewStore
<1>2. Init => Sound /\ FewStore
    BY InitSound, InitFewStore
<1>3. Sound /\ FewStore /\ [Next]_vars => (Sound /\ FewStore)'
    BY NextSound, NextFewStore
<1> QED BY <1>1, <1>2, <1>3, PTL DEF Spec

-----------------------------------------------------------------------------
(* Modification times.  Taking a rank away closes the gap; giving one puts *)
(* it on top.                                                              *)

LEMMA RankTaken ==
    ASSUME mtime \in [Requests -> Nat], Ranking(mtime), NEW i
    PROVE  Ranked(Without(i)) = Ranked(mtime) \ {i} /\ Ranking(Without(i))
<1> DEFINE n == Cardinality(Ranked(mtime))
           w == Without(i)
<1>1. Ranked(mtime) \in SUBSET Requests /\ IsFiniteSet(Ranked(mtime)) /\ n \in Nat
    BY Finite DEF Ranked
<1>2. CASE i \notin Ranked(mtime)
    <2>1. w = mtime
        BY <1>2 DEF Without, Ranked
    <2> QED BY <1>2, <2>1
<1>3. CASE i \in Ranked(mtime)
    <2>1. i \in Requests /\ mtime[i] \in Nat \ {0}
        BY <1>3 DEF Ranked
    <2>2. /\ w \in [Requests -> Nat] /\ w[i] = 0
          /\ \A j \in Requests \ {i} :
                w[j] = IF mtime[j] > mtime[i] THEN mtime[j] - 1 ELSE mtime[j]
        BY <2>1, ModificationTimes DEF Without
    <2> HIDE DEF w
    <2>3. \A j \in Requests \ {i} : w[j] = 0 <=> mtime[j] = 0
        BY <2>1, <2>2
    <2>4. Ranked(w) = Ranked(mtime) \ {i}
        BY <2>2, <2>3 DEF Ranked
    <2>5. Cardinality(Ranked(w)) = n - 1
        BY <1>1, <1>3, <2>4, FS_RemoveElement
    <2>6. \A j \in Requests \ {i} : mtime[j] # 0 => mtime[j] # mtime[i]
        BY <2>1 DEF Ranking, Ranked
    <2>7. \A j, l \in Ranked(w) : w[j] = w[l] => j = l
        <3> SUFFICES ASSUME NEW j \in Ranked(w), NEW l \in Ranked(w), w[j] = w[l] PROVE j = l
            OBVIOUS
        <3>1. /\ j \in Requests \ {i} /\ l \in Requests \ {i}
              /\ j \in Ranked(mtime) /\ l \in Ranked(mtime) /\ mtime[j] # 0 /\ mtime[l] # 0
            BY <2>4 DEF Ranked
        <3>2. mtime[j] # mtime[i] /\ mtime[l] # mtime[i]
            BY <2>6, <3>1
        <3>3. mtime[j] = mtime[l]
            BY <2>1, <2>2, <3>1, <3>2
        <3> QED BY <3>1, <3>3 DEF Ranking
    <2>8. ASSUME NEW v \in Nat \ {0}
          PROVE  (\E j \in Requests : w[j] = v) <=> v <= n - 1
        <3>1. ASSUME NEW j \in Requests, w[j] = v PROVE v <= n - 1
            <4>1. j # i /\ mtime[j] \in Nat \ {0}
                BY <2>2, <2>3, <3>1
            <4>2. mtime[j] <= n /\ mtime[i] <= n
                BY <2>1, <4>1 DEF Ranking
            <4>3. mtime[j] # mtime[i]
                BY <2>6, <4>1
            <4> QED BY <1>1, <2>1, <2>2, <3>1, <4>1, <4>2, <4>3
        <3>2. ASSUME v <= n - 1 PROVE \E j \in Requests : w[j] = v
            <4>1. CASE v < mtime[i]
                <5>1. v <= n
                    BY <1>1, <3>2
                <5>2. PICK j \in Requests : mtime[j] = v
                    BY <5>1 DEF Ranking
                <5>3. j # i /\ w[j] = v
                    BY <2>1, <2>2, <4>1, <5>2
                <5> QED BY <5>3
            <4>2. CASE ~ (v < mtime[i])
                <5>1. v + 1 <= n /\ v + 1 \in Nat \ {0}
                    BY <1>1, <3>2
                <5>2. PICK j \in Requests : mtime[j] = v + 1
                    BY <5>1 DEF Ranking
                <5>3. j # i /\ w[j] = v
                    BY <2>1, <2>2, <4>2, <5>2
                <5> QED BY <5>3
            <4> QED BY <4>1, <4>2
        <3> QED BY <3>1, <3>2
    <2> QED BY <2>4, <2>5, <2>7, <2>8 DEF Ranking, w
<1> QED BY <1>2, <1>3

LEMMA RankGiven ==
    ASSUME mtime \in [Requests -> Nat], Ranking(mtime), NEW i \in Requests
    PROVE  Ranked(Touched(i)) = Ranked(mtime) \cup {i} /\ Ranking(Touched(i))
<1> DEFINE w == Without(i)
           n == Cardinality(Ranked(w))
           t == Touched(i)
<1>1. w \in [Requests -> Nat] /\ Ranked(w) = Ranked(mtime) \ {i} /\ Ranking(w)
    BY RankTaken, ModificationTimes
<1>2. Ranked(w) \in SUBSET Requests /\ IsFiniteSet(Ranked(w)) /\ n \in Nat
    BY Finite DEF Ranked
<1>3. t = [w EXCEPT ![i] = 1 + n] /\ w[i] = 0
    BY <1>1 DEF Touched, Ranked
<1>4. \A v \in Nat \ {0} : (\E j \in Requests : w[j] = v) <=> v <= n
    BY <1>1 DEF Ranking
<1> HIDE DEF w, t, n
<1>5. t \in [Requests -> Nat] /\ t[i] = n + 1 /\ \A j \in Requests \ {i} : t[j] = w[j]
    BY <1>1, <1>2, <1>3
<1>6. Ranked(t) = Ranked(w) \cup {i} /\ i \notin Ranked(w)
    BY <1>1, <1>2, <1>5 DEF Ranked
<1>7. Cardinality(Ranked(t)) = n + 1
    BY <1>2, <1>6, FS_AddElement DEF n
<1>8. \A j \in Ranked(w) : w[j] <= n
    BY <1>1, <1>4 DEF Ranked
<1>9. \A j, l \in Ranked(t) : t[j] = t[l] => j = l
    <2> SUFFICES ASSUME NEW j \in Ranked(t), NEW l \in Ranked(t), t[j] = t[l] PROVE j = l
        OBVIOUS
    <2>1. j \in Requests /\ l \in Requests
        BY DEF Ranked
    <2>2. CASE j # i /\ l # i
        BY <1>1, <1>5, <1>6, <2>1, <2>2 DEF Ranking
    <2>3. CASE j = i \/ l = i
        <3>1. \A q \in Ranked(w) : q # i /\ t[q] < n + 1
            BY <1>1, <1>2, <1>5, <1>6, <1>8 DEF Ranked
        <3> QED BY <1>2, <1>5, <1>6, <2>1, <2>3, <3>1
    <2> QED BY <2>2, <2>3
<1>10. ASSUME NEW v \in Nat \ {0} PROVE (\E j \in Requests : t[j] = v) <=> v <= n + 1
    <2>1. ASSUME NEW j \in Requests, t[j] = v PROVE v <= n + 1
        <3>1. CASE j = i
            BY <1>2, <1>5, <2>1, <3>1
        <3>2. CASE j # i
            BY <1>2, <1>4, <1>5, <2>1, <3>2
        <3> QED BY <3>1, <3>2
    <2>2. ASSUME v <= n + 1 PROVE \E j \in Requests : t[j] = v
        <3>1. CASE v = n + 1
            BY <1>5, <3>1
        <3>2. CASE v # n + 1
            <4>1. v <= n
                BY <1>2, <2>2, <3>2
            <4>2. PICK j \in Requests : w[j] = v
                BY <1>4, <4>1
            <4>3. j # i
                BY <1>3, <4>2
            <4> QED BY <1>5, <4>2, <4>3
        <3> QED BY <3>1, <3>2
    <2> QED BY <2>1, <2>2
<1> QED BY <1>1, <1>6, <1>7, <1>9, <1>10 DEF Ranking, t, w

-----------------------------------------------------------------------------
(* What has a rank is what has a name.                                     *)

Named(b, t) == {i \in Requests : \E k \in Keys : b[k] = i \/ t[k] = i}

LEMMA NameFacts ==
    ASSUME NEW k \in Keys
    PROVE  /\ <<"bin", k>> \in Names /\ <<"tmp", k>> \in Names
           /\ Bound(<<"bin", k>>) = bin[k] /\ Bound(<<"tmp", k>>) = tmp[k]
           /\ Bound(<<"bin", k>>)' = bin'[k] /\ Bound(<<"tmp", k>>)' = tmp'[k]
BY DEF Names, Bound

LEMMA BoundsAreNamed == ASSUME Types PROVE Bounds = Named(bin, tmp)
<1>1. Bounds \subseteq Named(bin, tmp)
    BY NoneAssumption DEF Bounds, Named, Present, Names, Bound, Types, TypeOK
<1>2. ASSUME NEW i \in Named(bin, tmp) PROVE i \in Bounds
    <2>1. PICK k \in Keys : bin[k] = i \/ tmp[k] = i
        BY DEF Named
    <2>2. i # None
        BY NoneAssumption DEF Named
    <2> QED BY <2>1, <2>2, NameFacts DEF Bounds, Present
<1> QED BY <1>1, <1>2

LEMMA BoundsAreNamedNext == ASSUME Types' PROVE Bounds' = Named(bin', tmp')
<1>1. Bounds' \subseteq Named(bin', tmp')
    BY NoneAssumption DEF Bounds, Named, Present, Names, Bound, Types, TypeOK
<1>2. ASSUME NEW i \in Named(bin', tmp') PROVE i \in Bounds'
    <2>1. PICK k \in Keys : bin'[k] = i \/ tmp'[k] = i
        BY DEF Named
    <2>2. i # None
        BY NoneAssumption DEF Named
    <2> QED BY <2>1, <2>2, NameFacts DEF Bounds, Present
<1> QED BY <1>1, <1>2

LEMMA OneName ==
    ASSUME Types, Inodes, NEW m \in Present, NEW n \in Present, Bound(m) = Bound(n)
    PROVE  m = n
<1> USE DEF Types, TypeOK
<1>1. PICK a \in {"bin", "tmp"}, k \in Keys : m = <<a, k>>
    BY DEF Present, Names
<1>2. PICK b \in {"bin", "tmp"}, l \in Keys : n = <<b, l>>
    BY DEF Present, Names
<1>3. Bound(m) \in Requests
    BY <1>1 DEF Present, Bound
<1>4. k = l
    BY <1>1, <1>2, <1>3 DEF Bound, Inodes
<1>5. bin[k] = None \/ bin[k] # tmp[k]
    BY DEF Inodes
<1>6. Bound(m) # None
    BY DEF Present
<1>7. a = b
    BY <1>1, <1>2, <1>4, <1>5, <1>6 DEF Bound
<1> QED BY <1>1, <1>2, <1>4, <1>7

Ranks == Ranked(mtime) = Bounds /\ Ranking(mtime)

(* A step that touches a named inode, or takes the last name of one.       *)
LEMMA RanksTouched ==
    ASSUME Types, Types', Ranks, NEW i \in Requests, mtime' = Touched(i),
           Named(bin', tmp') = Named(bin, tmp) \cup {i}
    PROVE  Ranks'
<1>1. mtime \in [Requests -> Nat]
    BY DEF Types, TypeOK
<1>2. Ranked(mtime)' = Ranked(mtime) \cup {i} /\ Ranking(mtime)'
    BY <1>1, RankGiven DEF Ranks, Ranked, Ranking
<1> QED BY <1>2, BoundsAreNamed, BoundsAreNamedNext DEF Ranks

LEMMA RanksTaken ==
    ASSUME Types, Types', Ranks, NEW i, mtime' = Without(i),
           Named(bin', tmp') = Named(bin, tmp) \ {i}
    PROVE  Ranks'
<1>1. mtime \in [Requests -> Nat]
    BY DEF Types, TypeOK
<1>2. Ranked(mtime)' = Ranked(mtime) \ {i} /\ Ranking(mtime)'
    BY <1>1, RankTaken DEF Ranks, Ranked, Ranking
<1> QED BY <1>2, BoundsAreNamed, BoundsAreNamedNext DEF Ranks

LEMMA RanksKept == ASSUME Ranks, UNCHANGED files PROVE Ranks'
BY DEF Ranks, Ranked, Ranking, Bounds, Present, Bound, files

LEMMA StepRanks ==
    ASSUME Types, Types', Inodes, Ranks, NEW r \in Requests, Step(r)
    PROVE  Ranks'
<1> USE DEF Types, TypeOK
<1> DEFINE k == KeyOf[r]
<1>0. k \in Keys /\ r # None
    BY RequestsAssumption, NoneAssumption
<1>1. CASE Hit(r)
    <2>1. bin[k] \in Named(bin, tmp) /\ bin' = bin /\ tmp' = tmp /\ mtime' = Touched(bin[k])
        BY <1>0, <1>1 DEF Hit, Named
    <2>2. bin[k] \in Requests /\ Named(bin', tmp') = Named(bin, tmp) \cup {bin[k]}
        BY <2>1 DEF Named
    <2> QED BY <2>1, <2>2, RanksTouched
<1>2. CASE PutOpen(r)
    <2> DEFINE i == IF tmp[k] = None THEN r ELSE tmp[k]
    <2>1. i \in Requests /\ (tmp[k] = None \/ tmp[k] = i)
        BY <1>0
    <2>2. bin' = bin /\ tmp' = [tmp EXCEPT ![k] = i] /\ mtime' = Touched(i)
        BY <1>2 DEF PutOpen
    <2> HIDE DEF i, k
    <2>3. Named(bin', tmp') = Named(bin, tmp) \cup {i}
        BY <1>0, <2>1, <2>2, NoneAssumption DEF Named
    <2> QED BY <2>1, <2>2, <2>3, RanksTouched
<1>3. CASE PutWrite(r)
    <2>1. bin' = bin /\ tmp' = tmp /\ bytes' = [bytes EXCEPT ![fd[r]] = "whole"]
          /\ mtime' = IF fd[r] \in Bounds THEN Touched(fd[r]) ELSE mtime
        BY <1>3 DEF PutWrite, Bounds
    <2>2. CASE fd[r] \in Bounds
        <3>1. fd[r] \in Named(bin, tmp)
            BY <2>2, BoundsAreNamed
        <3>2. fd[r] \in Requests /\ Named(bin', tmp') = Named(bin, tmp) \cup {fd[r]}
            BY <2>1, <3>1 DEF Named
        <3> QED BY <2>1, <2>2, <3>2, RanksTouched
    <2>3. CASE fd[r] \notin Bounds
        BY <2>1, <2>3 DEF Ranks, Ranked, Ranking, Bounds, Present, Bound
    <2> QED BY <2>2, <2>3
<1>4. CASE PutRename(r)
    <2>1. /\ bin' = [bin EXCEPT ![k] = tmp[k]] /\ tmp' = [tmp EXCEPT ![k] = None]
          /\ mtime' = Without(bin[k])
        BY <1>4 DEF PutRename
    <2> HIDE DEF k
    <2>2. ASSUME NEW i \in Requests
          PROVE  i \in Named(bin', tmp') <=> i \in Named(bin, tmp) /\ i # bin[k]
        <3>1. ASSUME i \in Named(bin', tmp') PROVE i \in Named(bin, tmp) /\ i # bin[k]
            <4>1. PICK l \in Keys : bin'[l] = i \/ tmp'[l] = i
                BY <3>1 DEF Named
            <4>2. CASE l = k
                <5>1. tmp[k] = i
                    BY <1>0, <2>1, <4>1, <4>2, NoneAssumption
                <5>2. bin[k] # i
                    BY <1>0, <5>1, NoneAssumption DEF Inodes
                <5> QED BY <1>0, <5>1, <5>2 DEF Named
            <4>3. CASE l # k
                <5>1. bin[l] = i \/ tmp[l] = i
                    BY <2>1, <4>1, <4>3
                <5>2. bin[k] # i
                    BY <1>0, <4>3, <5>1 DEF Inodes
                <5> QED BY <5>1, <5>2 DEF Named
            <4> QED BY <4>2, <4>3
        <3>2. ASSUME i \in Named(bin, tmp), i # bin[k] PROVE i \in Named(bin', tmp')
            <4>1. PICK l \in Keys : bin[l] = i \/ tmp[l] = i
                BY <3>2 DEF Named
            <4>2. bin'[l] = i \/ tmp'[l] = i
                BY <1>0, <2>1, <3>2, <4>1
            <4> QED BY <4>2 DEF Named
        <3> QED BY <3>1, <3>2
    <2>3. Named(bin', tmp') = Named(bin, tmp) \ {bin[k]}
        BY <2>2 DEF Named
    <2> QED BY <2>1, <2>3, RanksTaken
<1>5. CASE ~ (Hit(r) \/ PutOpen(r) \/ PutWrite(r) \/ PutRename(r))
    BY <1>5, RanksKept DEF Step, Undecryptable, Miss, Acquire, NoClient, DownloadFails, PutFails,
                           PutRenameFails
<1> QED BY <1>1, <1>2, <1>3, <1>4, <1>5

-----------------------------------------------------------------------------
(* The eviction removes one name after the other.                          *)

LEMMA NameRemoved ==
    ASSUME Types, Types', Inodes, NEW name \in Names,
           bin' = IF name[1] = "bin" THEN [bin EXCEPT ![name[2]] = None] ELSE bin,
           tmp' = IF name[1] = "tmp" THEN [tmp EXCEPT ![name[2]] = None] ELSE tmp
    PROVE  /\ Present' = Present \ {name}
           /\ \A other \in Names \ {name} : Bound(other)' = Bound(other)
           /\ Named(bin', tmp') = Named(bin, tmp) \ {Bound(name)}
<1> USE DEF Types, TypeOK
<1>1. PICK kind \in {"bin", "tmp"}, key \in Keys : name = <<kind, key>>
    BY DEF Names
<1>2. Bound(name)' = None
    BY <1>1 DEF Bound
<1>3. \A other \in Names \ {name} : Bound(other)' = Bound(other)
    BY <1>1 DEF Bound, Names
<1>4. Present' = Present \ {name}
    BY <1>2, <1>3 DEF Present
<1>5. Bounds' = Bounds \ {Bound(name)}
    <2>1. Bounds' \subseteq Bounds \ {Bound(name)}
        <3> SUFFICES ASSUME NEW i \in Bounds' PROVE i \in Bounds /\ i # Bound(name)
            OBVIOUS
        <3>1. PICK other \in Present' : i = Bound(other)'
            BY DEF Bounds
        <3>2. other \in Present /\ other # name /\ i = Bound(other)
            BY <1>3, <1>4, <3>1 DEF Present
        <3>3. i = Bound(name) => name \in Present
            BY <3>2 DEF Present
        <3> QED BY <3>2, <3>3, OneName DEF Bounds
    <2>2. ASSUME NEW i \in Bounds, i # Bound(name) PROVE i \in Bounds'
        <3>1. PICK other \in Present : i = Bound(other)
            BY DEF Bounds
        <3>2. other \in Present' /\ i = Bound(other)'
            BY <1>3, <1>4, <2>2, <3>1 DEF Present
        <3> QED BY <3>2 DEF Bounds
    <2> QED BY <2>1, <2>2
<1> QED BY <1>3, <1>4, <1>5, BoundsAreNamed, BoundsAreNamedNext

LEMMA ScanCounts ==
    ASSUME Types, Inodes PROVE Cardinality(Present) = Cardinality(Bounds)
<1> DEFINE f == [name \in Present |-> Bound(name)]
<1>1. IsFiniteSet(Present)
    BY Finite DEF Present
<1>2. f \in Bijection(Present, Bounds)
    <2>1. f \in [Present -> Bounds] /\ \A b \in Bounds : \E name \in Present : f[name] = b
        BY DEF Bounds
    <2>2. \A m, n \in Present : f[m] = f[n] => m = n
        BY OneName
    <2> QED BY <2>1, <2>2 DEF Bijection, Injection, Surjection, IsInjective
<1> QED BY <1>1, <1>2, FS_Bijection DEF ExistsBijection

LEMMA EvictionRanks ==
    ASSUME Types, Types', Inodes, Ranks, Eviction PROVE Ranks'
<1>1. CASE EvictRemove
    <2>1. PICK name \in OldestFirst(evict.listed, evict.age) :
            /\ bin' = IF name[1] = "bin" THEN [bin EXCEPT ![name[2]] = None] ELSE bin
            /\ tmp' = IF name[1] = "tmp" THEN [tmp EXCEPT ![name[2]] = None] ELSE tmp
            /\ mtime' = Without(Bound(name))
        BY <1>1 DEF EvictRemove
    <2>2. name \in Names
        BY DEF OldestFirst, Types, TypeOK
    <2>3. Named(bin', tmp') = Named(bin, tmp) \ {Bound(name)}
        BY <2>1, <2>2, NameRemoved
    <2> QED BY <2>1, <2>3, RanksTaken
<1>2. CASE EvictList \/ EvictStat \/ EvictAborts \/ EvictDone
    BY <1>2, RanksKept DEF EvictList, EvictStat, EvictAborts, EvictDone
<1> QED BY <1>1, <1>2 DEF Eviction

EvictInv == Ranks /\ Progress /\ EvictsOldest

LEMMA InitEvict == ASSUME Init PROVE EvictInv
<1>1. Ranked(mtime) = {} /\ Bounds = {}
    BY DEF Init, Ranked, Bounds, Present, Bound, Names
<1>2. Cardinality(Ranked(mtime)) = 0
    BY <1>1, FS_EmptySet
<1>3. Ranking(mtime)
    BY <1>1, <1>2 DEF Ranking, Init
<1>4. evict.removed <= Excess /\ evict.at = "due" /\ seen = NotSeen
    BY LimitsAssumption DEF Init, NoScan, Excess
<1> QED BY <1>1, <1>3, <1>4 DEF EvictInv, Ranks, Progress, EvictsOldest

(* A step of a request either touches a file, and seen is forgotten, or    *)
(* leaves all files alone.                                                 *)
LEMMA StepEvict ==
    ASSUME Types, Types', Inodes, EvictInv, NEW r \in Requests, Step(r)
    PROVE  EvictInv'
<1>1. evict' = evict /\ (seen' = NotSeen \/ (seen' = seen /\ UNCHANGED files))
    <2>1. CASE Hit(r) \/ PutOpen(r) \/ PutWrite(r) \/ PutRename(r)
        BY <2>1 DEF Hit, PutOpen, PutWrite, PutRename
    <2>2. CASE Undecryptable(r) \/ Miss(r) \/ Acquire(r) \/ NoClient(r)
        BY <2>2 DEF Undecryptable, Miss, Acquire, NoClient
    <2>3. CASE DownloadFails(r) \/ PutFails(r) \/ PutRenameFails(r)
        BY <2>3 DEF DownloadFails, PutFails, PutRenameFails
    <2> QED BY <2>1, <2>2, <2>3 DEF Step
<1>2. Ranks'
    BY StepRanks DEF EvictInv
<1>3. CASE seen' = NotSeen
    BY <1>1, <1>2, <1>3 DEF EvictInv, Progress, EvictsOldest, Excess
<1>4. CASE seen' = seen /\ UNCHANGED files
    <2>1. /\ Present' = Present /\ Bounds' = Bounds
          /\ \A name \in Present : Bound(name)' = Bound(name)
          /\ Ranking(seen)' = Ranking(seen) /\ Ranked(seen)' = Ranked(seen)
        BY <1>4 DEF files, Present, Bounds, Bound, Ranking, Ranked
    <2>2. Progress'
        BY <1>1, <1>4, <2>1 DEF EvictInv, Progress, Excess, files
    <2>3. EvictsOldest'
        BY <1>1, <1>4, <2>1 DEF EvictInv, EvictsOldest, Excess, Bounds
    <2> QED BY <1>2, <2>2, <2>3 DEF EvictInv
<1> QED BY <1>1, <1>3, <1>4

LEMMA EvictListEvict ==
    ASSUME Types, Types', EvictInv, Ranks', EvictList PROVE EvictInv'
<1>1. /\ evict' = [NoScan EXCEPT !.at = "listed", !.listed = Present] /\ seen' = mtime
      /\ UNCHANGED files
    BY DEF EvictList
<1>2. /\ evict'.at = "listed" /\ evict'.listed = Present /\ evict'.removed = 0
      /\ evict'.scanned = 0
    BY <1>1 DEF NoScan
<1>3. Present' = Present /\ mtime' = mtime
    BY <1>1 DEF files, Present, Bound
<1>4. Ranking(seen)'
    BY <1>1 DEF EvictInv, Ranks, Ranking, Ranked
<1>5. evict'.removed <= Excess'
    BY <1>2, LimitsAssumption DEF Excess
<1>6. Progress'
    BY <1>1, <1>2, <1>3, <1>4, <1>5 DEF Progress
<1>7. EvictsOldest'
    BY <1>2, <1>5 DEF EvictsOldest
<1> QED BY <1>6, <1>7 DEF EvictInv

LEMMA EvictStatEvict ==
    ASSUME Types, Types', Inodes, EvictInv, Ranks', EvictStat PROVE EvictInv'
<1> USE DEF Types
<1>1. /\ evict.at = "listed" /\ evict.listed \subseteq Present /\ seen' = seen
      /\ evict' = [evict EXCEPT !.at = "removing",
                                !.age = [name \in evict.listed |-> mtime[Bound(name)]],
                                !.scanned = Cardinality(evict.listed)]
      /\ UNCHANGED files
    BY DEF EvictStat
<1>2. /\ evict'.at = "removing" /\ evict'.listed = evict.listed /\ evict'.removed = 0
      /\ evict'.age = [name \in evict.listed |-> mtime[Bound(name)]]
      /\ evict'.scanned = Cardinality(evict.listed)
    BY <1>1 DEF EvictInv, Progress, Evictions
<1>3. /\ Present' = Present /\ Bounds' = Bounds
      /\ \A name \in Present : Bound(name)' = Bound(name)
    BY <1>1 DEF files, Present, Bounds, Bound
<1>4. Cardinality(evict.listed) \in Nat
    BY Finite DEF TypeOK
<1>5. evict'.removed <= Excess'
    BY <1>2, <1>4, LimitsAssumption DEF Excess
<1>6. ASSUME seen # NotSeen
      PROVE  /\ Ranking(seen)' /\ evict'.listed = Present
             /\ \A name \in Present : evict'.age[name] = seen[Bound(name)]
             /\ Bounds = {i \in Requests : seen[i] > 0}
             /\ evict'.scanned = Cardinality(Ranked(seen)')
    <2>1. evict.listed = Present /\ mtime = seen /\ Ranking(seen)
        BY <1>1, <1>6 DEF EvictInv, Progress
    <2>2. Ranking(seen)' /\ Ranked(seen)' = Ranked(seen)
        BY <1>1, <2>1 DEF Ranking, Ranked
    <2>3. Bounds = Ranked(seen)
        BY <2>1 DEF EvictInv, Ranks
    <2>4. Bounds = {i \in Requests : seen[i] > 0}
        BY <2>1, <2>3 DEF Ranked, TypeOK
    <2>5. Cardinality(Present) = Cardinality(Bounds)
        BY ScanCounts
    <2> QED BY <1>2, <2>1, <2>2, <2>3, <2>4, <2>5
<1>7. Progress'
    BY <1>1, <1>2, <1>3, <1>5, <1>6 DEF Progress
<1>8. EvictsOldest'
    BY <1>2, <1>5 DEF EvictsOldest
<1> QED BY <1>7, <1>8 DEF EvictInv

LEMMA EvictAbortsEvict ==
    ASSUME Types, Types', EvictInv, Ranks', EvictAborts PROVE EvictInv'
<1>1. evict'.at = "aborted" /\ evict'.removed = 0 /\ evict'.scanned = 0 /\ seen' = NotSeen
    BY DEF EvictAborts, NoScan
<1>2. evict'.removed <= Excess'
    BY <1>1, LimitsAssumption DEF Excess
<1> QED BY <1>1, <1>2 DEF EvictInv, Progress, EvictsOldest

(* The oldest of what is left has the lowest rank left, because ranks have *)
(* no gaps.                                                                *)
LEMMA EvictRemoveEvict ==
    ASSUME Types, Types', Inodes, EvictInv, Ranks', EvictRemove PROVE EvictInv'
<1> USE DEF Types
<1>1. PICK name \in OldestFirst(evict.listed, evict.age) :
        /\ bin' = IF name[1] = "bin" THEN [bin EXCEPT ![name[2]] = None] ELSE bin
        /\ tmp' = IF name[1] = "tmp" THEN [tmp EXCEPT ![name[2]] = None] ELSE tmp
        /\ evict' = IF name \in Present
                    THEN [evict EXCEPT !.listed = @ \ {name}, !.removed = @ + 1]
                    ELSE [evict EXCEPT !.listed = @ \ {name}]
    BY DEF EvictRemove
<1>2. evict.at = "removing" /\ evict.scanned - evict.removed > Budget /\ seen' = seen
    BY DEF EvictRemove, Total
<1>3. /\ name \in evict.listed /\ name \in Names
      /\ \A other \in evict.listed : evict.age[name] <= evict.age[other]
    BY DEF OldestFirst, TypeOK
<1>4. /\ evict'.at = "removing" /\ evict'.listed = evict.listed \ {name}
      /\ evict'.age = evict.age /\ evict'.scanned = evict.scanned
      /\ evict'.removed = IF name \in Present THEN evict.removed + 1 ELSE evict.removed
    BY <1>1, <1>2 DEF Evictions
<1>5. /\ Present' = Present \ {name}
      /\ \A other \in Present' : Bound(other)' = Bound(other)
      /\ Bounds' = Bounds \ {Bound(name)}
    <2>1. /\ Present' = Present \ {name}
          /\ \A other \in Names \ {name} : Bound(other)' = Bound(other)
          /\ Named(bin', tmp') = Named(bin, tmp) \ {Bound(name)}
        BY <1>1, <1>3, NameRemoved
    <2>2. \A other \in Present' : Bound(other)' = Bound(other)
        BY <2>1 DEF Present
    <2> QED BY <2>1, <2>2, BoundsAreNamed, BoundsAreNamedNext
<1>6. evict.removed \in Nat /\ evict.scanned \in Nat
    BY DEF TypeOK
<1>7. evict'.removed <= Excess'
    BY <1>2, <1>4, <1>6, LimitsAssumption DEF Excess
<1>8. ASSUME seen # NotSeen
      PROVE  /\ Ranking(seen)' /\ evict'.listed = Present'
             /\ \A other \in Present' : evict'.age[other] = seen'[Bound(other)']
             /\ Bounds' = {i \in Requests : seen[i] > evict'.removed}
             /\ evict'.scanned = Cardinality(Ranked(seen)')
    <2>1. /\ Ranking(seen) /\ evict.listed = Present
          /\ \A other \in Present : evict.age[other] = seen[Bound(other)]
          /\ Bounds = {i \in Requests : seen[i] > evict.removed}
          /\ evict.scanned = Cardinality(Ranked(seen))
        BY <1>2, <1>8 DEF EvictInv, Progress
    <2>2. Ranking(seen)' /\ Ranked(seen)' = Ranked(seen)
        BY <1>2, <2>1 DEF Ranking, Ranked
    <2>3. seen \in [Requests -> Nat]
        BY <1>8 DEF TypeOK
    <2>4. Bound(name) \in Bounds /\ Bound(name) \in Requests
        BY <1>3, <2>1 DEF Bounds
    <2>5. evict.removed + 1 <= Cardinality(Ranked(seen)) /\ evict.removed + 1 \in Nat \ {0}
        BY <1>2, <1>6, <2>1, LimitsAssumption
    <2>6. PICK next \in Requests : seen[next] = evict.removed + 1
        BY <2>1, <2>5 DEF Ranking
    <2>7. next \in Bounds
        BY <1>6, <2>1, <2>6
    <2>8. PICK other \in Present : Bound(other) = next
        BY <2>7 DEF Bounds
    <2>9. seen[Bound(name)] <= evict.removed + 1
        BY <1>3, <2>1, <2>6, <2>8
    <2>10. seen[Bound(name)] = evict.removed + 1
        BY <1>6, <2>1, <2>3, <2>4, <2>9
    <2>11. \A i \in Requests : seen[i] = evict.removed + 1 => i = Bound(name)
        BY <1>6, <2>1, <2>3, <2>4, <2>10 DEF Ranking, Ranked
    <2>12. evict'.removed = evict.removed + 1
        BY <1>3, <1>4, <2>1
    <2>13. Bounds' = {i \in Requests : seen[i] > evict.removed + 1}
        BY <1>5, <1>6, <2>1, <2>3, <2>10, <2>11
    <2>14. \A o \in Present' : evict'.age[o] = seen'[Bound(o)']
        BY <1>2, <1>4, <1>5, <2>1
    <2> QED BY <1>4, <1>5, <2>1, <2>2, <2>12, <2>13, <2>14
<1>9. Progress'
    BY <1>2, <1>4, <1>7, <1>8 DEF Progress
<1>10. EvictsOldest'
    BY <1>4, <1>7 DEF EvictsOldest
<1> QED BY <1>9, <1>10 DEF EvictInv

LEMMA EvictDoneEvict ==
    ASSUME Types, Types', EvictInv, Ranks', EvictDone PROVE EvictInv'
<1> USE DEF Types
<1>1. /\ evict.at = "removing" /\ seen' = seen /\ UNCHANGED files
      /\ evict.scanned - evict.removed <= Budget \/ evict.listed = {}
      /\ evict' = [evict EXCEPT !.at = "done", !.listed = {}, !.age = <<>>]
    BY DEF EvictDone, Total
<1>2. evict'.at = "done" /\ evict'.removed = evict.removed /\ evict'.scanned = evict.scanned
    BY <1>1 DEF Evictions
<1>3. evict.removed \in Nat /\ evict.scanned \in Nat /\ evict.removed <= Excess
    BY DEF TypeOK, EvictInv, Progress
<1>4. evict'.removed <= Excess'
    BY <1>2, <1>3 DEF Excess
<1>5. Bounds' = Bounds
    BY <1>1 DEF files, Present, Bounds, Bound
<1>6. ASSUME seen # NotSeen
      PROVE  /\ Ranking(seen)' /\ evict.scanned = Cardinality(Ranked(seen)')
             /\ Bounds = {i \in Ranked(seen) : seen[i] + Budget > Cardinality(Ranked(seen))}
    <2>1. /\ Ranking(seen) /\ evict.listed = Present
          /\ Bounds = {i \in Requests : seen[i] > evict.removed}
          /\ evict.scanned = Cardinality(Ranked(seen))
        BY <1>1, <1>6 DEF EvictInv, Progress
    <2>2. Ranking(seen)' /\ Ranked(seen)' = Ranked(seen)
        BY <1>1, <2>1 DEF Ranking, Ranked
    <2>3. seen \in [Requests -> Nat]
        BY <1>6 DEF TypeOK
    <2>4. evict.removed = Excess
        <3>1. CASE evict.scanned - evict.removed <= Budget
            BY <1>3, <3>1, LimitsAssumption DEF Excess
        <3>2. CASE evict.listed = {}
            <4>1. Bounds = {}
                BY <2>1, <3>2 DEF Bounds
            <4>2. ASSUME evict.removed < evict.scanned PROVE FALSE
                <5>1. evict.removed + 1 \in Nat \ {0} /\ evict.removed + 1 <= evict.scanned
                    BY <1>3, <4>2
                <5>2. PICK i \in Requests : seen[i] = evict.removed + 1
                    BY <2>1, <5>1 DEF Ranking
                <5> QED BY <1>3, <2>1, <4>1, <5>2
            <4> QED BY <1>3, <4>2, LimitsAssumption DEF Excess
        <3> QED BY <1>1, <3>1, <3>2
    <2>5. \A i \in Requests :
            seen[i] > evict.removed
                <=> seen[i] # 0 /\ seen[i] + Budget > evict.scanned
        BY <1>3, <2>3, <2>4, LimitsAssumption DEF Excess
    <2> QED BY <2>1, <2>2, <2>5 DEF Ranked
<1>7. Progress'
    BY <1>1, <1>2, <1>4, <1>6 DEF Progress
<1>8. EvictsOldest'
    <2>1. Ranked(seen)' = Ranked(seen)
        BY <1>1 DEF Ranked
    <2> QED BY <1>1, <1>2, <1>4, <1>5, <1>6, <2>1 DEF EvictsOldest, Bounds
<1> QED BY <1>7, <1>8 DEF EvictInv

LEMMA RestartEvict == ASSUME Types, Types', EvictInv, Restart PROVE EvictInv'
<1>1. /\ evict'.at = "due" /\ evict'.removed = 0 /\ evict'.scanned = 0 /\ seen' = NotSeen
      /\ UNCHANGED files
    BY DEF Restart, NoScan
<1>2. Ranks'
    BY <1>1, RanksKept DEF EvictInv
<1>3. evict'.removed <= Excess'
    BY <1>1, LimitsAssumption DEF Excess
<1> QED BY <1>1, <1>2, <1>3 DEF EvictInv, Progress, EvictsOldest

LEMMA NextEvict ==
    ASSUME Types, Types', Inodes, EvictInv, [Next]_vars PROVE EvictInv'
<1>1. CASE Eviction
    <2>1. Ranks'
        BY <1>1, EvictionRanks DEF EvictInv
    <2> QED BY <1>1, <2>1, EvictListEvict, EvictStatEvict, EvictAbortsEvict, EvictRemoveEvict,
               EvictDoneEvict DEF Eviction
<1>2. CASE UNCHANGED vars
    BY <1>2 DEF vars, files, EvictInv, Ranks, Progress, EvictsOldest, Excess, Ranked, Ranking,
                Bounds, Present, Bound
<1> QED BY <1>1, <1>2, StepEvict, RestartEvict DEF Next

(* An eviction removes no more files than it has to, and if nothing else   *)
(* touches a file while it runs, it removes the oldest.                    *)
THEOREM EvictionTakesTheOldest == Spec => []EvictsOldest
<1>1. Init => Sound /\ FilesInv /\ EvictInv
    BY InitSound, InitFiles, InitEvict
<1>2. Sound /\ FilesInv /\ EvictInv /\ [Next]_vars => (Sound /\ FilesInv /\ EvictInv)'
    BY NextSound, NextFiles, NextEvict DEF Sound, FilesInv
<1>3. EvictInv => EvictsOldest
    BY DEF EvictInv
<1> QED BY <1>1, <1>2, <1>3, PTL DEF Spec
=============================================================================
