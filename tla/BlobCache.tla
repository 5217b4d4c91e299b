----------------------------- MODULE BlobCache ------------------------------
(***************************************************************************)
(* The encrypted blob cache (cache/src/blob.rs) and the services that fill *)
(* it (media_bytes, user_avatar_bytes, avatar_bytes in services.rs), with  *)
(* the eviction that Core::start spawns and a process that may stop.       *)
(*                                                                         *)
(* The file system is modelled as far as write-then-rename needs it: a     *)
(* name is bound to an inode, opening a file for writing truncates the     *)
(* inode the name is bound to, and renaming or removing a name leaves      *)
(* open files alone.  An inode is named after the request that created it. *)
(* Its bytes are "torn" from the truncation to the end of the write, and   *)
(* then "whole"; AEAD makes a torn blob an Err(Decrypt).  Two requests     *)
(* that write one inode write the same number of bytes.  Blobs have one    *)
(* size, so the budget counts files, and a modification time is its rank.   *)
(***************************************************************************)
EXTENDS Integers, FiniteSets

CONSTANTS
    Requests,   \* calls of the three services, each made once at most
    Keys,       \* cache keys; the file names are injective in them
    KeyOf,      \* the key each request asks for
    Media, Users, Chats,  \* requests for media, member photos and chat photos
    Together,   \* the sets of requests that are looked at together
    Permits,    \* avatar_downloads: 3 in Core::start
    Budget,     \* cache_max_bytes, in blobs
    None,       \* no file under a name
    MaxCrashes  \* bound: restarts of the process

ASSUME RequestsAssumption ==
    /\ IsFiniteSet(Requests) /\ IsFiniteSet(Keys)
    /\ KeyOf \in [Requests -> Keys]
    /\ Requests = Media \cup Users \cup Chats
    /\ Media \cap (Users \cup Chats) = {} /\ Users \cap Chats = {}
ASSUME TogetherAssumption == Together \subseteq SUBSET Requests
ASSUME NoneAssumption == None \notin Requests
ASSUME LimitsAssumption == Permits \in Nat \ {0} /\ Budget \in Nat /\ MaxCrashes \in Nat

VARIABLES
    req,      \* where each request stands
    fd,       \* the inode a put has open
    bin,      \* <hash>.bin of each key
    tmp,      \* <hash>.tmp of each key
    bytes,    \* what each inode holds
    mtime,    \* the rank of each inode that has a name, oldest 1; else 0
    permits,  \* free permits of the semaphore
    evict,    \* the eviction task
    crashes,  \* how often the process has stopped
    shared,   \* history: keys whose .tmp two puts have had open together
    lost,     \* history: keys of which a file has been evicted
    seen      \* history: mtime as the eviction began, until a put or hit

files == <<bin, tmp, bytes, mtime>>
vars == <<req, fd, files, permits, evict, crashes, shared, lost, seen>>

-----------------------------------------------------------------------------
Working == {"wait", "recheck", "download", "write", "rename"}
Ends == {"fetched", "over"}
Stages == {"new"} \cup Working \cup Ends

Avatars == Users \cup Chats
Writing == {"write", "rename"}
Holders == {r \in Avatars : req[r] \in {"recheck", "download"} \cup Writing}

(* A name is its kind and its key.                                         *)
Names == {"bin", "tmp"} \X Keys
Bound(name) == IF name[1] = "bin" THEN bin[name[2]] ELSE tmp[name[2]]
Present == {name \in Names : Bound(name) # None}

(* An inode loses its last name, or becomes the newest.                    *)
Without(i) ==
    [j \in Requests |->
        IF j = i THEN 0
        ELSE IF i \in Requests /\ mtime[i] # 0 /\ mtime[j] > mtime[i] THEN mtime[j] - 1
        ELSE mtime[j]]

Ranked(times) == {j \in Requests : times[j] # 0}
Touched(i) == [Without(i) EXCEPT ![i] = 1 + Cardinality(Ranked(Without(i)))]

NoScan == [at |-> "due", listed |-> {}, age |-> <<>>, scanned |-> 0, removed |-> 0]
Total == evict.scanned - evict.removed
NotSeen == <<>>

(* The cache may hold blobs of an earlier run: it does after a restart.    *)
Init ==
    /\ \E made \in Together :
        req = [r \in Requests |-> IF r \in made THEN "new" ELSE "over"]
    /\ fd = [r \in Requests |-> None]
    /\ bin = [k \in Keys |-> None]
    /\ tmp = [k \in Keys |-> None]
    /\ bytes = [r \in Requests |-> "torn"]
    /\ mtime = [r \in Requests |-> 0]
    /\ permits = Permits
    /\ evict = NoScan
    /\ crashes = 0
    /\ shared = {} /\ lost = {} /\ seen = NotSeen

-----------------------------------------------------------------------------
(* The services                                                            *)

(* Mutant: a request that stores nothing keeps its permit.                 *)
LeakPermit(r, end) ==
    /\ req' = [req EXCEPT ![r] = end]
    /\ permits' = IF r \in Holders /\ end = "fetched" THEN permits + 1 ELSE permits

(* Mutant: a permit is given back that was never taken.                    *)
ReleaseAlways(r, end) ==
    /\ req' = [req EXCEPT ![r] = end]
    /\ permits' = permits + 1

(* Any return drops _permit; bytes from the cache, none, or an error are   *)
(* all one.                                                                *)
End(r, end) ==
    /\ req' = [req EXCEPT ![r] = end]
    /\ permits' = IF r \in Holders THEN permits + 1 ELSE permits

Asks(r) == req[r] \in {"new", "recheck"}

Hit(r) ==
    /\ Asks(r)
    /\ LET i == bin[KeyOf[r]] IN
        /\ i # None
        /\ bytes[i] = "whole"
        /\ mtime' = Touched(i)
    /\ End(r, "over")
    /\ seen' = NotSeen
    /\ UNCHANGED <<fd, bin, tmp, bytes, evict, crashes, shared, lost>>

(* Err(Decrypt) goes back to the UI: the blob is neither removed nor       *)
(* fetched again.                                                          *)
Undecryptable(r) ==
    /\ Asks(r)
    /\ bin[KeyOf[r]] # None
    /\ bytes[bin[KeyOf[r]]] = "torn"
    /\ End(r, "over")
    /\ UNCHANGED <<fd, files, evict, crashes, shared, lost, seen>>

(* Nothing is found.  avatar_bytes looks under the key the dialog sync has *)
(* recorded: it passes by a blob of the key the download will return when  *)
(* no key is recorded, or an older one.                                    *)
NotFound(r) == bin[KeyOf[r]] = None \/ r \in Chats

Miss(r) ==
    /\ Asks(r)
    /\ NotFound(r)
    /\ req' = [req EXCEPT ![r] =
                IF @ = "new" /\ r \in Avatars THEN "wait" ELSE "download"]
    /\ UNCHANGED <<fd, files, permits, evict, crashes, shared, lost, seen>>

(* Mutant: no second look at the cache.                                    *)
AcquireBlind(r) ==
    /\ req[r] = "wait"
    /\ permits > 0
    /\ permits' = permits - 1
    /\ req' = [req EXCEPT ![r] = "download"]
    /\ UNCHANGED <<fd, files, evict, crashes, shared, lost, seen>>

(* avatar_downloads.acquire(); only user_avatar_bytes looks again.         *)
Acquire(r) ==
    /\ req[r] = "wait"
    /\ permits > 0
    /\ permits' = permits - 1
    /\ req' = [req EXCEPT ![r] = IF r \in Users THEN "recheck" ELSE "download"]
    /\ UNCHANGED <<fd, files, evict, crashes, shared, lost, seen>>

(* No client: an avatar request gives up before it asks for a permit.      *)
NoClient(r) ==
    /\ req[r] = "new"
    /\ NotFound(r)
    /\ End(r, "over")
    /\ UNCHANGED <<fd, files, evict, crashes, shared, lost, seen>>

(* An error, or no photo.                                                  *)
DownloadFails(r) ==
    /\ req[r] = "download"
    /\ End(r, "over")
    /\ UNCHANGED <<fd, files, evict, crashes, shared, lost, seen>>

-----------------------------------------------------------------------------
(* EncryptedCache::put                                                     *)

Others(r) == {q \in Requests \ {r} : KeyOf[q] = KeyOf[r] /\ req[q] \in Writing}

(* Mutant: the blob is written in place, and found there half written.     *)
PutOpenInPlace(r) ==
    /\ req[r] = "download"
    /\ LET k == KeyOf[r]
           i == IF bin[k] = None THEN r ELSE bin[k]
       IN  /\ bin' = [bin EXCEPT ![k] = i]
           /\ tmp' = [tmp EXCEPT ![k] = i]
           /\ fd' = [fd EXCEPT ![r] = i]
           /\ bytes' = [bytes EXCEPT ![i] = "torn"]
           /\ mtime' = Touched(i)
           /\ shared' = IF Others(r) = {} THEN shared ELSE shared \cup {k}
    /\ req' = [req EXCEPT ![r] = "write"]
    /\ seen' = NotSeen
    /\ UNCHANGED <<permits, evict, crashes, lost>>

(* The download is there: fs::write opens the temporary file, creating or  *)
(* truncating it ...                                                       *)
PutOpen(r) ==
    /\ req[r] = "download"
    /\ LET k == KeyOf[r]
           i == IF tmp[k] = None THEN r ELSE tmp[k]
       IN  /\ tmp' = [tmp EXCEPT ![k] = i]
           /\ fd' = [fd EXCEPT ![r] = i]
           /\ bytes' = [bytes EXCEPT ![i] = "torn"]
           /\ mtime' = Touched(i)
           /\ shared' = IF Others(r) = {} THEN shared ELSE shared \cup {k}
    /\ req' = [req EXCEPT ![r] = "write"]
    /\ seen' = NotSeen
    /\ UNCHANGED <<bin, permits, evict, crashes, lost>>

(* ... and fills it.                                                       *)
PutWrite(r) ==
    /\ req[r] = "write"
    /\ bytes' = [bytes EXCEPT ![fd[r]] = "whole"]
    /\ mtime' = IF \E name \in Present : Bound(name) = fd[r]
                 THEN Touched(fd[r]) ELSE mtime
    /\ req' = [req EXCEPT ![r] = "rename"]
    /\ seen' = NotSeen
    /\ UNCHANGED <<fd, bin, tmp, permits, evict, crashes, shared, lost>>

(* The disk is full: the temporary file stays as it is.                    *)
PutFails(r) ==
    /\ req[r] = "write"
    /\ End(r, "over")
    /\ fd' = [fd EXCEPT ![r] = None]
    /\ UNCHANGED <<files, evict, crashes, shared, lost, seen>>

(* The rename takes whatever the name is bound to by then.                 *)
PutRename(r) ==
    /\ req[r] = "rename"
    /\ tmp[KeyOf[r]] # None
    /\ bin' = [bin EXCEPT ![KeyOf[r]] = tmp[KeyOf[r]]]
    /\ tmp' = [tmp EXCEPT ![KeyOf[r]] = None]
    /\ fd' = [fd EXCEPT ![r] = None]
    /\ End(r, "fetched")
    /\ mtime' = Without(bin[KeyOf[r]])
    /\ seen' = NotSeen
    /\ UNCHANGED <<bytes, evict, crashes, shared, lost>>

(* NotFound: another put renamed the file, or the eviction removed it.     *)
PutRenameFails(r) ==
    /\ req[r] = "rename"
    /\ tmp[KeyOf[r]] = None
    /\ fd' = [fd EXCEPT ![r] = None]
    /\ End(r, "over")
    /\ UNCHANGED <<files, evict, crashes, shared, lost, seen>>

Step(r) ==
    \/ Hit(r) \/ Undecryptable(r) \/ Miss(r) \/ Acquire(r) \/ NoClient(r)
    \/ DownloadFails(r) \/ PutOpen(r) \/ PutWrite(r) \/ PutFails(r) \/ PutRename(r) \/ PutRenameFails(r)

-----------------------------------------------------------------------------
(* evict_to_limit, which Core::start spawns once                           *)

(* read_dir lists the names, temporary files among them ...                *)
EvictList ==
    /\ evict.at = "due"
    /\ evict' = [NoScan EXCEPT !.at = "listed", !.listed = Present]
    /\ seen' = mtime
    /\ UNCHANGED <<req, fd, files, permits, crashes, shared, lost>>

(* Mutant: newest first.                                                   *)
NewestFirst(names, age) == {name \in names : \A other \in names : age[name] >= age[other]}

(* blobs.sort_by_key(mtime)                                                *)
OldestFirst(names, age) == {name \in names : \A other \in names : age[name] <= age[other]}

(* ... metadata() then asks for each: size and modification time ...       *)
EvictStat ==
    /\ evict.at = "listed"
    /\ evict.listed \subseteq Present
    /\ evict' = [evict EXCEPT !.at = "removing",
                              !.age = [name \in evict.listed |-> mtime[Bound(name)]],
                              !.scanned = Cardinality(evict.listed)]
    /\ UNCHANGED <<req, fd, files, permits, crashes, shared, lost, seen>>

(* ... and a name that is gone by then, because its put renamed it, ends   *)
(* the eviction with an error.                                             *)
EvictAborts ==
    /\ evict.at = "listed"
    /\ ~ (evict.listed \subseteq Present)
    /\ evict' = [NoScan EXCEPT !.at = "aborted"]
    /\ seen' = NotSeen
    /\ UNCHANGED <<req, fd, files, permits, crashes, shared, lost>>

(* remove_file, oldest first by the scan's times, while the sum is over    *)
(* the budget.  It removes whatever has the name by now.                   *)
EvictRemove ==
    /\ evict.at = "removing"
    /\ Total > Budget
    /\ \E name \in OldestFirst(evict.listed, evict.age) :
        /\ bin' = IF name[1] = "bin" THEN [bin EXCEPT ![name[2]] = None] ELSE bin
        /\ tmp' = IF name[1] = "tmp" THEN [tmp EXCEPT ![name[2]] = None] ELSE tmp
        /\ evict' = IF name \in Present
                    THEN [evict EXCEPT !.listed = @ \ {name}, !.removed = @ + 1]
                    ELSE [evict EXCEPT !.listed = @ \ {name}]
        /\ mtime' = Without(Bound(name))
        /\ lost' = IF name \in Present THEN lost \cup {name[2]} ELSE lost
    /\ UNCHANGED <<req, fd, bytes, permits, crashes, shared, seen>>

EvictDone ==
    /\ evict.at = "removing"
    /\ Total <= Budget \/ evict.listed = {}
    /\ evict' = [evict EXCEPT !.at = "done", !.listed = {}, !.age = <<>>]
    /\ UNCHANGED <<req, fd, files, permits, crashes, shared, lost, seen>>

Eviction == EvictList \/ EvictStat \/ EvictAborts \/ EvictRemove \/ EvictDone

-----------------------------------------------------------------------------
(* The process stops and starts again; files stay as they are.             *)
Restart ==
    /\ crashes < MaxCrashes
    /\ crashes' = crashes + 1
    /\ req' = [r \in Requests |-> IF req[r] \in Working THEN "over" ELSE req[r]]
    /\ fd' = [r \in Requests |-> None]
    /\ permits' = Permits
    /\ evict' = NoScan
    /\ seen' = NotSeen
    /\ UNCHANGED <<files, shared, lost>>

Next ==
    \/ \E r \in Requests : Step(r)
    \/ Eviction
    \/ Restart

Spec == Init /\ [][Next]_vars

-----------------------------------------------------------------------------
(* The type invariant of the requests, the files and the eviction.         *)
TypeOK ==
    /\ req \in [Requests -> Stages]
    /\ fd \in [Requests -> Requests \cup {None}]
    /\ bin \in [Keys -> Requests \cup {None}]
    /\ tmp \in [Keys -> Requests \cup {None}]
    /\ bytes \in [Requests -> {"torn", "whole"}]
    /\ mtime \in [Requests -> Nat]
    /\ permits \in 0 .. Permits
    /\ evict.at \in {"due", "listed", "removing", "done", "aborted"}
    /\ evict.listed \subseteq Names
    /\ evict.scanned \in Nat /\ evict.removed \in Nat
    /\ crashes \in 0 .. MaxCrashes
    /\ shared \subseteq Keys /\ lost \subseteq Keys
    /\ seen \in [Requests -> Nat] \cup {NotSeen}

(* "Write-then-rename so readers never observe a torn blob": a key that    *)
(* can be read holds a whole blob, across full disks, evictions and        *)
(* restarts, as long as no two puts have had its temporary file open       *)
(* together - they share one name, and the first to finish renames what    *)
(* the other is writing.                                                   *)
TornOnlyIfShared ==
    \A k \in Keys \ shared : bin[k] # None => bytes[bin[k]] = "whole"

(* Every way out of an avatar request gives its permit back, so the bound  *)
(* on parallel downloads neither creeps up nor down to nothing.            *)
PermitsConserved == permits + Cardinality(Holders) = Permits

Fetched(k) == {r \in Requests : KeyOf[r] = k /\ req[r] = "fetched"}

(* What the second look at the cache is for: however many requests for a   *)
(* member's photo miss together, no more of them download and store it     *)
(* than there are permits, unless the eviction takes it away again.        *)
PhotoFetchedOnce ==
    \A k \in Keys : {r \in Requests : KeyOf[r] = k} \subseteq Users /\ k \notin lost
                        => Cardinality(Fetched(k)) <= Permits

Excess == IF evict.scanned > Budget THEN evict.scanned - Budget ELSE 0

(* An eviction never removes more files than the scan was over the budget  *)
(* by; and if nothing else touches a file while it runs, what it leaves is *)
(* the most recently used part of what there was.                          *)
EvictsOldest ==
    /\ evict.removed <= Excess
    /\ evict.at = "done" /\ seen # NotSeen =>
        {Bound(name) : name \in Present} =
            {i \in Ranked(seen) : seen[i] + Budget > Cardinality(Ranked(seen))}
=============================================================================
