----------------------------- MODULE RevisionCache -----------------------------
(***************************************************************************)
(* S3ResourceStore and its caches (resource_manager/resource_store/s3.py,  *)
(* cached_s3.py, etag_cached_s3.py, mq_cached_s3.py), for one revision at  *)
(* one schema version.  Every save has a uid of its own and makes three    *)
(* objects: the data and the info of the uid, and then the index, which is *)
(* the only one that is overwritten.  Each instance caches what it saves   *)
(* and fetches; threads of all instances save and read.                    *)
(*                                                                         *)
(* A uid is the number of its save; it stands for its data, its info and   *)
(* its ETag.  The caches of an instance are one layer, in memory or on disk *)
(* in a directory of the instance; on disk an entry is a file, and the time *)
(* it expires another one, which is written, and removed, after it.         *)
(***************************************************************************)
EXTENDS Naturals, Sequences, SequencesExt

CONSTANTS
    Instance,   \* running copies of the program
    Writer,     \* threads that save
    Reader,     \* threads that read
    Setups,     \* ways to build the program: the store, the cache, the homes of threads
    MaxSaves,   \* bound: saves begun
    MaxCrashes  \* bound: crashes of an instance

ASSUME RevisionCacheAssumption ==
    /\ Setups \subseteq [kind: {"plain", "etag", "mq"}, layer: {"memory", "disk"},
                       home: [Writer \cup Reader -> Instance]]
    /\ MaxSaves \in Nat /\ MaxCrashes \in Nat

Uid == 1..MaxSaves
None == 0
Entry == {"info", "data", "etag"}

VARIABLES
    kind,      \* which store the instances use
    layer,     \* which cache
    home,      \* home[t]: the instance of a thread
    objects,   \* the uids whose data, and whose info, are in S3
    order,     \* the uids the index was set to, the current one last (history)
    cache,     \* cache[i]: uids of the info, data and ETag entries of an instance
    timed,     \* timed[i]: the entries on disk whose expiry is there, too
    timing,    \* timing[t]: the entry whose expiry a thread is to write next, or ""
    unlinking, \* unlinking[i]: the expired entries whose expiry is to be removed next
    messages,  \* invalidations in the queue all instances consume
    writer,    \* writer[w]: the save in progress
    reader,    \* reader[r]: the read in progress
    own,       \* own[i]: the last place in order of a save of the instance (history)
    raced,     \* instances with threads that filled their cache together (history)
    saves, crashes

fixed == <<kind, layer, home>>
store == <<objects, order>>
timers == <<timed, timing, unlinking>>
history == <<own, raced>>
bounds == <<saves, crashes>>
vars == <<fixed, store, cache, timers, messages, writer, reader, history, bounds>>

Empty == [info |-> None, data |-> None, etag |-> None]
Idle == [at |-> "idle", uid |-> None]

Caching == [info: Nat, data: Nat, etag: Nat]
Saving  == [at: {"idle", "info", "infoOnly", "index", "indexOnly", "cacheInfo", "cacheData",
                 "etag", "publish"}, uid: Nat]
Reading == [at: {"idle", "info", "ttl", "ttlInfo", "invalidate", "look", "ttlAgain",
                 "ttlInfoAgain", "index", "data", "etag", "put"}, uid: Nat]

Setup == [kind |-> kind, layer |-> layer, home |-> home]

\* what threads, instances and their disks may hold an expiry of
TimersOK ==
    /\ timed \in [Instance -> SUBSET Entry] /\ unlinking \in [Instance -> SUBSET Entry]
    /\ timing \in [Writer \cup Reader -> Entry \cup {""}]

TypeOK ==
    /\ Setup \in Setups
    /\ objects \in [data: SUBSET Nat, info: SUBSET Nat] /\ order \in Seq(Nat)
    /\ cache \in [Instance -> Caching] /\ messages \in Nat
    /\ TimersOK
    /\ writer \in [Writer -> Saving] /\ reader \in [Reader -> Reading]
    /\ own \in [Instance -> Nat] /\ raced \subseteq Instance
    /\ saves \in Nat /\ crashes \in Nat

\* the uid the index object holds
Index == IF order = <<>> THEN None ELSE Last(order)

\* the save in progress of an instance has set the index, and fills the cache
Filling(w) == writer[w].at \in {"cacheInfo", "cacheData"}

\* the read in progress has got a uid it will put into the cache
Fetching(r) == reader[r].uid # None

\* put_revision_info() and put_data() of the cache: in memory with the expiry; on
\* disk the expiry of an earlier entry is the entry's until the thread goes on.
Put(t, entry, uid) ==
    /\ cache' = [cache EXCEPT ![home[t]][entry] = uid]
    /\ timing' = [timing EXCEPT ![t] = IF layer = "disk" THEN entry ELSE ""]
    /\ UNCHANGED <<timed, unlinking>>

-----------------------------------------------------------------------------
(* S3ResourceStore.save, CachedS3ResourceStore.save *)

Goto(w, at) == writer' = [writer EXCEPT ![w] = IF at = "idle" THEN Idle ELSE [@ EXCEPT !.at = at]]

\* a new uid, and its data
SaveData(w) ==
    /\ writer[w].at = "idle" /\ saves < MaxSaves
    /\ saves' = saves + 1
    /\ objects' = [objects EXCEPT !.data = @ \cup {saves'}]
    /\ \E at \in {"info", "infoOnly"} : writer' = [writer EXCEPT ![w] = [at |-> at, uid |-> saves']]
    /\ UNCHANGED <<fixed, timers, order, cache, messages, reader, history, crashes>>

SaveInfo_IndexFirst(w) ==
    /\ writer[w].at \in {"info", "infoOnly"}
    /\ order' = Append(order, writer[w].uid)
    /\ Goto(w, IF writer[w].at = "info" THEN "index" ELSE "indexOnly")
    /\ UNCHANGED <<fixed, timers, objects, cache, messages, reader, history, bounds>>

SaveInfo(w) ==
    /\ writer[w].at \in {"info", "infoOnly"}
    /\ objects' = [objects EXCEPT !.info = @ \cup {writer[w].uid}]
    /\ Goto(w, IF writer[w].at = "info" THEN "index" ELSE "indexOnly")
    /\ UNCHANGED <<fixed, timers, order, cache, messages, reader, history, bounds>>

SaveIndex(w) ==
    /\ writer[w].at = "index"
    /\ order' = Append(order, writer[w].uid)
    /\ Goto(w, "cacheInfo")
    /\ UNCHANGED <<fixed, timers, objects, cache, messages, reader, history, bounds>>

\* save_many(), which the caching stores inherit: their caches are not told
SaveIndexOnly(w) ==
    /\ writer[w].at = "indexOnly"
    /\ order' = Append(order, writer[w].uid)
    /\ writer' = [writer EXCEPT ![w] = Idle]
    /\ UNCHANGED <<fixed, timers, objects, cache, messages, reader, history, bounds>>

Place(uid) == CHOOSE n \in 1..Len(order) : order[n] = uid

\* another thread of the instance fills its cache, perhaps with an older uid,
\* or has done so with a newer one
Overlapped(w) ==
    \/ \E r \in Reader : home[r] = home[w] /\ Fetching(r)
    \/ \E v \in Writer \ {w} : home[v] = home[w] /\ Filling(v)
    \/ Place(writer[w].uid) < own[home[w]]

CacheInfo(w) ==
    LET i == home[w] IN
    /\ writer[w].at = "cacheInfo"
    /\ Put(w, "info", writer[w].uid)
    /\ raced' = IF Overlapped(w) THEN raced \cup {i} ELSE raced
    /\ Goto(w, "cacheData")
    /\ UNCHANGED <<fixed, store, messages, reader, own, bounds>>

\* what follows the save depends on the store
AfterSave == CASE kind = "plain" -> "idle" [] kind = "etag" -> "etag" [] kind = "mq" -> "publish"

CacheData_InfoOnly(w) ==
    LET i == home[w] IN
    /\ writer[w].at = "cacheData"
    /\ own' = [own EXCEPT ![i] = IF @ < Place(writer[w].uid) THEN Place(writer[w].uid) ELSE @]
    /\ raced' = IF Overlapped(w) THEN raced \cup {i} ELSE raced
    /\ Goto(w, AfterSave)
    /\ UNCHANGED <<fixed, timers, store, cache, messages, reader, bounds>>

CacheData(w) ==
    LET i == home[w] IN
    /\ writer[w].at = "cacheData"
    /\ Put(w, "data", writer[w].uid)
    /\ own' = [own EXCEPT ![i] = IF @ < Place(writer[w].uid) THEN Place(writer[w].uid) ELSE @]
    /\ raced' = IF Overlapped(w) THEN raced \cup {i} ELSE raced
    /\ Goto(w, AfterSave)
    /\ UNCHANGED <<fixed, store, messages, reader, bounds>>

\* ETagCachedS3ResourceStore.save: the ETag of the uid, if HEAD answers
SaveEtag(w) ==
    /\ writer[w].at = "etag"
    /\ \/ Put(w, "etag", writer[w].uid)
       \/ UNCHANGED <<cache, timers>>
    /\ Goto(w, "idle")
    /\ UNCHANGED <<fixed, store, messages, reader, history, bounds>>

\* MQCachedS3ResourceStore.save: a failing publish is logged
PublishInvalidation(w) ==
    /\ writer[w].at = "publish"
    /\ messages' = messages + 1 \/ UNCHANGED messages
    /\ Goto(w, "idle")
    /\ UNCHANGED <<fixed, timers, store, cache, reader, history, bounds>>

-----------------------------------------------------------------------------
(* Reading *)

At(r, at, uid) == reader' = [reader EXCEPT ![r] = [at |-> at, uid |-> uid]]

\* get_revision_info() misses the cache and reads the index.  Without a
\* revision it raises KeyError.
GetInfo(r) ==
    /\ reader[r].at = "idle"
    /\ cache[home[r]].info = None /\ Index # None
    /\ At(r, "info", Index)
    /\ UNCHANGED <<fixed, timers, store, cache, messages, writer, history, bounds>>

\* _check_etag_validity(): the ETag of the cached uid, or of the index's when
\* no info is cached
Valid(i) ==
    LET uid == IF cache[i].info # None THEN cache[i].info ELSE Index IN
    cache[i].etag # None /\ cache[i].etag = uid

\* get_data_bytes(): a hit changes nothing.  (HEAD failing counts as valid.)
GetData(r) ==
    LET i == home[r] IN
    /\ reader[r].at = "idle"
    /\ \/ cache[i].data = None /\ Index # None /\ At(r, "ttl", None)
       \/ cache[i].data # None /\ kind = "etag" /\ ~Valid(i) /\ At(r, "invalidate", None)
    /\ UNCHANGED <<fixed, timers, store, cache, messages, writer, history, bounds>>

\* invalidate(): the ETag, an entry of another name, stays
Invalidated(i) ==
    /\ cache' = [cache EXCEPT ![i].info = None, ![i].data = None]
    /\ timed' = [timed EXCEPT ![i] = @ \ {"info", "data"}]
    /\ UNCHANGED <<timing, unlinking>>

Invalidate(r) ==
    /\ reader[r].at = "invalidate"
    /\ Invalidated(home[r])
    /\ At(r, "ttl", None)
    /\ UNCHANGED <<fixed, store, messages, writer, history, bounds>>

\* what follows the time to live
Inner(at) == IF kind = "etag" /\ at = "ttl" THEN "look" ELSE "index"

\* the info is wanted for the time to live of the data
NeedInfo(r) ==
    /\ reader[r].at \in {"ttl", "ttlAgain"}
    /\ IF cache[home[r]].info = None
       THEN At(r, IF reader[r].at = "ttl" THEN "ttlInfo" ELSE "ttlInfoAgain", Index)
       ELSE At(r, Inner(reader[r].at), None)
    /\ UNCHANGED <<fixed, timers, store, cache, messages, writer, history, bounds>>

\* the info of the uid is fetched and cached
FetchInfo(r) ==
    /\ reader[r].at \in {"info", "ttlInfo", "ttlInfoAgain"}
    /\ Put(r, "info", reader[r].uid)
    /\ At(r, CASE reader[r].at = "info" -> "idle"
              [] reader[r].at = "ttlInfo" -> Inner("ttl")
              [] reader[r].at = "ttlInfoAgain" -> "index", None)
    /\ UNCHANGED <<fixed, store, messages, writer, history, bounds>>

\* The store with ETags calls get_data_bytes() of the plain one, which looks
\* into the cache once more and takes what it finds there.
LookAgain(r) ==
    LET data == cache[home[r]].data IN
    /\ reader[r].at = "look"
    /\ IF data # None THEN At(r, "etag", data) ELSE At(r, "ttlAgain", None)
    /\ UNCHANGED <<fixed, timers, store, cache, messages, writer, history, bounds>>

\* the index again, for the data
GetIndex(r) ==
    /\ reader[r].at = "index"
    /\ At(r, "data", Index)
    /\ UNCHANGED <<fixed, timers, store, cache, messages, writer, history, bounds>>

FetchData(r) ==
    /\ reader[r].at = "data"
    /\ Put(r, "data", reader[r].uid)
    /\ IF kind = "etag" THEN At(r, "etag", reader[r].uid) ELSE At(r, "idle", None)
    /\ UNCHANGED <<fixed, store, messages, writer, history, bounds>>

\* the ETag of the uid the index holds now, if S3 answers; reading the index
\* and caching the ETag are one step
FetchEtag(r) ==
    /\ reader[r].at = "etag"
    /\ \/ Put(r, "etag", Index)
       \/ UNCHANGED <<cache, timers>>
    /\ At(r, "put", reader[r].uid)
    /\ UNCHANGED <<fixed, store, messages, writer, history, bounds>>

PutData(r) ==
    /\ reader[r].at = "put"
    /\ Put(r, "data", reader[r].uid)
    /\ At(r, "idle", None)
    /\ UNCHANGED <<fixed, store, messages, writer, history, bounds>>

-----------------------------------------------------------------------------
(* The rest of the world *)

\* on_message(): any instance takes the message, the one that sent it too
OnMessage(i) ==
    /\ messages > 0
    /\ messages' = messages - 1
    /\ Invalidated(i)
    /\ UNCHANGED <<fixed, store, writer, reader, history, bounds>>

\* An entry on disk without an expiry never expires.
Expires(i, entry) == cache[i][entry] # None /\ (layer = "disk" => entry \in timed[i])

Expire_InfoOnly(i, entry) ==
    /\ entry = "info" /\ Expires(i, entry)
    /\ cache' = [cache EXCEPT ![i][entry] = None]
    /\ unlinking' = IF layer = "disk" THEN [unlinking EXCEPT ![i] = @ \cup {entry}] ELSE unlinking
    /\ UNCHANGED <<fixed, store, timed, timing, messages, writer, reader, history, bounds>>

\* ttl_draft or ttl_stable have passed, and a reader notices: on disk it removes
\* the entry ...
Expire(i, entry) ==
    /\ Expires(i, entry)
    /\ cache' = [cache EXCEPT ![i][entry] = None]
    /\ unlinking' = IF layer = "disk" THEN [unlinking EXCEPT ![i] = @ \cup {entry}] ELSE unlinking
    /\ UNCHANGED <<fixed, store, timed, timing, messages, writer, reader, history, bounds>>

\* ... and then the expiry, though it may be that of a new entry by now.
RemoveExpiry(i, entry) ==
    /\ entry \in unlinking[i]
    /\ unlinking' = [unlinking EXCEPT ![i] = @ \ {entry}]
    /\ timed' = [timed EXCEPT ![i] = @ \ {entry}]
    /\ UNCHANGED <<fixed, store, cache, timing, messages, writer, reader, history, bounds>>

\* _write_expiration(), after the entry was written
WriteExpiry(t) ==
    /\ timing[t] # ""
    /\ timing' = [timing EXCEPT ![t] = ""]
    /\ timed' = [timed EXCEPT ![home[t]] = @ \cup {timing[t]}]
    /\ UNCHANGED <<fixed, store, cache, unlinking, messages, writer, reader, history, bounds>>

\* It raises if the directory was removed since, in which no entry is left then:
\* a save ends there, and so does a read, unless what it cached was the info.
WriteExpiryFails(t) ==
    /\ timing[t] \in {"info", "data"}
    /\ cache[home[t]].info = None /\ cache[home[t]].data = None
    /\ timed[home[t]] \cap {"info", "data"} = {}
    /\ timing' = [timing EXCEPT ![t] = ""]
    /\ IF t \in Writer
       THEN writer' = [writer EXCEPT ![t] = Idle] /\ UNCHANGED reader
       ELSE /\ reader' = IF timing[t] = "data" THEN [reader EXCEPT ![t] = Idle] ELSE reader
            /\ UNCHANGED writer
    /\ UNCHANGED <<fixed, store, cache, timed, unlinking, messages, history, bounds>>

\* The process dies, and with it a cache in memory.
Crash(i) ==
    /\ crashes < MaxCrashes
    /\ crashes' = crashes + 1
    /\ cache' = IF layer = "memory" THEN [cache EXCEPT ![i] = Empty] ELSE cache
    /\ writer' = [w \in Writer |-> IF home[w] = i THEN Idle ELSE writer[w]]
    /\ reader' = [r \in Reader |-> IF home[r] = i THEN Idle ELSE reader[r]]
    /\ timing' = [t \in Writer \cup Reader |-> IF home[t] = i THEN "" ELSE timing[t]]
    /\ unlinking' = [unlinking EXCEPT ![i] = {}]
    /\ UNCHANGED <<fixed, store, timed, messages, history, saves>>

-----------------------------------------------------------------------------
SetUp == \E setup \in Setups : kind = setup.kind /\ layer = setup.layer /\ home = setup.home

NoTimers ==
    /\ timed = [i \in Instance |-> {}] /\ unlinking = [i \in Instance |-> {}]
    /\ timing = [t \in Writer \cup Reader |-> ""]

Init ==
    /\ SetUp
    /\ objects = [data |-> {}, info |-> {}]
    /\ order = <<>>
    /\ cache = [i \in Instance |-> Empty]
    /\ NoTimers
    /\ messages = 0
    /\ writer = [w \in Writer |-> Idle]
    /\ reader = [r \in Reader |-> Idle]
    /\ own = [i \in Instance |-> 0]
    /\ raced = {}
    /\ saves = 0 /\ crashes = 0

\* a save or a read that was begun goes on
SaveStep(w) ==
    \/ SaveInfo(w) \/ SaveIndex(w) \/ SaveIndexOnly(w) \/ CacheInfo(w) \/ CacheData(w)
    \/ SaveEtag(w) \/ PublishInvalidation(w)

ReadStep(r) ==
    \/ Invalidate(r) \/ NeedInfo(r) \/ FetchInfo(r) \/ LookAgain(r) \/ GetIndex(r)
    \/ FetchData(r) \/ FetchEtag(r) \/ PutData(r)

\* A thread finishes what it caches first.
Timer(t) == WriteExpiry(t) \/ WriteExpiryFails(t)
Save(w) == IF timing[w] = "" THEN SaveStep(w) ELSE Timer(w)
Read(r) == IF timing[r] = "" THEN ReadStep(r) ELSE Timer(r)

Next ==
    \/ \E w \in Writer : Save(w) \/ (timing[w] = "" /\ SaveData(w))
    \/ \E r \in Reader : Read(r) \/ (timing[r] = "" /\ (GetInfo(r) \/ GetData(r)))
    \/ \E i \in Instance :
        OnMessage(i) \/ Crash(i) \/ \E entry \in Entry : Expire(i, entry) \/ RemoveExpiry(i, entry)

Spec == Init /\ [][Next]_vars

\* Threads keep running and time passes.  Nobody has to save or read, and the
\* queue of invalidations may have no consumer.
FairSpec ==
    /\ Spec
    /\ \A w \in Writer : WF_vars(Save(w))
    /\ \A r \in Reader : WF_vars(Read(r))
    /\ \A i \in Instance : \A entry \in Entry :
        WF_vars(Expire(i, entry)) /\ WF_vars(RemoveExpiry(i, entry))

-----------------------------------------------------------------------------
(* Properties *)

\* Whatever step a save dies at, a revision that can be found can be read: the
\* index names a uid whose data and info are both stored.  Threads that hold a
\* uid hold one of those.
IndexComplete ==
    /\ ToSet(order) \subseteq objects.data \cap objects.info
    /\ \A r \in Reader : reader[r].uid \in ToSet(order) \cup {None}

\* An instance that has saved the revision reads its own save or one the index
\* was set to later, unless its threads filled the cache at the same time.
OwnSaveSeen ==
    \A i \in Instance \ raced :
        \A uid \in {cache[i].info, cache[i].data} \ {None} : own[i] <= Place(uid)

\* An entry on disk that nobody will give an expiry: the thread died before it
\* wrote it, or a reader that found the entry before it expired took it away.
Stuck(i, entry) ==
    /\ layer = "disk" /\ entry \notin timed[i]
    /\ \A t \in Writer \cup Reader : home[t] = i => timing[t] # entry

\* Every instance stops reading what was overwritten, with or without ETags and
\* invalidations, and whichever thread filled its cache last; except for entries
\* on disk that lost their expiry.
Fresh ==
    <>[](\A i \in Instance : \A entry \in {"info", "data"} :
            Stuck(i, entry) \/ cache[i][entry] \in {None, Index})

\* The same of all entries, as a comment in MQCachedS3ResourceStore has it: in the
\* worst case the caches of other instances expire.  False for a cache on disk.
ExpiresAnyway ==
    <>[](\A i \in Instance : {cache[i].info, cache[i].data} \subseteq {None, Index})

=============================================================================
