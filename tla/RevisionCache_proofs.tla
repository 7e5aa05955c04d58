------------------------- MODULE RevisionCache_proofs -------------------------
(***************************************************************************)
(* S3 and its caches, for any instances, threads and numbers of saves:     *)
(* what the index names is stored, and an instance whose threads do not    *)
(* fill its cache at the same time reads its own save or a later one.      *)
(***************************************************************************)
EXTENDS RevisionCache, TLAPS

Found == ToSet(order) \cup {None}

(* Whoever holds a uid got it from the index; a save that is about to set    *)
(* the index has stored what the index will name.                            *)
Known ==
    /\ ToSet(order) \subseteq objects.data \cap objects.info
    /\ \A w \in Writer :
        /\ writer[w].at \in {"info", "infoOnly", "index", "indexOnly"} => writer[w].uid \in objects.data
        /\ writer[w].at \in {"index", "indexOnly"} => writer[w].uid \in objects.info
        /\ Filling(w) => writer[w].uid \in ToSet(order)
    /\ \A r \in Reader : reader[r].uid \in Found
    /\ \A i \in Instance : cache[i].info \in Found /\ cache[i].data \in Found

Unindexed(w) == writer[w].at \in {"info", "infoOnly", "index", "indexOnly"}

(* A uid belongs to one save, so it is indexed once.                         *)
Distinct ==
    /\ \A n \in 1..Len(order) : order[n] <= saves
    /\ \A m, n \in 1..Len(order) : order[m] = order[n] => m = n
    /\ \A w \in Writer : writer[w].uid <= saves
    /\ \A v, w \in Writer : v # w /\ writer[v].at # "idle" /\ writer[w].at # "idle" =>
                            writer[v].uid # writer[w].uid
    /\ \A w \in Writer, n \in 1..Len(order) : Unindexed(w) => order[n] # writer[w].uid

(* uid is not older than the last save of the instance.                      *)
Seen(i, uid) == uid # None => \A n \in 1..Len(order) : order[n] = uid => own[i] <= n

(* uid is not older than the save w is caching.                              *)
After(w, uid) ==
    uid # None =>
        \A m, n \in 1..Len(order) : order[m] = writer[w].uid /\ order[n] = uid => m <= n

FetchingInfo(r) == reader[r].at \in {"info", "ttlInfo", "ttlInfoAgain"}

(* Unless they raced, what the threads of an instance hold and cache is not  *)
(* older than its last save; between the two entries a save makes, infos are *)
(* not older than that save either.                                          *)
Ordered ==
    /\ \A i \in Instance : own[i] <= Len(order)
    /\ \A i \in Instance \ raced : Seen(i, cache[i].info) /\ Seen(i, cache[i].data)
    /\ \A r \in Reader : home[r] \notin raced => Seen(home[r], reader[r].uid)
    /\ \A w \in Writer : writer[w].at = "cacheData" /\ home[w] \notin raced =>
        /\ After(w, cache[home[w]].info)
        /\ \A r \in Reader : home[r] = home[w] /\ FetchingInfo(r) => After(w, reader[r].uid)

-----------------------------------------------------------------------------
(* Sequences of uids.                                                        *)
LEMMA AppendUid ==
    ASSUME NEW s \in Seq(Nat), NEW u \in Nat
    PROVE  /\ Append(s, u) \in Seq(Nat) /\ Len(Append(s, u)) = Len(s) + 1 /\ Len(s) \in Nat
           /\ \A n \in 1..Len(s) : Append(s, u)[n] = s[n]
           /\ Append(s, u)[Len(s) + 1] = u
           /\ ToSet(Append(s, u)) = ToSet(s) \cup {u}
<1>1. /\ Append(s, u) \in Seq(Nat) /\ Len(Append(s, u)) = Len(s) + 1 /\ Len(s) \in Nat
      /\ \A n \in 1..Len(s) : Append(s, u)[n] = s[n]
      /\ Append(s, u)[Len(s) + 1] = u
  OBVIOUS
<1>2. DOMAIN s = 1..Len(s) /\ DOMAIN Append(s, u) = 1..(Len(s) + 1)
  OBVIOUS
<1>3. ToSet(Append(s, u)) = ToSet(s) \cup {u}
  BY <1>1, <1>2 DEF ToSet
<1>4. QED
  BY <1>1, <1>3

LEMMA Members ==
    ASSUME NEW s \in Seq(Nat)
    PROVE  ToSet(s) = {s[n] : n \in 1..Len(s)} /\ Len(s) \in Nat
BY DEF ToSet

(* The index holds a uid it was set to.                                      *)
LEMMA IndexKnown == ASSUME TypeOK PROVE Index \in ToSet(order) \cup {None} /\ Index \in Nat
<1>1. CASE order = <<>>
  BY <1>1 DEF Index, None
<1>2. CASE order # <<>>
  <2>1. Len(order) \in 1..Len(order) /\ order[Len(order)] \in Nat
    BY <1>2 DEF TypeOK
  <2>2. QED
    BY <1>2, <2>1, Members DEF Index, Last, TypeOK
<1>3. QED
  BY <1>1, <1>2

(* The place of a uid that was indexed once.                                 *)
LEMMA PlaceIs ==
    ASSUME NEW n \in 1..Len(order), \A m \in 1..Len(order) : order[m] = order[n] => m = n
    PROVE  Place(order[n]) = n
BY DEF Place

LEMMA PlaceKnown ==
    ASSUME TypeOK, NEW uid \in ToSet(order)
    PROVE  Place(uid) \in 1..Len(order) /\ order[Place(uid)] = uid
<1>1. PICK n \in 1..Len(order) : order[n] = uid
  BY Members DEF TypeOK
<1>2. QED
  BY <1>1 DEF Place

-----------------------------------------------------------------------------
(* What the actions do, field by field.                                      *)
WriterIs(w, at, uid) ==
    /\ writer' \in [Writer -> Saving]
    /\ writer'[w].at = at /\ writer'[w].uid = uid
    /\ \A v \in Writer \ {w} : writer'[v] = writer[v]

ReaderIs(r, at, uid) ==
    /\ reader' \in [Reader -> Reading]
    /\ reader'[r].at = at /\ reader'[r].uid = uid
    /\ \A q \in Reader \ {r} : reader'[q] = reader[q]

CacheIs(i, info, data) ==
    /\ cache' \in [Instance -> Caching]
    /\ cache'[i].info = info /\ cache'[i].data = data
    /\ \A j \in Instance \ {i} : cache'[j] = cache[j]

LEMMA SetupIs ==
    ASSUME TypeOK
    PROVE  /\ kind \in {"plain", "etag", "mq"} /\ layer \in {"memory", "disk"}
           /\ home \in [Writer \cup Reader -> Instance]
<1>1. [kind |-> kind, layer |-> layer, home |-> home] \in
        [kind: {"plain", "etag", "mq"}, layer: {"memory", "disk"}, home: [Writer \cup Reader -> Instance]]
  BY RevisionCacheAssumption DEF TypeOK, Setup
<1>2. QED
  BY <1>1

LEMMA Uids ==
    ASSUME TypeOK
    PROVE  /\ \A w \in Writer : writer[w].uid \in Nat /\ home[w] \in Instance
           /\ \A r \in Reader : reader[r].uid \in Nat /\ home[r] \in Instance
           /\ \A i \in Instance : cache[i].info \in Nat /\ cache[i].data \in Nat
BY SetupIs DEF TypeOK, Saving, Reading, Caching

LEMMA GotoIs ==
    ASSUME TypeOK, NEW w \in Writer, NEW at, Goto(w, at),
           at \in {"idle", "index", "indexOnly", "cacheInfo", "cacheData", "etag", "publish"}
    PROVE  WriterIs(w, at, IF at = "idle" THEN None ELSE writer[w].uid)
<1>1. CASE at = "idle"
  BY <1>1 DEF Goto, WriterIs, TypeOK, Saving, Idle, None
<1>2. CASE at # "idle"
  BY <1>2 DEF Goto, WriterIs, TypeOK, Saving
<1>3. QED
  BY <1>1, <1>2

LEMMA AtIs ==
    ASSUME TypeOK, NEW r \in Reader, NEW at, NEW uid \in Nat, At(r, at, uid),
           at \in {"idle", "info", "ttl", "ttlInfo", "invalidate", "look", "ttlAgain",
                  "ttlInfoAgain", "index", "data", "etag", "put"}
    PROVE  ReaderIs(r, at, uid)
BY DEF At, ReaderIs, TypeOK, Reading

LEMMA CacheInfoIs ==
    ASSUME TypeOK, NEW i \in Instance, NEW uid \in Nat, cache' = [cache EXCEPT ![i]["info"] = uid]
    PROVE  CacheIs(i, uid, cache[i].data)
BY DEF CacheIs, TypeOK, Caching

LEMMA CacheDataIs ==
    ASSUME TypeOK, NEW i \in Instance, NEW uid \in Nat, cache' = [cache EXCEPT ![i]["data"] = uid]
    PROVE  CacheIs(i, cache[i].info, uid)
BY DEF CacheIs, TypeOK, Caching

LEMMA CacheEtagIs ==
    ASSUME TypeOK, NEW i \in Instance, NEW uid \in Nat, cache' = [cache EXCEPT ![i]["etag"] = uid]
    PROVE  CacheIs(i, cache[i].info, cache[i].data)
BY DEF CacheIs, TypeOK, Caching

LEMMA CacheStays ==
    ASSUME TypeOK, NEW i \in Instance, UNCHANGED cache
    PROVE  CacheIs(i, cache[i].info, cache[i].data)
BY DEF CacheIs, TypeOK

LEMMA InvalidatedIs ==
    ASSUME TypeOK, NEW i \in Instance, Invalidated(i)
    PROVE  CacheIs(i, None, None)
BY DEF CacheIs, TypeOK, Caching, Invalidated, None

LEMMA SaveDataIs ==
    ASSUME TypeOK, NEW w \in Writer, SaveData(w)
    PROVE  /\ \E at \in {"info", "infoOnly"} : WriterIs(w, at, saves + 1)
           /\ objects' \in [data: SUBSET Nat, info: SUBSET Nat] /\ objects'.info = objects.info
           /\ objects'.data = objects.data \cup {saves + 1}
<1>1. \E at \in {"info", "infoOnly"} : WriterIs(w, at, saves + 1)
  BY DEF SaveData, WriterIs, TypeOK, Saving
<1>2. saves + 1 \in Nat /\ objects' = [objects EXCEPT !.data = objects.data \cup {saves + 1}]
  BY DEF SaveData, TypeOK
<1>3. objects.data \cup {saves + 1} \in SUBSET Nat
  BY <1>2 DEF TypeOK
<1>4. QED
  BY <1>1, <1>2, <1>3 DEF TypeOK

LEMMA SaveInfoIs ==
    ASSUME TypeOK, NEW w \in Writer, SaveInfo(w)
    PROVE  /\ \E at \in {"index", "indexOnly"} : WriterIs(w, at, writer[w].uid)
           /\ objects' \in [data: SUBSET Nat, info: SUBSET Nat] /\ objects'.data = objects.data
           /\ objects'.info = objects.info \cup {writer[w].uid}
<1>1. \E at \in {"index", "indexOnly"} : WriterIs(w, at, writer[w].uid)
  <2>1. CASE writer[w].at = "info"
    BY <2>1, GotoIs DEF SaveInfo
  <2>2. CASE writer[w].at = "infoOnly"
    BY <2>2, GotoIs DEF SaveInfo
  <2>3. QED
    BY <2>1, <2>2 DEF SaveInfo
<1>2. QED
  BY <1>1, Uids DEF SaveInfo, TypeOK

LEMMA SaveIndexIs ==
    ASSUME TypeOK, NEW w \in Writer, SaveIndex(w) \/ SaveIndexOnly(w)
    PROVE  \/ writer[w].at = "index" /\ WriterIs(w, "cacheInfo", writer[w].uid)
           \/ writer[w].at = "indexOnly" /\ WriterIs(w, "idle", None)
<1>1. CASE SaveIndex(w)
  BY <1>1, GotoIs DEF SaveIndex
<1>2. CASE SaveIndexOnly(w)
  BY <1>2 DEF SaveIndexOnly, WriterIs, TypeOK, Saving, Idle, None
<1>3. QED
  BY <1>1, <1>2

LEMMA SaveCacheInfoIs ==
    ASSUME TypeOK, NEW w \in Writer, CacheInfo(w)
    PROVE  /\ WriterIs(w, "cacheData", writer[w].uid)
           /\ CacheIs(home[w], writer[w].uid, cache[home[w]].data)
BY GotoIs, CacheInfoIs, Uids DEF CacheInfo, Put

(* A writer that has filled the cache does nothing more that matters here.   *)
WriterLeaves(w) ==
    \/ WriterIs(w, "idle", None)
    \/ \E at \in {"etag", "publish"} : WriterIs(w, at, writer[w].uid)

LEMMA SaveCacheDataIs ==
    ASSUME TypeOK, NEW w \in Writer, CacheData(w)
    PROVE  /\ WriterLeaves(w)
           /\ CacheIs(home[w], cache[home[w]].info, writer[w].uid)
<1>1. kind \in {"plain", "etag", "mq"}
  BY SetupIs
<1>2. AfterSave \in {"idle", "etag", "publish"}
  BY <1>1 DEF AfterSave
<1>3. WriterIs(w, AfterSave, IF AfterSave = "idle" THEN None ELSE writer[w].uid)
  BY <1>2, GotoIs DEF CacheData
<1>4. WriterLeaves(w)
  BY <1>2, <1>3 DEF WriterLeaves
<1>5. QED
  BY <1>4, CacheDataIs, Uids DEF CacheData, Put

LEMMA SaveEndIs ==
    ASSUME TypeOK, NEW w \in Writer, SaveEtag(w) \/ PublishInvalidation(w)
    PROVE  /\ WriterIs(w, "idle", None)
           /\ CacheIs(home[w], cache[home[w]].info, cache[home[w]].data)
BY GotoIs, CacheEtagIs, CacheStays, Uids DEF SaveEtag, PublishInvalidation, Put

LEMMA GetInfoIs ==
    ASSUME TypeOK, NEW r \in Reader, GetInfo(r)
    PROVE  ReaderIs(r, "info", Index)
BY AtIs, IndexKnown DEF GetInfo

(* Steps after which a reader holds nothing to put into the cache.           *)
LEMMA GetDataIs ==
    ASSUME TypeOK, NEW r \in Reader, GetData(r)
    PROVE  \E at \in {"ttl", "invalidate"} : ReaderIs(r, at, None)
BY AtIs DEF GetData, None

LEMMA InvalidateIs ==
    ASSUME TypeOK, NEW r \in Reader, Invalidate(r)
    PROVE  ReaderIs(r, "ttl", None) /\ CacheIs(home[r], None, None)
BY AtIs, InvalidatedIs, Uids DEF Invalidate, None

LEMMA NeedInfoIs ==
    ASSUME TypeOK, NEW r \in Reader, NeedInfo(r)
    PROVE  \/ \E at \in {"ttlInfo", "ttlInfoAgain"} : ReaderIs(r, at, Index)
           \/ \E at \in {"look", "index"} : ReaderIs(r, at, None)
<1>1. CASE cache[home[r]].info = None
  <2>1. CASE reader[r].at = "ttl"
    BY <1>1, <2>1, AtIs, IndexKnown DEF NeedInfo
  <2>2. CASE reader[r].at = "ttlAgain"
    BY <1>1, <2>2, AtIs, IndexKnown DEF NeedInfo
  <2>3. QED
    BY <2>1, <2>2 DEF NeedInfo
<1>2. CASE cache[home[r]].info # None
  <2>1. Inner(reader[r].at) \in {"look", "index"}
    BY DEF Inner
  <2>2. ReaderIs(r, Inner(reader[r].at), None)
    BY <1>2, <2>1, AtIs DEF NeedInfo, None
  <2>3. QED
    BY <2>1, <2>2
<1>3. QED
  BY <1>1, <1>2

LEMMA FetchInfoIs ==
    ASSUME TypeOK, NEW r \in Reader, FetchInfo(r)
    PROVE  /\ FetchingInfo(r) /\ \E at \in {"idle", "look", "index"} : ReaderIs(r, at, None)
           /\ CacheIs(home[r], reader[r].uid, cache[home[r]].data)
<1>1. Inner("ttl") \in {"look", "index"}
  BY DEF Inner
<1>2. \E at \in {"idle", "look", "index"} : ReaderIs(r, at, None)
  <2>1. CASE reader[r].at = "info"
    BY <2>1, AtIs DEF FetchInfo, None
  <2>2. CASE reader[r].at = "ttlInfo"
    BY <1>1, <2>2, AtIs DEF FetchInfo, None
  <2>3. CASE reader[r].at = "ttlInfoAgain"
    BY <2>3, AtIs DEF FetchInfo, None
  <2>4. QED
    BY <2>1, <2>2, <2>3 DEF FetchInfo
<1>3. QED
  BY <1>2, CacheInfoIs, Uids DEF FetchInfo, FetchingInfo, Put

LEMMA LookAgainIs ==
    ASSUME TypeOK, NEW r \in Reader, LookAgain(r)
    PROVE  ReaderIs(r, "etag", cache[home[r]].data) \/ ReaderIs(r, "ttlAgain", None)
BY AtIs, Uids DEF LookAgain, None

LEMMA GetIndexIs ==
    ASSUME TypeOK, NEW r \in Reader, GetIndex(r)
    PROVE  ReaderIs(r, "data", Index)
BY AtIs, IndexKnown DEF GetIndex

LEMMA FetchDataIs ==
    ASSUME TypeOK, NEW r \in Reader, FetchData(r)
    PROVE  /\ ReaderIs(r, "etag", reader[r].uid) \/ ReaderIs(r, "idle", None)
           /\ CacheIs(home[r], cache[home[r]].info, reader[r].uid)
BY AtIs, CacheDataIs, Uids DEF FetchData, Put, None

LEMMA FetchEtagIs ==
    ASSUME TypeOK, NEW r \in Reader, FetchEtag(r)
    PROVE  /\ ReaderIs(r, "put", reader[r].uid)
           /\ CacheIs(home[r], cache[home[r]].info, cache[home[r]].data)
BY AtIs, CacheEtagIs, CacheStays, IndexKnown, Uids DEF FetchEtag, Put

LEMMA PutDataIs ==
    ASSUME TypeOK, NEW r \in Reader, PutData(r)
    PROVE  /\ ReaderIs(r, "idle", None)
           /\ CacheIs(home[r], cache[home[r]].info, reader[r].uid)
BY AtIs, CacheDataIs, Uids DEF PutData, Put, None

(* An entry that expires, or the cache of a process that died.               *)
Forgets(i) ==
    \E info \in {None, cache[i].info}, data \in {None, cache[i].data} : CacheIs(i, info, data)

LEMMA ExpireIs ==
    ASSUME TypeOK, NEW i \in Instance, NEW entry \in Entry, Expire(i, entry)
    PROVE  Forgets(i)
<1>1. CASE entry = "info"
  BY <1>1, CacheInfoIs DEF Expire, Forgets, None
<1>2. CASE entry = "data"
  BY <1>2, CacheDataIs DEF Expire, Forgets, None
<1>3. CASE entry = "etag"
  BY <1>3, CacheEtagIs DEF Expire, Forgets, None
<1>4. QED
  BY <1>1, <1>2, <1>3 DEF Entry

(* A thread that does not find the directory for the expiry gives up.        *)
LEMMA WriteExpiryFailsIs ==
    ASSUME TypeOK, NEW t \in Writer \cup Reader, WriteExpiryFails(t)
    PROVE  /\ writer' \in [Writer -> Saving] /\ reader' \in [Reader -> Reading]
           /\ \A w \in Writer : writer'[w] = writer[w] \/ (writer'[w].at = "idle" /\ writer'[w].uid = None)
           /\ \A r \in Reader : reader'[r] = reader[r] \/ (reader'[r].at = "idle" /\ reader'[r].uid = None)
<1>1. Idle \in Saving /\ Idle \in Reading /\ Idle.at = "idle" /\ Idle.uid = None
  BY DEF Saving, Reading, Idle, None
<1>2. writer' = [writer EXCEPT ![t] = Idle] \/ writer' = writer
  BY DEF WriteExpiryFails
<1>3. reader' = [reader EXCEPT ![t] = Idle] \/ reader' = reader
  BY DEF WriteExpiryFails
<1>4. /\ writer' \in [Writer -> Saving]
      /\ \A w \in Writer : writer'[w] = writer[w] \/ writer'[w] = Idle
  BY <1>1, <1>2 DEF TypeOK
<1>5. /\ reader' \in [Reader -> Reading]
      /\ \A r \in Reader : reader'[r] = reader[r] \/ reader'[r] = Idle
  BY <1>1, <1>3 DEF TypeOK
<1>6. QED
  BY <1>1, <1>4, <1>5

(* The expiries written and removed.                                          *)
LEMMA PutTimers ==
    ASSUME TypeOK, NEW t \in Writer \cup Reader, NEW entry \in Entry, NEW uid, Put(t, entry, uid)
    PROVE  TimersOK'
BY DEF Put, TypeOK, TimersOK

LEMMA InvalidatedTimers ==
    ASSUME TypeOK, NEW i \in Instance, Invalidated(i)
    PROVE  TimersOK'
BY DEF Invalidated, TypeOK, TimersOK

LEMMA SameTimers == ASSUME TypeOK, UNCHANGED timers PROVE TimersOK'
BY DEF TypeOK, TimersOK, timers

LEMMA CrashIs ==
    ASSUME TypeOK, NEW i \in Instance, Crash(i)
    PROVE  /\ Forgets(i)
           /\ writer' \in [Writer -> Saving] /\ reader' \in [Reader -> Reading]
           /\ \A w \in Writer : writer'[w] = writer[w] \/ (writer'[w].at = "idle" /\ writer'[w].uid = None)
           /\ \A r \in Reader : reader'[r] = reader[r] \/ (reader'[r].at = "idle" /\ reader'[r].uid = None)
<1>1. CacheIs(i, None, None) \/ CacheIs(i, cache[i].info, cache[i].data)
  <2>1. cache' = [cache EXCEPT ![i] = Empty] \/ UNCHANGED cache
    BY DEF Crash
  <2>2. ASSUME cache' = [cache EXCEPT ![i] = Empty] PROVE CacheIs(i, None, None)
    BY <2>2 DEF CacheIs, TypeOK, Caching, Empty, None
  <2>3. QED
    BY <2>1, <2>2, CacheStays
<1>2. QED
  BY <1>1 DEF Crash, Forgets, TypeOK, Saving, Reading, Idle, None

-----------------------------------------------------------------------------
LEMMA TypeInit == ASSUME Init PROVE TypeOK
<1>1. Setup \in Setups
  <2>1. PICK setup \in Setups : kind = setup.kind /\ layer = setup.layer /\ home = setup.home
    BY DEF Init, SetUp
  <2>2. setup \in [kind: {"plain", "etag", "mq"}, layer: {"memory", "disk"},
                    home: [Writer \cup Reader -> Instance]]
    BY RevisionCacheAssumption
  <2>3. QED
    BY <2>1, <2>2 DEF Setup
<1>2. Empty \in Caching /\ Idle \in Saving /\ Idle \in Reading
  BY DEF Empty, Idle, Caching, Saving, Reading, None
<1>3. objects \in [data: SUBSET Nat, info: SUBSET Nat] /\ TimersOK
  BY DEF Init, NoTimers, TimersOK
<1>4. order \in Seq(Nat)
  BY DEF Init
<1>5. QED
  BY <1>1, <1>2, <1>3, <1>4 DEF Init, TypeOK

LEMMA TypeSteps == ASSUME TypeOK, Known, [Next]_vars PROVE TypeOK'
<1> USE DEF TypeOK, Setup, fixed, store, history, bounds, WriterIs, ReaderIs, CacheIs
<1>1. ASSUME NEW w \in Writer, SaveData(w) PROVE TypeOK'
  BY <1>1, SaveDataIs, SameTimers DEF SaveData
<1>2. ASSUME NEW w \in Writer, SaveInfo(w) PROVE TypeOK'
  BY <1>2, SaveInfoIs, SameTimers DEF SaveInfo
<1>3. ASSUME NEW w \in Writer, SaveIndex(w) PROVE TypeOK'
  BY <1>3, SaveIndexIs, AppendUid, SameTimers, Uids DEF SaveIndex
<1>4. ASSUME NEW w \in Writer, SaveIndexOnly(w) PROVE TypeOK'
  BY <1>4, SaveIndexIs, AppendUid, SameTimers, Uids DEF SaveIndexOnly
<1>5. ASSUME NEW w \in Writer, CacheInfo(w) PROVE TypeOK'
  <2>1. home[w] \in Instance
    BY Uids
  <2>2. QED
    BY <1>5, <2>1, SaveCacheInfoIs, PutTimers DEF CacheInfo, Entry
<1>6. ASSUME NEW w \in Writer, CacheData(w) PROVE TypeOK'
  <2>1. home[w] \in Instance
    BY Uids
  <2>2. Place(writer[w].uid) \in Nat
    BY <1>6, PlaceKnown, Members DEF CacheData, Known, Filling
  <2>3. QED
    BY <1>6, <2>1, <2>2, SaveCacheDataIs, PutTimers DEF CacheData, WriterLeaves, Entry
<1>7. ASSUME NEW w \in Writer, SaveEtag(w) PROVE TypeOK'
  BY <1>7, SaveEndIs, PutTimers, SameTimers DEF SaveEtag, Entry
<1>8. ASSUME NEW w \in Writer, PublishInvalidation(w) PROVE TypeOK'
  BY <1>8, SaveEndIs, SameTimers DEF PublishInvalidation
<1>9. ASSUME NEW r \in Reader, GetInfo(r) PROVE TypeOK'
  BY <1>9, GetInfoIs, SameTimers DEF GetInfo
<1>10. ASSUME NEW r \in Reader, GetData(r) PROVE TypeOK'
  BY <1>10, GetDataIs, SameTimers DEF GetData
<1>11. ASSUME NEW r \in Reader, Invalidate(r) PROVE TypeOK'
  BY <1>11, InvalidateIs, InvalidatedTimers, Uids DEF Invalidate
<1>12. ASSUME NEW r \in Reader, NeedInfo(r) PROVE TypeOK'
  BY <1>12, NeedInfoIs, SameTimers DEF NeedInfo
<1>13. ASSUME NEW r \in Reader, FetchInfo(r) PROVE TypeOK'
  BY <1>13, FetchInfoIs, PutTimers DEF FetchInfo, Entry
<1>14. ASSUME NEW r \in Reader, LookAgain(r) PROVE TypeOK'
  BY <1>14, LookAgainIs, SameTimers DEF LookAgain
<1>15. ASSUME NEW r \in Reader, GetIndex(r) PROVE TypeOK'
  BY <1>15, GetIndexIs, SameTimers DEF GetIndex
<1>16. ASSUME NEW r \in Reader, FetchData(r) PROVE TypeOK'
  BY <1>16, FetchDataIs, PutTimers DEF FetchData, Entry
<1>17. ASSUME NEW r \in Reader, FetchEtag(r) PROVE TypeOK'
  BY <1>17, FetchEtagIs, PutTimers, SameTimers DEF FetchEtag, Entry
<1>18. ASSUME NEW r \in Reader, PutData(r) PROVE TypeOK'
  BY <1>18, PutDataIs, PutTimers DEF PutData, Entry
<1>19. ASSUME NEW i \in Instance, OnMessage(i) PROVE TypeOK'
  BY <1>19, InvalidatedIs, InvalidatedTimers DEF OnMessage
<1>20. ASSUME NEW i \in Instance, NEW entry \in Entry, Expire(i, entry)
      PROVE  TypeOK'
  <2>1. TimersOK'
    BY <1>20 DEF Expire, TimersOK
  <2>2. QED
    BY <1>20, <2>1, ExpireIs DEF Expire, Forgets
<1>21. ASSUME NEW i \in Instance, Crash(i) PROVE TypeOK'
  <2>1. UNCHANGED <<fixed, store, messages, history, saves>> /\ crashes' = crashes + 1
    BY <1>21 DEF Crash
  <2>2. Forgets(i) /\ writer' \in [Writer -> Saving] /\ reader' \in [Reader -> Reading]
    BY <1>21, CrashIs
  <2>3. TimersOK'
    BY <1>21, SetupIs DEF Crash, TimersOK
  <2>4. QED
    BY <2>1, <2>2, <2>3 DEF Forgets
<1>22. ASSUME NEW i \in Instance, NEW entry \in Entry, RemoveExpiry(i, entry)
      PROVE  TypeOK'
  BY <1>22 DEF RemoveExpiry, TimersOK
<1>23. ASSUME NEW t \in Writer \cup Reader, WriteExpiry(t) PROVE TypeOK'
  BY <1>23, SetupIs DEF WriteExpiry, TimersOK
<1>24. ASSUME NEW t \in Writer \cup Reader, WriteExpiryFails(t) PROVE TypeOK'
  <2>1. TimersOK'
    BY <1>24 DEF WriteExpiryFails, TimersOK
  <2>2. QED
    BY <1>24, <2>1, WriteExpiryFailsIs DEF WriteExpiryFails
<1>25. CASE UNCHANGED vars
  BY <1>25, SameTimers DEF vars
<1>26. QED
  BY <1>1, <1>2, <1>3, <1>4, <1>5, <1>6, <1>7, <1>8, <1>9, <1>10, <1>11,
     <1>12, <1>13, <1>14, <1>15, <1>16, <1>17, <1>18, <1>19, <1>20, <1>21,
     <1>22, <1>23, <1>24, <1>25
  DEF Next, Save, Read, SaveStep, ReadStep, Timer

LEMMA KnownInit == ASSUME Init PROVE Known
BY DEF Init, Known, Found, Filling, Empty, Idle, None, ToSet

LEMMA KnownSteps == ASSUME TypeOK, Known, [Next]_vars PROVE Known'
<1> USE Uids DEF Known, Found, Filling, fixed, store, history, bounds, WriterIs, ReaderIs, CacheIs
<1>1. ASSUME NEW w \in Writer, SaveData(w) PROVE Known'
  <2>1. PICK at \in {"info", "infoOnly"} : WriterIs(w, at, saves + 1)
    BY <1>1, SaveDataIs
  <2>2. objects'.info = objects.info /\ objects'.data = objects.data \cup {saves + 1}
    BY <1>1, SaveDataIs
  <2>3. UNCHANGED <<order, cache, reader>>
    BY <1>1 DEF SaveData
  <2>4. QED
    BY <2>1, <2>2, <2>3
<1>2. ASSUME NEW w \in Writer, SaveInfo(w) PROVE Known'
  <2>1. PICK at \in {"index", "indexOnly"} : WriterIs(w, at, writer[w].uid)
    BY <1>2, SaveInfoIs
  <2>2. objects'.data = objects.data /\ objects'.info = objects.info \cup {writer[w].uid}
    BY <1>2, SaveInfoIs
  <2>3. UNCHANGED <<order, cache, reader>> /\ writer[w].at \in {"info", "infoOnly"}
    BY <1>2 DEF SaveInfo
  <2>4. QED
    BY <2>1, <2>2, <2>3
<1>3. ASSUME NEW w \in Writer, SaveIndex(w) PROVE Known'
  <2>1. WriterIs(w, "cacheInfo", writer[w].uid)
    BY <1>3, SaveIndexIs DEF SaveIndex
  <2>2. ToSet(order') = ToSet(order) \cup {writer[w].uid}
    BY <1>3, AppendUid DEF SaveIndex, TypeOK
  <2>3. UNCHANGED <<objects, cache, reader>> /\ writer[w].at = "index"
    BY <1>3 DEF SaveIndex
  <2>4. QED
    BY <2>1, <2>2, <2>3
<1>4. ASSUME NEW w \in Writer, SaveIndexOnly(w) PROVE Known'
  <2>1. WriterIs(w, "idle", None)
    BY <1>4, SaveIndexIs DEF SaveIndexOnly
  <2>2. ToSet(order') = ToSet(order) \cup {writer[w].uid}
    BY <1>4, AppendUid DEF SaveIndexOnly, TypeOK
  <2>3. UNCHANGED <<objects, cache, reader>> /\ writer[w].at = "indexOnly"
    BY <1>4 DEF SaveIndexOnly
  <2>4. QED
    BY <2>1, <2>2, <2>3
<1>5. ASSUME NEW w \in Writer, CacheInfo(w) PROVE Known'
  <2>1. WriterIs(w, "cacheData", writer[w].uid) /\ CacheIs(home[w], writer[w].uid, cache[home[w]].data)
    BY <1>5, SaveCacheInfoIs
  <2>2. UNCHANGED <<objects, order, reader>> /\ writer[w].at = "cacheInfo"
    BY <1>5 DEF CacheInfo
  <2>3. QED
    BY <2>1, <2>2
<1>6. ASSUME NEW w \in Writer, CacheData(w) PROVE Known'
  <2>1. WriterLeaves(w) /\ CacheIs(home[w], cache[home[w]].info, writer[w].uid)
    BY <1>6, SaveCacheDataIs
  <2>2. UNCHANGED <<objects, order, reader>> /\ writer[w].at = "cacheData"
    BY <1>6 DEF CacheData
  <2>3. QED
    BY <2>1, <2>2 DEF WriterLeaves
<1>7. ASSUME NEW w \in Writer, SaveEtag(w) PROVE Known'
  <2>1. WriterIs(w, "idle", None) /\ CacheIs(home[w], cache[home[w]].info, cache[home[w]].data)
    BY <1>7, SaveEndIs
  <2>2. UNCHANGED <<objects, order, reader>>
    BY <1>7 DEF SaveEtag
  <2>3. QED
    BY <2>1, <2>2
<1>8. ASSUME NEW w \in Writer, PublishInvalidation(w) PROVE Known'
  <2>1. WriterIs(w, "idle", None) /\ CacheIs(home[w], cache[home[w]].info, cache[home[w]].data)
    BY <1>8, SaveEndIs
  <2>2. UNCHANGED <<objects, order, reader>>
    BY <1>8 DEF PublishInvalidation
  <2>3. QED
    BY <2>1, <2>2
<1>9. ASSUME NEW r \in Reader, GetInfo(r) PROVE Known'
  <2>1. ReaderIs(r, "info", Index)
    BY <1>9, GetInfoIs
  <2>2. UNCHANGED <<objects, order, writer, cache>> /\ Index \in Found
    BY <1>9, IndexKnown DEF GetInfo
  <2>3. QED
    BY <2>1, <2>2
<1>10. ASSUME NEW r \in Reader, GetData(r) PROVE Known'
  <2>1. \E at \in {"ttl", "invalidate"} : ReaderIs(r, at, None)
    BY <1>10, GetDataIs
  <2>2. UNCHANGED <<objects, order, writer, cache>> /\ Index \in Found
    BY <1>10, IndexKnown DEF GetData
  <2>3. QED
    BY <2>1, <2>2
<1>11. ASSUME NEW r \in Reader, Invalidate(r) PROVE Known'
  <2>1. ReaderIs(r, "ttl", None) /\ CacheIs(home[r], None, None)
    BY <1>11, InvalidateIs
  <2>2. UNCHANGED <<objects, order, writer>>
    BY <1>11 DEF Invalidate
  <2>3. QED
    BY <2>1, <2>2
<1>12. ASSUME NEW r \in Reader, NeedInfo(r) PROVE Known'
  <2>1. \/ \E at \in {"ttlInfo", "ttlInfoAgain"} : ReaderIs(r, at, Index)
       \/ \E at \in {"look", "index"} : ReaderIs(r, at, None)
    BY <1>12, NeedInfoIs
  <2>2. UNCHANGED <<objects, order, writer, cache>> /\ Index \in Found
    BY <1>12, IndexKnown DEF NeedInfo
  <2>3. QED
    BY <2>1, <2>2
<1>13. ASSUME NEW r \in Reader, FetchInfo(r) PROVE Known'
  <2>1. /\ \E at \in {"idle", "look", "index"} : ReaderIs(r, at, None)
       /\ CacheIs(home[r], reader[r].uid, cache[home[r]].data)
    BY <1>13, FetchInfoIs
  <2>2. UNCHANGED <<objects, order, writer>>
    BY <1>13 DEF FetchInfo
  <2>3. QED
    BY <2>1, <2>2
<1>14. ASSUME NEW r \in Reader, LookAgain(r) PROVE Known'
  <2>1. ReaderIs(r, "etag", cache[home[r]].data) \/ ReaderIs(r, "ttlAgain", None)
    BY <1>14, LookAgainIs
  <2>2. UNCHANGED <<objects, order, writer, cache>> /\ Index \in Found
    BY <1>14, IndexKnown DEF LookAgain
  <2>3. QED
    BY <2>1, <2>2
<1>15. ASSUME NEW r \in Reader, GetIndex(r) PROVE Known'
  <2>1. ReaderIs(r, "data", Index)
    BY <1>15, GetIndexIs
  <2>2. UNCHANGED <<objects, order, writer, cache>> /\ Index \in Found
    BY <1>15, IndexKnown DEF GetIndex
  <2>3. QED
    BY <2>1, <2>2
<1>16. ASSUME NEW r \in Reader, FetchData(r) PROVE Known'
  <2>1. /\ ReaderIs(r, "etag", reader[r].uid) \/ ReaderIs(r, "idle", None)
       /\ CacheIs(home[r], cache[home[r]].info, reader[r].uid)
    BY <1>16, FetchDataIs
  <2>2. UNCHANGED <<objects, order, writer>>
    BY <1>16 DEF FetchData
  <2>3. QED
    BY <2>1, <2>2
<1>17. ASSUME NEW r \in Reader, FetchEtag(r) PROVE Known'
  <2>1. ReaderIs(r, "put", reader[r].uid) /\ CacheIs(home[r], cache[home[r]].info, cache[home[r]].data)
    BY <1>17, FetchEtagIs
  <2>2. UNCHANGED <<objects, order, writer>>
    BY <1>17 DEF FetchEtag
  <2>3. QED
    BY <2>1, <2>2
<1>18. ASSUME NEW r \in Reader, PutData(r) PROVE Known'
  <2>1. ReaderIs(r, "idle", None) /\ CacheIs(home[r], cache[home[r]].info, reader[r].uid)
    BY <1>18, PutDataIs
  <2>2. UNCHANGED <<objects, order, writer>>
    BY <1>18 DEF PutData
  <2>3. QED
    BY <2>1, <2>2
<1>19. ASSUME NEW i \in Instance, OnMessage(i) PROVE Known'
  BY <1>19, InvalidatedIs DEF OnMessage
<1>20. ASSUME NEW i \in Instance, NEW entry \in Entry, Expire(i, entry)
      PROVE  Known'
  BY <1>20, ExpireIs DEF Expire, Forgets
<1>21. ASSUME NEW i \in Instance, Crash(i) PROVE Known'
  <2>1. UNCHANGED <<objects, order>>
    BY <1>21 DEF Crash
  <2>2. PICK info \in {None, cache[i].info}, data \in {None, cache[i].data} : CacheIs(i, info, data)
    BY <1>21, CrashIs DEF Forgets
  <2>3. \A j \in Instance : cache'[j].info \in Found /\ cache'[j].data \in Found
    BY <2>2
  <2>4. /\ \A w \in Writer : writer'[w] = writer[w] \/ (writer'[w].at = "idle" /\ writer'[w].uid = None)
        /\ \A r \in Reader : reader'[r] = reader[r] \/ (reader'[r].at = "idle" /\ reader'[r].uid = None)
    BY <1>21, CrashIs
  <2>5. QED
    BY <2>1, <2>3, <2>4
<1>22. ASSUME NEW i \in Instance, NEW entry \in Entry, RemoveExpiry(i, entry)
      PROVE  Known'
  BY <1>22 DEF RemoveExpiry
<1>23. ASSUME NEW t \in Writer \cup Reader, WriteExpiry(t) PROVE Known'
  BY <1>23 DEF WriteExpiry
<1>24. ASSUME NEW t \in Writer \cup Reader, WriteExpiryFails(t) PROVE Known'
  BY <1>24, WriteExpiryFailsIs DEF WriteExpiryFails
<1>25. CASE UNCHANGED vars
  BY <1>25 DEF vars
<1>26. QED
  BY <1>1, <1>2, <1>3, <1>4, <1>5, <1>6, <1>7, <1>8, <1>9, <1>10, <1>11,
     <1>12, <1>13, <1>14, <1>15, <1>16, <1>17, <1>18, <1>19, <1>20, <1>21,
     <1>22, <1>23, <1>24, <1>25
  DEF Next, Save, Read, SaveStep, ReadStep, Timer

-----------------------------------------------------------------------------
(* A step after which a writer has the uid it had, or none.                  *)
Keeps(w) ==
    \/ writer'[w] = writer[w]
    \/ writer'[w].at = "idle" /\ writer'[w].uid = None
    \/ /\ writer'[w].uid = writer[w].uid /\ writer[w].at # "idle"
       /\ Unindexed(w)' => Unindexed(w)

LEMMA DistinctKept ==
    ASSUME TypeOK, Distinct, UNCHANGED <<order, saves>>, \A w \in Writer : Keeps(w)
    PROVE  Distinct'
<1>1. \A w \in Writer : writer'[w].uid <= saves
  <2>1. 0 <= saves /\ \A w \in Writer : writer[w].uid <= saves
    BY DEF Distinct, TypeOK
  <2>2. QED
    BY <2>1 DEF Keeps, None
<1>2. \A w \in Writer : /\ writer'[w].at # "idle" => writer[w].at # "idle" /\ writer'[w].uid = writer[w].uid
                        /\ Unindexed(w)' => Unindexed(w) /\ writer'[w].uid = writer[w].uid
  BY DEF Keeps, Unindexed
<1>3. /\ \A n \in 1..Len(order') : order'[n] <= saves'
      /\ \A m, n \in 1..Len(order') : order'[m] = order'[n] => m = n
  BY DEF Distinct
<1>4. \A v, w \in Writer : v # w /\ writer'[v].at # "idle" /\ writer'[w].at # "idle" =>
                            writer'[v].uid # writer'[w].uid
  <2> SUFFICES ASSUME NEW v \in Writer, NEW w \in Writer, v # w,
                      writer'[v].at # "idle", writer'[w].at # "idle"
               PROVE  writer'[v].uid # writer'[w].uid
    OBVIOUS
  <2>1. writer[v].uid # writer[w].uid
    BY <1>2 DEF Distinct
  <2>2. QED
    BY <1>2, <2>1
<1>5. \A w \in Writer, n \in 1..Len(order') : Unindexed(w)' => order'[n] # writer'[w].uid
  <2> SUFFICES ASSUME NEW w \in Writer, NEW n \in 1..Len(order'), Unindexed(w)'
               PROVE  order'[n] # writer'[w].uid
    OBVIOUS
  <2>1. writer'[w].uid = writer[w].uid /\ Unindexed(w)
    BY <1>2
  <2>2. QED
    BY <2>1 DEF Distinct
<1>6. QED
  BY <1>1, <1>3, <1>4, <1>5 DEF Distinct

LEMMA IndexedOnce ==
    ASSUME TypeOK, Distinct, NEW w \in Writer, Unindexed(w), order' = Append(order, writer[w].uid),
           saves' = saves, NEW at, NEW uid, WriterIs(w, at, uid), ~(Unindexed(w)'),
           (at = "idle" /\ uid = None) \/ uid = writer[w].uid
    PROVE  Distinct'
<1> USE DEF WriterIs
<1>1. /\ Len(order') = Len(order) + 1 /\ Len(order) \in Nat
      /\ \A n \in 1..Len(order) : order'[n] = order[n]
      /\ order'[Len(order) + 1] = writer[w].uid
  BY AppendUid, Uids DEF TypeOK
<1>2. \A n \in 1..Len(order) : order[n] <= saves /\ order[n] # writer[w].uid
  BY DEF Distinct
<1>3. \A n \in 1..Len(order') : order'[n] <= saves
  BY <1>1, <1>2 DEF Distinct
<1>4. \A m, n \in 1..Len(order') : order'[m] = order'[n] => m = n
  BY <1>1, <1>2 DEF Distinct
<1>5. \A v \in Writer : writer'[v].uid <= saves
  <2>1. ASSUME NEW v \in Writer, v # w PROVE writer'[v].uid <= saves
    BY <2>1 DEF Distinct
  <2>2. saves \in Nat /\ writer[w].uid <= saves
    BY DEF Distinct, TypeOK
  <2>3. writer'[w].uid <= saves
    BY <2>2 DEF None
  <2>4. QED
    BY <2>1, <2>3
<1>6. \A u, v \in Writer : u # v /\ writer'[u].at # "idle" /\ writer'[v].at # "idle" =>
                            writer'[u].uid # writer'[v].uid
  BY DEF Distinct, Unindexed
<1>7. \A v \in Writer, n \in 1..Len(order') : Unindexed(v)' => order'[n] # writer'[v].uid
  <2> SUFFICES ASSUME NEW v \in Writer, NEW n \in 1..Len(order'), Unindexed(v)'
               PROVE  order'[n] # writer'[v].uid
    OBVIOUS
  <2>1. v # w /\ writer'[v] = writer[v] /\ Unindexed(v)
    BY DEF Unindexed
  <2>2. writer[v].uid # writer[w].uid
    BY <2>1 DEF Distinct, Unindexed
  <2>3. QED
    BY <1>1, <2>1, <2>2 DEF Distinct
<1>8. QED
  BY <1>3, <1>4, <1>5, <1>6, <1>7 DEF Distinct

LEMMA DistinctInit == ASSUME Init PROVE Distinct
BY DEF Init, Distinct, Unindexed, Idle, None

LEMMA DistinctSteps == ASSUME TypeOK, Distinct, [Next]_vars PROVE Distinct'
<1> USE DEF fixed, store, history, bounds, WriterIs, Keeps, Unindexed
<1>1. ASSUME NEW w \in Writer, SaveData(w) PROVE Distinct'
  <2>1. PICK at \in {"info", "infoOnly"} : WriterIs(w, at, saves + 1)
    BY <1>1, SaveDataIs
  <2>2. order' = order /\ saves' = saves + 1 /\ saves \in Nat
    BY <1>1 DEF SaveData, TypeOK
  <2>3. \A n \in 1..Len(order) : order[n] \in Nat
    BY DEF TypeOK
  <2>4. \A v \in Writer : writer[v].uid \in Nat
    BY Uids
  <2>5. QED
    BY <2>1, <2>2, <2>3, <2>4 DEF Distinct
<1>2. ASSUME NEW w \in Writer, SaveInfo(w) PROVE Distinct'
  BY <1>2, SaveInfoIs, DistinctKept DEF SaveInfo
<1>3. ASSUME NEW w \in Writer, SaveIndex(w) PROVE Distinct'
  <2>1. WriterIs(w, "cacheInfo", writer[w].uid)
    BY <1>3, SaveIndexIs DEF SaveIndex
  <2>2. order' = Append(order, writer[w].uid) /\ saves' = saves
    BY <1>3 DEF SaveIndex
  <2>3. QED
    BY <1>3, <2>1, <2>2, IndexedOnce DEF SaveIndex
<1>4. ASSUME NEW w \in Writer, SaveIndexOnly(w) PROVE Distinct'
  <2>1. WriterIs(w, "idle", None)
    BY <1>4, SaveIndexIs DEF SaveIndexOnly
  <2>2. order' = Append(order, writer[w].uid) /\ saves' = saves
    BY <1>4 DEF SaveIndexOnly
  <2>3. QED
    BY <1>4, <2>1, <2>2, IndexedOnce DEF SaveIndexOnly
<1>5. ASSUME NEW w \in Writer, CacheInfo(w) PROVE Distinct'
  BY <1>5, SaveCacheInfoIs, DistinctKept DEF CacheInfo
<1>6. ASSUME NEW w \in Writer, CacheData(w) PROVE Distinct'
  BY <1>6, SaveCacheDataIs, DistinctKept DEF CacheData, WriterLeaves
<1>7. ASSUME NEW w \in Writer, SaveEtag(w) PROVE Distinct'
  BY <1>7, SaveEndIs, DistinctKept DEF SaveEtag
<1>8. ASSUME NEW w \in Writer, PublishInvalidation(w) PROVE Distinct'
  BY <1>8, SaveEndIs, DistinctKept DEF PublishInvalidation
<1>9. ASSUME NEW r \in Reader, GetInfo(r) PROVE Distinct'
  BY <1>9, GetInfoIs, DistinctKept DEF GetInfo
<1>10. ASSUME NEW r \in Reader, GetData(r) PROVE Distinct'
  BY <1>10, GetDataIs, DistinctKept DEF GetData
<1>11. ASSUME NEW r \in Reader, Invalidate(r) PROVE Distinct'
  BY <1>11, InvalidateIs, DistinctKept DEF Invalidate
<1>12. ASSUME NEW r \in Reader, NeedInfo(r) PROVE Distinct'
  BY <1>12, NeedInfoIs, DistinctKept DEF NeedInfo
<1>13. ASSUME NEW r \in Reader, FetchInfo(r) PROVE Distinct'
  BY <1>13, FetchInfoIs, DistinctKept DEF FetchInfo
<1>14. ASSUME NEW r \in Reader, LookAgain(r) PROVE Distinct'
  BY <1>14, LookAgainIs, DistinctKept DEF LookAgain
<1>15. ASSUME NEW r \in Reader, GetIndex(r) PROVE Distinct'
  BY <1>15, GetIndexIs, DistinctKept DEF GetIndex
<1>16. ASSUME NEW r \in Reader, FetchData(r) PROVE Distinct'
  BY <1>16, FetchDataIs, DistinctKept DEF FetchData
<1>17. ASSUME NEW r \in Reader, FetchEtag(r) PROVE Distinct'
  BY <1>17, FetchEtagIs, DistinctKept DEF FetchEtag
<1>18. ASSUME NEW r \in Reader, PutData(r) PROVE Distinct'
  BY <1>18, PutDataIs, DistinctKept DEF PutData
<1>19. ASSUME NEW i \in Instance, OnMessage(i) PROVE Distinct'
  BY <1>19, InvalidatedIs, DistinctKept DEF OnMessage
<1>20. ASSUME NEW i \in Instance, NEW entry \in Entry, Expire(i, entry)
      PROVE  Distinct'
  BY <1>20, ExpireIs, DistinctKept DEF Expire, Forgets
<1>21. ASSUME NEW i \in Instance, Crash(i) PROVE Distinct'
  BY <1>21, CrashIs, DistinctKept DEF Crash, Forgets
<1>22. ASSUME NEW i \in Instance, NEW entry \in Entry, RemoveExpiry(i, entry)
      PROVE  Distinct'
  BY <1>22, DistinctKept DEF RemoveExpiry
<1>23. ASSUME NEW t \in Writer \cup Reader, WriteExpiry(t) PROVE Distinct'
  BY <1>23, DistinctKept DEF WriteExpiry
<1>24. ASSUME NEW t \in Writer \cup Reader, WriteExpiryFails(t) PROVE Distinct'
  BY <1>24, WriteExpiryFailsIs, DistinctKept DEF WriteExpiryFails
<1>25. CASE UNCHANGED vars
  BY <1>25, DistinctKept DEF vars
<1>26. QED
  BY <1>1, <1>2, <1>3, <1>4, <1>5, <1>6, <1>7, <1>8, <1>9, <1>10, <1>11,
     <1>12, <1>13, <1>14, <1>15, <1>16, <1>17, <1>18, <1>19, <1>20, <1>21,
     <1>22, <1>23, <1>24, <1>25
  DEF Next, Save, Read, SaveStep, ReadStep, Timer


-----------------------------------------------------------------------------
(* Where a step finds what it caches and what a reader takes with it.        *)
InfoFrom(i) ==
    \/ cache'[i].info \in {None, cache[i].info}
    \/ \E r \in Reader : home[r] = i /\ FetchingInfo(r) /\ cache'[i].info = reader[r].uid

DataFrom(i) ==
    \/ cache'[i].data \in {None, cache[i].data}
    \/ \E r \in Reader : home[r] = i /\ cache'[i].data = reader[r].uid

ReadFrom(r) ==
    \/ reader'[r].uid \in {None, Index}
    \/ reader'[r].uid = reader[r].uid /\ (FetchingInfo(r)' => FetchingInfo(r))
    \/ reader'[r].uid = cache[home[r]].data /\ ~(FetchingInfo(r)')

LEMMA OwnIs == ASSUME TypeOK PROVE \A i \in Instance : own[i] \in Nat
BY DEF TypeOK

(* Nothing is younger than the index.                                        *)
LEMMA IndexLast ==
    ASSUME TypeOK, Distinct, Index # None
    PROVE  Len(order) \in Nat /\ \A n \in 1..Len(order) : order[n] = Index => n = Len(order)
<1>1. order # <<>> /\ Index = order[Len(order)] /\ Len(order) \in 1..Len(order)
  BY DEF Index, Last, TypeOK
<1>2. QED
  BY <1>1 DEF Distinct

LEMMA PlaceOfSave ==
    ASSUME TypeOK, Known, Distinct, NEW w \in Writer, Filling(w)
    PROVE  /\ Place(writer[w].uid) \in 1..Len(order) /\ order[Place(writer[w].uid)] = writer[w].uid
           /\ \A n \in 1..Len(order) : order[n] = writer[w].uid => n = Place(writer[w].uid)
<1>1. writer[w].uid \in ToSet(order)
  BY DEF Known
<1>2. Place(writer[w].uid) \in 1..Len(order) /\ order[Place(writer[w].uid)] = writer[w].uid
  BY <1>1, PlaceKnown
<1>3. QED
  BY <1>2 DEF Distinct

LEMMA OrderedKept ==
    ASSUME TypeOK, Distinct, Ordered, UNCHANGED <<home, order, own, raced>>,
           \A i \in Instance : InfoFrom(i) /\ DataFrom(i),
           \A r \in Reader : ReadFrom(r),
           \A w \in Writer : writer'[w].at = "cacheData" => writer'[w] = writer[w]
    PROVE  Ordered'
<1>1. \A i \in Instance : own'[i] <= Len(order')
  BY DEF Ordered
<1>2. \A i \in Instance \ raced : Seen(i, None) /\ Seen(i, Index)
  BY IndexLast DEF Seen, Ordered
<1>3. \A i \in Instance \ raced : Seen(i, cache'[i].info) /\ Seen(i, cache'[i].data)
  BY <1>2 DEF Ordered, InfoFrom, DataFrom
<1>4. \A r \in Reader : home[r] \notin raced => Seen(home[r], reader'[r].uid)
  BY <1>2, Uids DEF Ordered, ReadFrom
<1>5. \A w \in Writer : After(w, None) /\ After(w, Index)
  <2>1. \A w \in Writer : After(w, None)
    BY DEF After
  <2>2. CASE Index = None
    BY <2>1, <2>2
  <2>3. CASE Index # None
    BY <2>3, IndexLast DEF After
  <2>4. QED
    BY <2>1, <2>2, <2>3
<1>6. \A w \in Writer : writer'[w].at = "cacheData" /\ home[w] \notin raced =>
        /\ writer'[w] = writer[w] /\ After(w, cache'[home[w]].info)
        /\ \A r \in Reader : home[r] = home[w] /\ FetchingInfo(r)' => After(w, reader'[r].uid)
  <2> SUFFICES ASSUME NEW w \in Writer, writer'[w].at = "cacheData", home[w] \notin raced
               PROVE  /\ writer'[w] = writer[w] /\ After(w, cache'[home[w]].info)
                      /\ \A r \in Reader : home[r] = home[w] /\ FetchingInfo(r)' => After(w, reader'[r].uid)
    OBVIOUS
  <2>1. writer'[w] = writer[w] /\ writer[w].at = "cacheData" /\ home[w] \in Instance
    BY Uids
  <2>2. After(w, cache'[home[w]].info)
    BY <1>5, <2>1 DEF Ordered, InfoFrom
  <2>3. \A r \in Reader : home[r] = home[w] /\ FetchingInfo(r)' => After(w, reader'[r].uid)
    BY <1>5, <2>1 DEF Ordered, ReadFrom
  <2>4. QED
    BY <2>1, <2>2, <2>3
<1>7. \A i \in Instance \ raced' : Seen(i, cache[i].info)' /\ Seen(i, cache[i].data)'
  BY <1>3 DEF Seen
<1>8. \A r \in Reader : home'[r] \notin raced' => Seen(home[r], reader[r].uid)'
  BY <1>4 DEF Seen
<1>9. \A w \in Writer : writer'[w].at = "cacheData" /\ home'[w] \notin raced' =>
        /\ After(w, cache[home[w]].info)'
        /\ \A r \in Reader : home'[r] = home'[w] /\ FetchingInfo(r)' => After(w, reader[r].uid)'
  BY <1>6 DEF After
<1>10. QED
  BY <1>1, <1>7, <1>8, <1>9 DEF Ordered

LEMMA OrderedIndexed ==
    ASSUME TypeOK, Known, Distinct, Ordered, NEW w \in Writer, Unindexed(w),
           order' = Append(order, writer[w].uid), UNCHANGED <<home, own, raced, cache, reader>>,
           NEW at, at # "cacheData", NEW uid, WriterIs(w, at, uid)
    PROVE  Ordered'
<1>1. /\ Len(order') = Len(order) + 1 /\ Len(order) \in Nat
      /\ \A n \in 1..Len(order) : order'[n] = order[n]
      /\ order'[Len(order) + 1] = writer[w].uid
  BY AppendUid, Uids DEF TypeOK
<1>2. \A i \in Instance : own'[i] <= Len(order') /\ own[i] <= Len(order) + 1 /\ own[i] \in Nat
  BY <1>1, OwnIs DEF Ordered
<1>3. \A i \in Instance, u \in Nat : Seen(i, u) => Seen(i, u)'
  BY <1>1, <1>2 DEF Seen
<1>4. ASSUME NEW v \in Writer, writer'[v].at = "cacheData", NEW u \in Nat, After(v, u)
      PROVE  writer'[v] = writer[v] /\ After(v, u)'
  <2>1. v # w /\ writer'[v] = writer[v] /\ writer[v].at = "cacheData"
    BY <1>4 DEF WriterIs
  <2>2. writer[v].uid # writer[w].uid
    BY <2>1 DEF Distinct, Unindexed
  <2>3. QED
    BY <1>1, <1>4, <2>1, <2>2 DEF After
<1>5. \A i \in Instance \ raced' : Seen(i, cache[i].info)' /\ Seen(i, cache[i].data)'
  <2>1. \A i \in Instance, u \in Nat : Seen(i, u) =>
          (u # None => \A n \in 1..Len(order') : order'[n] = u => own'[i] <= n)
    BY <1>3 DEF Seen
  <2>2. QED
    BY <2>1, Uids DEF Ordered, Seen
<1>6. \A r \in Reader : home'[r] \notin raced' => Seen(home[r], reader[r].uid)'
  <2>1. \A i \in Instance, u \in Nat : Seen(i, u) =>
          (u # None => \A n \in 1..Len(order') : order'[n] = u => own'[i] <= n)
    BY <1>3 DEF Seen
  <2>2. QED
    BY <2>1, Uids DEF Ordered, Seen
<1>7. ASSUME NEW v \in Writer, writer'[v].at = "cacheData", home[v] \notin raced
      PROVE  /\ After(v, cache[home[v]].info)'
             /\ \A r \in Reader : home[r] = home[v] /\ FetchingInfo(r)' => After(v, reader[r].uid)'
  <2>1. writer'[v] = writer[v] /\ writer[v].at = "cacheData" /\ home[v] \in Instance
    BY <1>7, Uids DEF WriterIs
  <2>2. \A u \in Nat : After(v, u) =>
          (u # None =>
            \A m, n \in 1..Len(order') : order'[m] = writer'[v].uid /\ order'[n] = u => m <= n)
    BY <1>4, <1>7 DEF After
  <2>3. After(v, cache[home[v]].info)
    BY <1>7, <2>1 DEF Ordered
  <2>4. \A r \in Reader : home[r] = home[v] /\ FetchingInfo(r)' => After(v, reader[r].uid)
    BY <1>7, <2>1 DEF Ordered, FetchingInfo
  <2>5. QED
    BY SMTT(30), <2>2, <2>3, <2>4, Uids DEF After
<1>8. QED
  BY <1>2, <1>5, <1>6, <1>7 DEF Ordered

LEMMA OrderedInit == ASSUME Init PROVE Ordered
BY DEF Init, Ordered, Seen, After, FetchingInfo, Empty, Idle, None

LEMMA OrderedSteps == ASSUME TypeOK, Known, Distinct, Ordered, [Next]_vars PROVE Ordered'
<1> USE DEF fixed, store, history, bounds, WriterIs, ReaderIs, CacheIs
<1>1. ASSUME NEW w \in Writer, SaveData(w) PROVE Ordered'
  <2>1. UNCHANGED <<home, order, own, raced>>
    BY <1>1 DEF SaveData
  <2>2. \A i \in Instance : InfoFrom(i) /\ DataFrom(i)
    BY <1>1, SaveDataIs, Uids DEF SaveData, InfoFrom, DataFrom
  <2>3. \A r \in Reader : ReadFrom(r)
    BY <1>1, SaveDataIs, Uids DEF SaveData, ReadFrom, FetchingInfo
  <2>4. \A v \in Writer : writer'[v].at = "cacheData" => writer'[v] = writer[v]
    BY <1>1, SaveDataIs, Uids DEF SaveData
  <2>5. QED
    BY <2>1, <2>2, <2>3, <2>4, OrderedKept
<1>2. ASSUME NEW w \in Writer, SaveInfo(w) PROVE Ordered'
  <2>1. UNCHANGED <<home, order, own, raced>>
    BY <1>2 DEF SaveInfo
  <2>2. \A i \in Instance : InfoFrom(i) /\ DataFrom(i)
    BY <1>2, SaveInfoIs, Uids DEF SaveInfo, InfoFrom, DataFrom
  <2>3. \A r \in Reader : ReadFrom(r)
    BY <1>2, SaveInfoIs, Uids DEF SaveInfo, ReadFrom, FetchingInfo
  <2>4. \A v \in Writer : writer'[v].at = "cacheData" => writer'[v] = writer[v]
    BY <1>2, SaveInfoIs, Uids DEF SaveInfo
  <2>5. QED
    BY <2>1, <2>2, <2>3, <2>4, OrderedKept
<1>3. ASSUME NEW w \in Writer, SaveIndex(w) PROVE Ordered'
  <2>1. WriterIs(w, "cacheInfo", writer[w].uid)
    BY <1>3, SaveIndexIs DEF SaveIndex
  <2>2. UNCHANGED <<home, own, raced, cache, reader>> /\ order' = Append(order, writer[w].uid)
    BY <1>3 DEF SaveIndex
  <2>3. QED
    BY <1>3, <2>1, <2>2, OrderedIndexed DEF SaveIndex, Unindexed
<1>4. ASSUME NEW w \in Writer, SaveIndexOnly(w) PROVE Ordered'
  <2>1. WriterIs(w, "idle", None)
    BY <1>4, SaveIndexIs DEF SaveIndexOnly
  <2>2. UNCHANGED <<home, own, raced, cache, reader>> /\ order' = Append(order, writer[w].uid)
    BY <1>4 DEF SaveIndexOnly
  <2>3. QED
    BY <1>4, <2>1, <2>2, OrderedIndexed DEF SaveIndexOnly, Unindexed
<1>5. ASSUME NEW w \in Writer, CacheInfo(w) PROVE Ordered'
  <2>1. Filling(w) /\ UNCHANGED <<home, order, own, reader>>
    BY <1>5 DEF CacheInfo, Filling
  <2>2. WriterIs(w, "cacheData", writer[w].uid) /\ CacheIs(home[w], writer[w].uid, cache[home[w]].data)
    BY <1>5, SaveCacheInfoIs
  <2>3. raced' = raced \/ raced' = raced \cup {home[w]}
    BY <1>5 DEF CacheInfo
  <2>4. home[w] \notin raced' => ~Overlapped(w)
    BY <1>5 DEF CacheInfo
  <2>5. DEFINE p == Place(writer[w].uid)
  <2>6. /\ p \in 1..Len(order) /\ order[p] = writer[w].uid
        /\ \A n \in 1..Len(order) : order[n] = writer[w].uid => n = p
    BY <2>1, PlaceOfSave
  <2>7. home[w] \notin raced' =>
          /\ \A r \in Reader : home[r] = home[w] => reader[r].uid = None
          /\ \A v \in Writer \ {w} : home[v] = home[w] => writer[v].at # "cacheData"
          /\ own[home[w]] <= p
    BY <2>1, <2>4, <2>6, OwnIs, Uids DEF Overlapped, Fetching, Filling
  <2> HIDE DEF p
  <2>8. \A i \in Instance \ raced' : Seen(i, cache[i].data)' /\ (i # home[w] => Seen(i, cache[i].info)')
    BY <2>1, <2>2, <2>3 DEF Ordered, Seen
  <2>9. home[w] \notin raced' => Seen(home[w], cache[home[w]].info)'
    BY <2>1, <2>2, <2>6, <2>7, Uids DEF Seen
  <2>10. \A r \in Reader : home[r] \notin raced' => Seen(home[r], reader[r].uid)'
    BY <2>1, <2>3 DEF Ordered, Seen
  <2>11. \A v \in Writer \ {w} : writer'[v].at = "cacheData" /\ home[v] \notin raced' =>
           /\ After(v, cache[home[v]].info)'
           /\ \A r \in Reader : home[r] = home[v] /\ FetchingInfo(r)' => After(v, reader[r].uid)'
    <3> SUFFICES ASSUME NEW v \in Writer \ {w}, writer'[v].at = "cacheData", home[v] \notin raced'
                 PROVE  /\ After(v, cache[home[v]].info)'
                        /\ \A r \in Reader : home[r] = home[v] /\ FetchingInfo(r)' => After(v, reader[r].uid)'
      OBVIOUS
    <3>1. home[v] # home[w] /\ writer'[v] = writer[v] /\ home[v] \in Instance /\ home[v] \notin raced
      BY <2>2, <2>3, <2>7, Uids
    <3>2. After(v, cache[home[v]].info) /\ cache'[home[v]] = cache[home[v]]
      BY <2>2, <3>1 DEF Ordered
    <3>3. \A r \in Reader : home[r] = home[v] /\ FetchingInfo(r) => After(v, reader[r].uid)
      BY <3>1 DEF Ordered
    <3>4. QED
      BY <2>1, <3>1, <3>2, <3>3 DEF After, FetchingInfo
  <2>12. home[w] \notin raced' =>
           /\ After(w, cache[home[w]].info)'
           /\ \A r \in Reader : home[r] = home[w] /\ FetchingInfo(r)' => After(w, reader[r].uid)'
    BY <2>1, <2>2, <2>6, <2>7, Uids DEF After
  <2>13. \A i \in Instance : own'[i] <= Len(order')
    BY <2>1 DEF Ordered
  <2>14. QED
    BY <2>1, <2>8, <2>9, <2>10, <2>11, <2>12, <2>13 DEF Ordered
<1>6. ASSUME NEW w \in Writer, CacheData(w) PROVE Ordered'
  <2>1. Filling(w) /\ writer[w].at = "cacheData" /\ UNCHANGED <<home, order, reader>> /\ home[w] \in Instance
    BY <1>6, Uids DEF CacheData, Filling
  <2>2. WriterLeaves(w) /\ CacheIs(home[w], cache[home[w]].info, writer[w].uid)
    BY <1>6, SaveCacheDataIs
  <2>3. raced' = raced \/ raced' = raced \cup {home[w]}
    BY <1>6 DEF CacheData
  <2>4. home[w] \notin raced' => ~Overlapped(w)
    BY <1>6 DEF CacheData
  <2>5. DEFINE p == Place(writer[w].uid)
  <2>6. /\ p \in 1..Len(order) /\ order[p] = writer[w].uid
        /\ \A n \in 1..Len(order) : order[n] = writer[w].uid => n = p
    BY <2>1, PlaceOfSave
  <2>7. home[w] \notin raced' =>
          /\ \A r \in Reader : home[r] = home[w] => reader[r].uid = None
          /\ \A v \in Writer \ {w} : home[v] = home[w] => writer[v].at # "cacheData"
          /\ own[home[w]] <= p
    BY <2>1, <2>4, <2>6, OwnIs, Uids DEF Overlapped, Fetching, Filling
  <2>8. /\ own'[home[w]] = IF own[home[w]] < p THEN p ELSE own[home[w]]
        /\ \A i \in Instance \ {home[w]} : own'[i] = own[i]
    BY <1>6, <2>1 DEF CacheData, TypeOK
  <2> HIDE DEF p
  <2>9. home[w] \notin raced' => own'[home[w]] = p
    BY <2>1, <2>6, <2>7, <2>8, OwnIs
  <2>10. \A i \in Instance : own'[i] <= Len(order')
    BY <2>1, <2>6, <2>8 DEF Ordered
  <2>11. \A i \in Instance \ raced' : i # home[w] => Seen(i, cache[i].data)' /\ Seen(i, cache[i].info)'
    BY <2>1, <2>2, <2>3, <2>8 DEF Ordered, Seen
  <2>12. home[w] \notin raced' => Seen(home[w], cache[home[w]].data)'
    BY <2>1, <2>2, <2>6, <2>9 DEF Seen
  <2>13. home[w] \notin raced' => Seen(home[w], cache[home[w]].info)'
    BY <2>1, <2>2, <2>3, <2>6, <2>9 DEF Ordered, After, Seen
  <2>14. \A r \in Reader : home[r] \notin raced' => Seen(home[r], reader[r].uid)'
    <3> SUFFICES ASSUME NEW r \in Reader, home[r] \notin raced' PROVE Seen(home[r], reader[r].uid)'
      BY <2>1
    <3>1. CASE home[r] = home[w]
      BY <2>1, <2>7, <3>1 DEF Seen
    <3>2. CASE home[r] # home[w]
      BY <2>1, <2>3, <2>8, <3>2, Uids DEF Ordered, Seen
    <3>3. QED
      BY <3>1, <3>2
  <2>15. \A v \in Writer \ {w} : writer'[v].at = "cacheData" /\ home[v] \notin raced' =>
           /\ After(v, cache[home[v]].info)'
           /\ \A r \in Reader : home[r] = home[v] /\ FetchingInfo(r)' => After(v, reader[r].uid)'
    <3> SUFFICES ASSUME NEW v \in Writer \ {w}, writer'[v].at = "cacheData", home[v] \notin raced'
                 PROVE  /\ After(v, cache[home[v]].info)'
                        /\ \A r \in Reader : home[r] = home[v] /\ FetchingInfo(r)' => After(v, reader[r].uid)'
      OBVIOUS
    <3>1. home[v] # home[w] /\ writer'[v] = writer[v] /\ home[v] \in Instance /\ home[v] \notin raced
      BY <2>2, <2>3, <2>7, Uids DEF WriterLeaves
    <3>2. After(v, cache[home[v]].info) /\ cache'[home[v]] = cache[home[v]]
      BY <2>2, <3>1 DEF Ordered
    <3>3. \A r \in Reader : home[r] = home[v] /\ FetchingInfo(r) => After(v, reader[r].uid)
      BY <3>1 DEF Ordered
    <3>4. QED
      BY <2>1, <3>1, <3>2, <3>3 DEF After, FetchingInfo
  <2>16. writer'[w].at # "cacheData"
    BY <2>2 DEF WriterLeaves
  <2>17. QED
    BY <2>1, <2>10, <2>11, <2>12, <2>13, <2>14, <2>15, <2>16 DEF Ordered
<1>7. ASSUME NEW w \in Writer, SaveEtag(w) PROVE Ordered'
  <2>1. UNCHANGED <<home, order, own, raced>>
    BY <1>7 DEF SaveEtag
  <2>2. \A i \in Instance : InfoFrom(i) /\ DataFrom(i)
    BY <1>7, SaveEndIs, Uids DEF SaveEtag, InfoFrom, DataFrom
  <2>3. \A r \in Reader : ReadFrom(r)
    BY <1>7, SaveEndIs, Uids DEF SaveEtag, ReadFrom, FetchingInfo
  <2>4. \A v \in Writer : writer'[v].at = "cacheData" => writer'[v] = writer[v]
    BY <1>7, SaveEndIs, Uids DEF SaveEtag
  <2>5. QED
    BY <2>1, <2>2, <2>3, <2>4, OrderedKept
<1>8. ASSUME NEW w \in Writer, PublishInvalidation(w) PROVE Ordered'
  <2>1. UNCHANGED <<home, order, own, raced>>
    BY <1>8 DEF PublishInvalidation
  <2>2. \A i \in Instance : InfoFrom(i) /\ DataFrom(i)
    BY <1>8, SaveEndIs, Uids DEF PublishInvalidation, InfoFrom, DataFrom
  <2>3. \A r \in Reader : ReadFrom(r)
    BY <1>8, SaveEndIs, Uids DEF PublishInvalidation, ReadFrom, FetchingInfo
  <2>4. \A v \in Writer : writer'[v].at = "cacheData" => writer'[v] = writer[v]
    BY <1>8, SaveEndIs, Uids DEF PublishInvalidation
  <2>5. QED
    BY <2>1, <2>2, <2>3, <2>4, OrderedKept
<1>9. ASSUME NEW r \in Reader, GetInfo(r) PROVE Ordered'
  <2>1. UNCHANGED <<home, order, own, raced>>
    BY <1>9 DEF GetInfo
  <2>2. \A i \in Instance : InfoFrom(i) /\ DataFrom(i)
    BY <1>9, GetInfoIs, Uids DEF GetInfo, InfoFrom, DataFrom
  <2>3. \A q \in Reader : ReadFrom(q)
    BY <1>9, GetInfoIs, Uids DEF GetInfo, ReadFrom, FetchingInfo
  <2>4. \A w \in Writer : writer'[w].at = "cacheData" => writer'[w] = writer[w]
    BY <1>9, GetInfoIs, Uids DEF GetInfo
  <2>5. QED
    BY <2>1, <2>2, <2>3, <2>4, OrderedKept
<1>10. ASSUME NEW r \in Reader, GetData(r) PROVE Ordered'
  <2>1. UNCHANGED <<home, order, own, raced>>
    BY <1>10 DEF GetData
  <2>2. \A i \in Instance : InfoFrom(i) /\ DataFrom(i)
    BY <1>10, GetDataIs, Uids DEF GetData, InfoFrom, DataFrom
  <2>3. \A q \in Reader : ReadFrom(q)
    BY <1>10, GetDataIs, Uids DEF GetData, ReadFrom, FetchingInfo
  <2>4. \A w \in Writer : writer'[w].at = "cacheData" => writer'[w] = writer[w]
    BY <1>10, GetDataIs, Uids DEF GetData
  <2>5. QED
    BY <2>1, <2>2, <2>3, <2>4, OrderedKept
<1>11. ASSUME NEW r \in Reader, Invalidate(r) PROVE Ordered'
  <2>1. UNCHANGED <<home, order, own, raced>>
    BY <1>11 DEF Invalidate
  <2>2. \A i \in Instance : InfoFrom(i) /\ DataFrom(i)
    BY <1>11, InvalidateIs, Uids DEF Invalidate, InfoFrom, DataFrom
  <2>3. \A q \in Reader : ReadFrom(q)
    BY <1>11, InvalidateIs, Uids DEF Invalidate, ReadFrom, FetchingInfo
  <2>4. \A w \in Writer : writer'[w].at = "cacheData" => writer'[w] = writer[w]
    BY <1>11, InvalidateIs, Uids DEF Invalidate
  <2>5. QED
    BY <2>1, <2>2, <2>3, <2>4, OrderedKept
<1>12. ASSUME NEW r \in Reader, NeedInfo(r) PROVE Ordered'
  <2>1. UNCHANGED <<home, order, own, raced>>
    BY <1>12 DEF NeedInfo
  <2>2. \A i \in Instance : InfoFrom(i) /\ DataFrom(i)
    BY <1>12, NeedInfoIs, Uids DEF NeedInfo, InfoFrom, DataFrom
  <2>3. \A q \in Reader : ReadFrom(q)
    BY <1>12, NeedInfoIs, Uids DEF NeedInfo, ReadFrom, FetchingInfo
  <2>4. \A w \in Writer : writer'[w].at = "cacheData" => writer'[w] = writer[w]
    BY <1>12, NeedInfoIs, Uids DEF NeedInfo
  <2>5. QED
    BY <2>1, <2>2, <2>3, <2>4, OrderedKept
<1>13. ASSUME NEW r \in Reader, FetchInfo(r) PROVE Ordered'
  <2>1. UNCHANGED <<home, order, own, raced>>
    BY <1>13 DEF FetchInfo
  <2>2. \A i \in Instance : InfoFrom(i) /\ DataFrom(i)
    BY <1>13, FetchInfoIs, Uids DEF FetchInfo, InfoFrom, DataFrom
  <2>3. \A q \in Reader : ReadFrom(q)
    BY <1>13, FetchInfoIs, Uids DEF FetchInfo, ReadFrom, FetchingInfo
  <2>4. \A w \in Writer : writer'[w].at = "cacheData" => writer'[w] = writer[w]
    BY <1>13, FetchInfoIs, Uids DEF FetchInfo
  <2>5. QED
    BY <2>1, <2>2, <2>3, <2>4, OrderedKept
<1>14. ASSUME NEW r \in Reader, LookAgain(r) PROVE Ordered'
  <2>1. UNCHANGED <<home, order, own, raced>>
    BY <1>14 DEF LookAgain
  <2>2. \A i \in Instance : InfoFrom(i) /\ DataFrom(i)
    BY <1>14, LookAgainIs, Uids DEF LookAgain, InfoFrom, DataFrom
  <2>3. \A q \in Reader : ReadFrom(q)
    BY <1>14, LookAgainIs, Uids DEF LookAgain, ReadFrom, FetchingInfo
  <2>4. \A w \in Writer : writer'[w].at = "cacheData" => writer'[w] = writer[w]
    BY <1>14, LookAgainIs, Uids DEF LookAgain
  <2>5. QED
    BY <2>1, <2>2, <2>3, <2>4, OrderedKept
<1>15. ASSUME NEW r \in Reader, GetIndex(r) PROVE Ordered'
  <2>1. UNCHANGED <<home, order, own, raced>>
    BY <1>15 DEF GetIndex
  <2>2. \A i \in Instance : InfoFrom(i) /\ DataFrom(i)
    BY <1>15, GetIndexIs, Uids DEF GetIndex, InfoFrom, DataFrom
  <2>3. \A q \in Reader : ReadFrom(q)
    BY <1>15, GetIndexIs, Uids DEF GetIndex, ReadFrom, FetchingInfo
  <2>4. \A w \in Writer : writer'[w].at = "cacheData" => writer'[w] = writer[w]
    BY <1>15, GetIndexIs, Uids DEF GetIndex
  <2>5. QED
    BY <2>1, <2>2, <2>3, <2>4, OrderedKept
<1>16. ASSUME NEW r \in Reader, FetchData(r) PROVE Ordered'
  <2>1. UNCHANGED <<home, order, own, raced>>
    BY <1>16 DEF FetchData
  <2>2. \A i \in Instance : InfoFrom(i) /\ DataFrom(i)
    BY <1>16, FetchDataIs, Uids DEF FetchData, InfoFrom, DataFrom
  <2>3. \A q \in Reader : ReadFrom(q)
    BY <1>16, FetchDataIs, Uids DEF FetchData, ReadFrom, FetchingInfo
  <2>4. \A w \in Writer : writer'[w].at = "cacheData" => writer'[w] = writer[w]
    BY <1>16, FetchDataIs, Uids DEF FetchData
  <2>5. QED
    BY <2>1, <2>2, <2>3, <2>4, OrderedKept
<1>17. ASSUME NEW r \in Reader, FetchEtag(r) PROVE Ordered'
  <2>1. UNCHANGED <<home, order, own, raced>>
    BY <1>17 DEF FetchEtag
  <2>2. \A i \in Instance : InfoFrom(i) /\ DataFrom(i)
    BY <1>17, FetchEtagIs, Uids DEF FetchEtag, InfoFrom, DataFrom
  <2>3. \A q \in Reader : ReadFrom(q)
    BY <1>17, FetchEtagIs, Uids DEF FetchEtag, ReadFrom, FetchingInfo
  <2>4. \A w \in Writer : writer'[w].at = "cacheData" => writer'[w] = writer[w]
    BY <1>17, FetchEtagIs, Uids DEF FetchEtag
  <2>5. QED
    BY <2>1, <2>2, <2>3, <2>4, OrderedKept
<1>18. ASSUME NEW r \in Reader, PutData(r) PROVE Ordered'
  <2>1. UNCHANGED <<home, order, own, raced>>
    BY <1>18 DEF PutData
  <2>2. \A i \in Instance : InfoFrom(i) /\ DataFrom(i)
    BY <1>18, PutDataIs, Uids DEF PutData, InfoFrom, DataFrom
  <2>3. \A q \in Reader : ReadFrom(q)
    BY <1>18, PutDataIs, Uids DEF PutData, ReadFrom, FetchingInfo
  <2>4. \A w \in Writer : writer'[w].at = "cacheData" => writer'[w] = writer[w]
    BY <1>18, PutDataIs, Uids DEF PutData
  <2>5. QED
    BY <2>1, <2>2, <2>3, <2>4, OrderedKept
<1>19. ASSUME NEW i \in Instance, OnMessage(i) PROVE Ordered'
  <2>1. UNCHANGED <<home, order, own, raced>>
    BY <1>19 DEF OnMessage
  <2>2. \A j \in Instance : InfoFrom(j) /\ DataFrom(j)
    BY <1>19, InvalidatedIs, Uids DEF OnMessage, InfoFrom, DataFrom
  <2>3. \A r \in Reader : ReadFrom(r)
    BY <1>19, InvalidatedIs, Uids DEF OnMessage, ReadFrom, FetchingInfo
  <2>4. \A w \in Writer : writer'[w].at = "cacheData" => writer'[w] = writer[w]
    BY <1>19, InvalidatedIs, Uids DEF OnMessage
  <2>5. QED
    BY <2>1, <2>2, <2>3, <2>4, OrderedKept
<1>20. ASSUME NEW i \in Instance, NEW entry \in Entry, Expire(i, entry)
      PROVE  Ordered'
  <2>1. UNCHANGED <<home, order, own, raced>>
    BY <1>20 DEF Expire
  <2>2. \A j \in Instance : InfoFrom(j) /\ DataFrom(j)
    BY <1>20, ExpireIs, Uids DEF Expire, InfoFrom, DataFrom, Forgets
  <2>3. \A r \in Reader : ReadFrom(r)
    BY <1>20, ExpireIs, Uids DEF Expire, ReadFrom, FetchingInfo
  <2>4. \A w \in Writer : writer'[w].at = "cacheData" => writer'[w] = writer[w]
    BY <1>20, ExpireIs, Uids DEF Expire
  <2>5. QED
    BY <2>1, <2>2, <2>3, <2>4, OrderedKept
<1>21. ASSUME NEW i \in Instance, Crash(i) PROVE Ordered'
  <2>1. UNCHANGED <<home, order, own, raced>>
    BY <1>21 DEF Crash
  <2>2. \A j \in Instance : InfoFrom(j) /\ DataFrom(j)
    BY <1>21, CrashIs, Uids DEF Crash, InfoFrom, DataFrom, Forgets
  <2>3. \A r \in Reader : ReadFrom(r)
    BY <1>21, CrashIs, Uids DEF Crash, ReadFrom, FetchingInfo
  <2>4. \A w \in Writer : writer'[w].at = "cacheData" => writer'[w] = writer[w]
    BY <1>21, CrashIs, Uids DEF Crash
  <2>5. QED
    BY <2>1, <2>2, <2>3, <2>4, OrderedKept
<1>22. ASSUME NEW i \in Instance, NEW entry \in Entry, RemoveExpiry(i, entry)
      PROVE  Ordered'
  <2>1. UNCHANGED <<home, order, own, raced>>
    BY <1>22 DEF RemoveExpiry
  <2>2. \A j \in Instance : InfoFrom(j) /\ DataFrom(j)
    BY <1>22 DEF RemoveExpiry, InfoFrom, DataFrom
  <2>3. \A r \in Reader : ReadFrom(r)
    BY <1>22 DEF RemoveExpiry, ReadFrom, FetchingInfo
  <2>4. \A w \in Writer : writer'[w].at = "cacheData" => writer'[w] = writer[w]
    BY <1>22 DEF RemoveExpiry
  <2>5. QED
    BY <2>1, <2>2, <2>3, <2>4, OrderedKept
<1>23. ASSUME NEW t \in Writer \cup Reader, WriteExpiry(t) PROVE Ordered'
  <2>1. UNCHANGED <<home, order, own, raced>>
    BY <1>23 DEF WriteExpiry
  <2>2. \A j \in Instance : InfoFrom(j) /\ DataFrom(j)
    BY <1>23 DEF WriteExpiry, InfoFrom, DataFrom
  <2>3. \A r \in Reader : ReadFrom(r)
    BY <1>23 DEF WriteExpiry, ReadFrom, FetchingInfo
  <2>4. \A w \in Writer : writer'[w].at = "cacheData" => writer'[w] = writer[w]
    BY <1>23 DEF WriteExpiry
  <2>5. QED
    BY <2>1, <2>2, <2>3, <2>4, OrderedKept
<1>24. ASSUME NEW t \in Writer \cup Reader, WriteExpiryFails(t) PROVE Ordered'
  <2>1. UNCHANGED <<home, order, own, raced>>
    BY <1>24 DEF WriteExpiryFails
  <2>2. \A j \in Instance : InfoFrom(j) /\ DataFrom(j)
    BY <1>24 DEF WriteExpiryFails, InfoFrom, DataFrom
  <2>3. \A r \in Reader : ReadFrom(r)
    BY <1>24, WriteExpiryFailsIs DEF WriteExpiryFails, ReadFrom, FetchingInfo
  <2>4. \A w \in Writer : writer'[w].at = "cacheData" => writer'[w] = writer[w]
    BY <1>24, WriteExpiryFailsIs DEF WriteExpiryFails
  <2>5. QED
    BY <2>1, <2>2, <2>3, <2>4, OrderedKept
<1>25. CASE UNCHANGED vars
  BY <1>25 DEF vars, Ordered, Seen, After, FetchingInfo
<1>26. QED
  BY <1>1, <1>2, <1>3, <1>4, <1>5, <1>6, <1>7, <1>8, <1>9, <1>10, <1>11,
     <1>12, <1>13, <1>14, <1>15, <1>16, <1>17, <1>18, <1>19, <1>20, <1>21,
     <1>22, <1>23, <1>24, <1>25
  DEF Next, Save, Read, SaveStep, ReadStep, Timer

-----------------------------------------------------------------------------
Inv == TypeOK /\ Known /\ Distinct /\ Ordered

LEMMA InvHolds == Spec => []Inv
<1>1. Init => Inv
  BY TypeInit, KnownInit, DistinctInit, OrderedInit DEF Inv
<1>2. Inv /\ [Next]_vars => Inv'
  BY TypeSteps, KnownSteps, DistinctSteps, OrderedSteps DEF Inv
<1>3. QED
  BY <1>1, <1>2, PTL DEF Spec

(* The stores, the index, the caches and the threads keep their types.       *)
THEOREM TypeCorrect == Spec => []TypeOK
<1>1. Inv => TypeOK
  BY DEF Inv
<1>2. QED
  BY <1>1, InvHolds, PTL

(* Whatever step a save of S3ResourceStore dies at, the revision that        *)
(* _get_uid() finds has its data and its info, and so has every revision a   *)
(* reading thread got from it.                                               *)
THEOREM FoundIsStored == Spec => []IndexComplete
<1>1. Inv => IndexComplete
  BY DEF Inv, Known, Found, IndexComplete
<1>2. QED
  BY <1>1, InvHolds, PTL

(* After CachedS3ResourceStore.save an instance caches its save or a later   *)
(* one, whatever the other instances, expiry and invalidations do, unless    *)
(* its own threads filled the cache meanwhile.                               *)
THEOREM OwnSavesAreSeen == Spec => []OwnSaveSeen
<1>1. Inv => OwnSaveSeen
  <2> SUFFICES ASSUME Inv, NEW i \in Instance \ raced, NEW uid \in {cache[i].info, cache[i].data} \ {None}
               PROVE  own[i] <= Place(uid)
    BY DEF OwnSaveSeen
  <2>1. uid \in ToSet(order)
    BY DEF Inv, Known, Found
  <2>2. Place(uid) \in 1..Len(order) /\ order[Place(uid)] = uid
    BY <2>1, PlaceKnown DEF Inv
  <2>3. Seen(i, uid)
    BY DEF Inv, Ordered
  <2>4. QED
    BY <2>2, <2>3 DEF Seen
<1>2. QED
  BY <1>1, InvHolds, PTL


=============================================================================
