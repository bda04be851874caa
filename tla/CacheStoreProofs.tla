-------------------------- MODULE CacheStoreProofs --------------------------
(* CacheManager implements ChunkStore, for any number of threads, chunks   *)
(* and slots, with or without a disk: the callers see a store of chunks.   *)
EXTENDS CacheCountProofs

-----------------------------------------------------------------------------
(* The clauses on data that only the refinement needs.  A chunk is in      *)
(* memory (InSlot), or in its file, or in both; what a reader must find is *)
(* in both whenever the manager is about to drop one of the two.           *)

\* The chunk is queued for a sync, or its sync runs.
Waiting(c) == "to_sync" \in bits[c] \/ "syncing" \in bits[c]
OnDisk(c) == slot_data[low[c]] = FileData(c)

\* What a worker is about to publish is what the file says.
Loaded ==
    \A l \in Loaders : lpc[l] = "publish" => slot_data[lslot[l]] = FileData(lchunk[l])

\* A chunk in memory that nobody holds and no sync waits for may be evicted.
Clean ==
    \A c \in Ids : InSlot(c) => CacheOnly \/ Held(c) \/ Waiting(c) \/ OnDisk(c)

\* An id never handed out has no file.
FreshFile == \A c \in Ids : c >= num_chunks => disk[c] = None

StoreInv == Loaded /\ Clean /\ FreshFile

\* What is known already of the states before and after a step.
Base == ReuseInRam /\ Shape /\ SafeInv /\ DataInv /\ SyncOnce

LEMMA StoreInit == Init => StoreInv
  BY DEF Init, StoreInv, Loaded, Clean, InSlot, FreshFile

\* A part of StoreInv whose variables do not change stays.
LEMMA StoreFrame ==
  /\ Loaded /\ UNCHANGED <<lpc, lchunk, lslot, slot_data, disk>> => Loaded'
  /\ FreshFile /\ UNCHANGED <<num_chunks, disk>> => FreshFile'
<1>1. Loaded /\ UNCHANGED <<lpc, lchunk, lslot, slot_data, disk>> => Loaded'
  BY DEF Loaded, FileData
<1>2. FreshFile /\ UNCHANGED <<num_chunks, disk>> => FreshFile'
  BY DEF FreshFile
<1> QED BY <1>1, <1>2

\* The chunks in memory stay where they are, or leave; none of them becomes one
\* that may be evicted.
LEMMA CleanStays ==
  ASSUME Clean, UNCHANGED <<slot_data, disk>>,
         \A d \in Ids : InSlot(d)' =>
             /\ InSlot(d) /\ low'[d] = low[d]
             /\ Held(d) => Held(d)'
             /\ Waiting(d) => Waiting(d)'
  PROVE  Clean'
<1> SUFFICES ASSUME NEW d \in Ids, InSlot(d)', ~CacheOnly, ~Held(d)', ~Waiting(d)'
             PROVE  OnDisk(d)'
  BY DEF Clean
<1>1. OnDisk(d)
  BY DEF Clean
<1> QED BY <1>1 DEF OnDisk, FileData

-----------------------------------------------------------------------------
(* The refinement mapping, chunk by chunk: which ids are live, what a      *)
(* reader of a live chunk would find, and who holds it.                    *)

Content == [c \in Ids |-> IF c \in LiveIds THEN DataOf(c) ELSE Zero]
Holder == [c \in Ids |-> IF Held(c) THEN CHOOSE t \in Clients : Holds(t, c)
                                    ELSE None]

HolderExact ==
    \A c \in Ids : /\ \A t \in Clients : Holds(t, c) <=> Holder[c] = t
                   /\ ~Held(c) <=> Holder[c] = None

\* With one holder per chunk, the holder is the client that holds it.
LEMMA HolderIs == OneHolder => HolderExact
<1> SUFFICES ASSUME OneHolder, NEW c \in Ids
             PROVE  /\ \A t \in Clients : Holds(t, c) <=> Holder[c] = t
                    /\ ~Held(c) <=> Holder[c] = None
  BY DEF HolderExact
<1>1. CASE ~Held(c)
  BY <1>1, Constants DEF Holder, Held
<1>2. CASE Held(c)
  <2> DEFINE u == CHOOSE t \in Clients : Holds(t, c)
  <2>1. u \in Clients /\ Holds(u, c)
    BY <1>2 DEF Held
  <2>2. Holder[c] = u
    BY <1>2 DEF Holder
  <2> HIDE DEF u
  <2> QED BY <1>2, <2>1, <2>2, Constants DEF OneHolder
<1> QED BY <1>1, <1>2

LEMMA HolderIsNext == OneHolder' => HolderExact'
  BY HolderIs, PTL

LEMMA HolderKept ==
  ASSUME OneHolder, OneHolder', NEW d \in Ids,
         \A t \in Clients : Holds(t, d)' <=> Holds(t, d)
  PROVE  Holder'[d] = Holder[d]
<1>1. HolderExact /\ HolderExact'
  BY HolderIs, HolderIsNext
<1>2. Held(d)' <=> Held(d)
  BY DEF Held
<1>3. CASE Held(d)
  BY <1>1, <1>3 DEF HolderExact, Held
<1>4. CASE ~Held(d)
  BY <1>1, <1>2, <1>4 DEF HolderExact
<1> QED BY <1>3, <1>4

\* How a step shows in the abstract store, said chunk by chunk.
SameData == \A d \in LiveIds \cap LiveIds' : DataOf(d)' = DataOf(d)
SameHolds(S) ==
    \A d \in S : \A t \in Clients : Holds(t, d)' <=> Holds(t, d)

LEMMA HoldersKept ==
  ASSUME OneHolder, OneHolder', SameHolds(Ids) PROVE Holder' = Holder
<1>1. \A d \in Ids : Holder'[d] = Holder[d]
  BY HolderKept DEF SameHolds
<1> QED BY <1>1 DEF Holder

LEMMA StutterMaps ==
  ASSUME OneHolder, OneHolder', LiveIds' = LiveIds, SameData, SameHolds(Ids)
  PROVE  UNCHANGED Store!vars
<1>1. Holder' = Holder
  BY HoldersKept
<1>2. Content' = Content
  BY DEF Content, SameData
<1> QED BY <1>1, <1>2 DEF Store!vars, Holder, Content

LEMMA CreateMaps ==
  ASSUME OneHolder, OneHolder', SameData, SameHolds(Ids), NEW c \in Ids,
         c \notin LiveIds, LiveIds' = LiveIds \cup {c}, DataOf(c)' = Zero
  PROVE  Store!Next
<1>1. Holder' = Holder
  BY HoldersKept
<1>2. Content' = Content
  BY DEF Content, SameData
<1>3. Store!Create(c)
  BY <1>1, <1>2 DEF Store!Create, Holder, Content
<1> QED BY <1>3 DEF Store!Next

LEMMA FetchMaps ==
  ASSUME OneHolder, OneHolder', LiveIds' = LiveIds, SameData,
         NEW t \in Clients, NEW c \in LiveIds, c \in Ids,
         SameHolds(Ids \ {c}), ~Held(c), Holds(t, c)'
  PROVE  Store!Next
<1>1. HolderExact /\ HolderExact'
  BY HolderIs, HolderIsNext
<1>2. Content' = Content
  BY DEF Content, SameData
<1>3. Holder' = [Holder EXCEPT ![c] = t]
  <2>1. \A d \in Ids \ {c} : Holder'[d] = Holder[d]
    BY HolderKept DEF SameHolds
  <2>2. Holder'[c] = t
    BY <1>1 DEF HolderExact
  <2>3. Holder' = [d \in Ids |-> Holder'[d]] /\ Holder = [d \in Ids |-> Holder[d]]
    BY DEF Holder
  <2> QED BY <2>1, <2>2, <2>3
<1>4. Holder[c] = None
  BY <1>1 DEF HolderExact
<1>5. Store!Fetch(t, c)
  BY <1>2, <1>3, <1>4 DEF Store!Fetch, Holder, Content
<1> QED BY <1>5 DEF Store!Next

LEMMA WriteMaps ==
  ASSUME OneHolder, OneHolder', LiveIds' = LiveIds, SameHolds(Ids),
         NEW t \in Clients, NEW c \in LiveIds, c \in Ids, NEW v \in Values,
         \A d \in LiveIds \ {c} : DataOf(d)' = DataOf(d),
         DataOf(c)' = v, Holds(t, c)
  PROVE  Store!Next
<1>1. Holder' = Holder
  BY HoldersKept
<1>2. Content' = [Content EXCEPT ![c] = v]
  BY DEF Content
<1>3. Holder[c] = t
  BY HolderIs DEF HolderExact
<1>4. Store!Write(t, c, v)
  BY <1>1, <1>2, <1>3 DEF Store!Write, Holder, Content
<1> QED BY <1>4 DEF Store!Next

LEMMA ReleaseMaps ==
  ASSUME OneHolder, OneHolder', LiveIds' = LiveIds, SameData,
         NEW t \in Clients, NEW c \in Ids,
         SameHolds(Ids \ {c}), Holds(t, c), ~Held(c)'
  PROVE  Store!Next
<1>1. HolderExact /\ HolderExact'
  BY HolderIs, HolderIsNext
<1>2. Content' = Content
  BY DEF Content, SameData
<1>3. Holder' = [Holder EXCEPT ![c] = None]
  <2>1. \A d \in Ids \ {c} : Holder'[d] = Holder[d]
    BY HolderKept DEF SameHolds
  <2>2. Holder'[c] = None
    BY <1>1 DEF HolderExact
  <2>3. Holder' = [d \in Ids |-> Holder'[d]] /\ Holder = [d \in Ids |-> Holder[d]]
    BY DEF Holder
  <2> QED BY <2>1, <2>2, <2>3
<1>4. Store!Release(t, c)
  BY <1>1, <1>2, <1>3 DEF Store!Release, HolderExact, Holder, Content
<1> QED BY <1>4 DEF Store!Next

LEMMA DeleteMaps ==
  ASSUME OneHolder, OneHolder', SameData,
         NEW t \in Clients, NEW c \in Ids, LiveIds' = LiveIds \ {c},
         SameHolds(Ids \ {c}), Holds(t, c), ~Held(c)'
  PROVE  Store!Next
<1>1. HolderExact /\ HolderExact'
  BY HolderIs, HolderIsNext
<1>2. Content' = [Content EXCEPT ![c] = Zero]
  BY DEF Content, SameData
<1>3. Holder' = [Holder EXCEPT ![c] = None]
  <2>1. \A d \in Ids \ {c} : Holder'[d] = Holder[d]
    BY HolderKept DEF SameHolds
  <2>2. Holder'[c] = None
    BY <1>1 DEF HolderExact
  <2>3. Holder' = [d \in Ids |-> Holder'[d]] /\ Holder = [d \in Ids |-> Holder[d]]
    BY DEF Holder
  <2> QED BY <2>1, <2>2, <2>3
<1>4. Store!Delete(t, c)
  BY <1>1, <1>2, <1>3 DEF Store!Delete, HolderExact, Holder, Content
<1> QED BY <1>4 DEF Store!Next

-----------------------------------------------------------------------------
(* The data of a live chunk, read off the invariants.                      *)

DataAt(c) == IF InSlot(c) THEN slot_data[low[c]] ELSE FileData(c)

LiveData ==
    \A d \in LiveIds : /\ d \in Ids /\ DataOf(d) = DataAt(d)
                       /\ InSlot(d) <=> "caching" \in bits[d] /\ ~Evicted(d)

\* The slot of a chunk that is being evicted carries another id already.
LEMMA LiveDataIs == Base => LiveData
<1> SUFFICES ASSUME Base, NEW d \in LiveIds
             PROVE  /\ d \in Ids /\ DataOf(d) = DataAt(d)
                    /\ InSlot(d) <=> "caching" \in bits[d] /\ ~Evicted(d)
  BY DEF LiveData
<1> USE DEF Base, Shape, SafeInv
<1>1. d \in Ids /\ ~Dying(d)
  BY DEF LiveIds
<1>2. CASE InSlot(d)
  BY <1>1, <1>2 DEF InSlot, CachedSlot, DataOf, DataAt, Has
<1>3. CASE "caching" \notin bits[d]
  BY <1>1, <1>3 DEF InSlot, DataOf, DataAt, Has
<1>4. CASE Evicted(d)
  <2>1. "loading" \notin bits[d]
    BY <1>4 DEF Evicted, MarkedWord, Marks
  <2>2. low[d] \in Slots => slot_id[low[d]] # d
    BY <1>1, <1>4, <2>1, Constants DEF SlotOwner, Owns, InSlot, Filling, LoadOnce
  <2> QED BY <1>1, <1>4, <2>2 DEF InSlot, DataOf, DataAt, Has
<1> QED BY <1>1, <1>2, <1>3, <1>4 DEF InSlot

LEMMA LiveDataNext == Base' => LiveData'
  BY LiveDataIs, PTL

LEMMA DataKept ==
  ASSUME Base, Base', \A d \in LiveIds \cap LiveIds' : DataAt(d)' = DataAt(d)
  PROVE  SameData
  BY LiveDataIs, LiveDataNext DEF LiveData, SameData

LEMMA BaseHolder == Base => OneHolder
  BY DEF Base, SafeInv, OneUser

LEMMA BothHold ==
  ASSUME Base, Base' PROVE OneHolder /\ OneHolder'
<1>1. Base' => OneHolder'
  BY BaseHolder, PTL
<1> QED BY <1>1, BaseHolder

Shows == Store!Next \/ UNCHANGED Store!vars

\* A step that moves no chunk into memory or out of it, changes no data and no
\* holder, and ends no waiting, does not show.
LEMMA QuietMaps ==
  ASSUME Base, Base', StoreInv, Loaded',
         UNCHANGED <<num_chunks, ptr, slot_data, disk>>,
         \A d \in Ids : /\ SamePlace(d) /\ (Waiting(d) => Waiting(d)')
                        /\ Dying(d)' <=> Dying(d)
                        /\ Evicted(d)' <=> Evicted(d)
  PROVE  StoreInv' /\ Shows
<1>1. SameHolds(Ids) /\ \A d \in Ids : Held(d)' <=> Held(d)
  BY DEF SameHolds, Holds, Held
<1>2. \A d \in Ids : (InSlot(d)' <=> InSlot(d)) /\ low'[d] = low[d]
  BY DEF InSlot, SamePlace
<1>3. StoreInv'
  BY <1>1, <1>2, CleanStays, StoreFrame DEF StoreInv
<1>4. LiveIds' = LiveIds
  BY DEF LiveIds, Has, SamePlace
<1>5. SameData
  BY <1>2, DataKept DEF DataAt, FileData, LiveIds
<1> QED BY <1>1, <1>3, <1>4, <1>5, BothHold, StutterMaps DEF Shows

-----------------------------------------------------------------------------
(* The steps of the clients.                                               *)

\* create_chunk takes an id from the stack (301-304).
LEMMA TakeDeletedMaps ==
  ASSUME Base, Base', StoreInv, NEW t \in Clients, NEW c \in Ids,
         pc[t] \in {"pop", "last"}, TakeDeleted(t, c), CreateFrame
  PROVE  StoreInv' /\ Shows
<1> USE Constants
<1>1. /\ bits[c] = {} /\ low[c] = SizeMask /\ c < num_chunks /\ ~Dying(c) /\ CacheOnly
  <2>1. deleted[c] = 1 /\ Gone(c)
    BY DEF TakeDeleted, Base, SafeInv, DeletedOnce
  <2>2. bits[c] = {}
    BY TakenWord DEF Base
  <2>3. CacheOnly
    BY <2>1 DEF Base, ReuseInRam, SafeInv, NoCreation, NoDeletion, Creating
  <2> QED
    BY <2>1, <2>2, <2>3
    DEF Gone, Base, SafeInv, FreshId, Shape, Ids, UsedWord, InUse
<1>2. /\ bits' = [bits EXCEPT ![c] = {}] /\ low' = [low EXCEPT ![c] = 0]
      /\ \A d \in Ids : Dying(d)' <=> Dying(d)
      /\ UNCHANGED <<num_chunks, slot_data, disk, ptr, lpc, lchunk, lslot, lold>>
  BY
  DEF TakeDeleted, CreateFrame, cache, loader, Return, GoTo, Dying, Base, Shape
<1>3. /\ \A d \in Ids : InSlot(d)' <=> InSlot(d)
      /\ \A d \in Ids : InSlot(d) => low'[d] = low[d]
  BY <1>1, <1>2 DEF InSlot, Evicted, Base, Shape
<1>4. c \notin LiveIds /\ LiveIds' = LiveIds \cup {c}
  BY <1>1, <1>2 DEF LiveIds, Has, Base, Shape
<1>5. SameData
  BY <1>2, <1>3, DataKept DEF DataAt, FileData, LiveIds
<1>6. DataOf(c)' = Zero
  <2>1. ~InSlot(c)' /\ FileData(c)' = Zero
    BY <1>1, <1>3 DEF InSlot, FileData
  <2> QED BY <1>4, <2>1, LiveDataNext DEF LiveData, DataAt
<1>7. SameHolds(Ids) /\ \A d \in Ids : Held(d)' <=> Held(d)
  BY <1>2 DEF SameHolds, Holds, Held
<1>8. StoreInv'
  BY <1>1, <1>2, StoreFrame DEF StoreInv, Clean
<1> QED BY <1>4, <1>5, <1>6, <1>7, <1>8, BothHold, CreateMaps DEF Shows

\* create_chunk takes a fresh id, which has neither a flag nor a file (311-316).
LEMMA CreateTakeMaps ==
  ASSUME Base, Base', StoreInv, NEW t \in Clients,
         CreateTake(t), StillNext(t), CreateFrame
  PROVE  StoreInv' /\ Shows
<1> USE Constants
<1>0. PICK c \in Ids : c = arg[t]
  BY DEF CreateTake, Base, Shape
<1>1. /\ c = num_chunks /\ pc[t] = "take" /\ bits[c] = {} /\ low[c] = 0 /\ ~Dying(c)
      /\ disk[c] = None
  BY <1>0
  DEF CreateTake, StillNext, Base, Shape, SafeInv, FreshId, UsedWord, InUse, Ids,
      StoreInv, FreshFile
<1>2. /\ bits' = [bits EXCEPT ![c] = {}] /\ low' = [low EXCEPT ![c] = 0]
      /\ num_chunks' = num_chunks + 1
      /\ \A d \in Ids : Dying(d)' <=> Dying(d)
      /\ UNCHANGED <<slot_data, disk, ptr, lpc, lchunk, lslot, lold>>
  <2>1. /\ pc' = [pc EXCEPT ![t] = "idle"] /\ pc[t] = "take"
        /\ arg' = [arg EXCEPT ![t] = None]
    BY DEF CreateTake, StillNext, Return, GoTo
  <2>2. \A d \in Ids : Dying(d)' <=> Dying(d)
    BY <2>1 DEF Dying, Base, Shape
  <2> QED BY <1>0, <2>2 DEF CreateTake, StillNext, CreateFrame, cache, loader
<1>3. bits' = bits /\ low' = low
  BY <1>1, <1>2 DEF Base, Shape
<1>4. \A d \in Ids : (InSlot(d)' <=> InSlot(d)) /\ (Held(d)' <=> Held(d))
  BY <1>2, <1>3 DEF InSlot, Evicted, Held, Holds
<1>5. c \notin LiveIds /\ LiveIds' = LiveIds \cup {c}
  <2>1. /\ ~(c < num_chunks)
        /\ \A d \in Ids : d < num_chunks' <=> d < num_chunks \/ d = c
    BY <1>1, <1>2 DEF Ids
  <2> QED BY <1>1, <1>2, <1>3, <2>1 DEF LiveIds, Has
<1>6. SameData
  BY <1>2, <1>3, <1>4, DataKept DEF DataAt, FileData, LiveIds
<1>7. DataOf(c)' = Zero
  <2>1. ~InSlot(c)' /\ FileData(c)' = Zero
    BY <1>1, <1>2, <1>4 DEF InSlot, FileData
  <2> QED BY <1>5, <2>1, LiveDataNext DEF LiveData, DataAt
<1>8. SameHolds(Ids)
  BY <1>2 DEF SameHolds, Holds
<1>9. StoreInv'
  <2>1. Clean'
    BY <1>2, <1>3, <1>4, CleanStays DEF StoreInv, Waiting
  <2>2. FreshFile'
    BY <1>2 DEF StoreInv, FreshFile, Base, Shape, Ids
  <2> QED BY <1>2, <2>1, <2>2, StoreFrame DEF StoreInv
<1> QED BY <1>5, <1>6, <1>7, <1>8, <1>9, BothHold, CreateMaps DEF Shows

\* fetch returns a chunk that nobody holds or evicts (370-376).
LEMMA FetchTakeMaps ==
  ASSUME Base, Base', StoreInv, NEW t \in Clients, FetchTake(t), FetchFrame
  PROVE  StoreInv' /\ Shows
<1> USE Constants
<1>0. PICK c \in Ids : c = arg[t]
  BY DEF FetchTake, Base, Shape
<1>1. /\ c < num_chunks /\ "caching" \in bits[c] /\ low[c] \in Slots
      /\ "writing" \notin bits[c] /\ pc[t] = "fetch"
  BY <1>0 DEF FetchTake, Fetchable, Has, FetchBusy, Base, Shape, SafeInv, KnownId
<1>2. ~Held(c) /\ ~Dying(c)
  BY <1>1 DEF Base, SafeInv, UsedWord, InUse
<1>3. /\ bits' = [bits EXCEPT ![c] = @ \cup {"writing"}]
      /\ ptr' = [ptr EXCEPT ![t][c] = low[c]]
      /\ \A d \in Ids : Dying(d)' <=> Dying(d)
      /\ UNCHANGED <<low, num_chunks, slot_data, disk, lpc, lchunk, lslot, lold>>
  BY <1>0, <1>1
  DEF FetchTake, FetchFrame, ids, cache, loader, Return, GoTo, Dying, Base, Shape
<1>4. \A d \in Ids : SamePlace(d) /\ (Waiting(d) => Waiting(d)')
  BY <1>1, <1>3 DEF SamePlace, Waiting, Base, Shape
<1>5. \A d \in Ids : InSlot(d)' <=> InSlot(d)
  BY <1>3, <1>4 DEF InSlot, Evicted, SamePlace
<1>6. LiveIds' = LiveIds /\ c \in LiveIds
  BY <1>1, <1>2, <1>3, <1>4 DEF LiveIds, Has, SamePlace
<1>7. SameData
  BY <1>3, <1>5, DataKept DEF DataAt, FileData, LiveIds
<1>8. SameHolds(Ids \ {c}) /\ Holds(t, c)'
  BY <1>1, <1>3 DEF SameHolds, Holds, Base, Shape
<1>9. \A d \in Ids : Held(d) => Held(d)'
  BY <1>2, <1>8 DEF SameHolds, Held
<1>10. StoreInv'
  BY <1>3, <1>4, <1>5, <1>9, CleanStays, StoreFrame DEF StoreInv, SamePlace
<1> QED BY <1>1, <1>2, <1>6, <1>7, <1>8, <1>10, BothHold, FetchMaps DEF Shows

\* A chunk a client holds is live, in memory, and in a slot of its own.
LEMMA HeldIsLive ==
  ASSUME Base, NEW t \in Clients, NEW c \in Ids, Holds(t, c)
  PROVE  /\ c \in LiveIds /\ InSlot(c) /\ "loading" \notin bits[c]
         /\ low[c] = ptr[t][c] /\ low[c] \in Slots /\ slot_id[low[c]] = c
<1>1. /\ "caching" \in bits[c] /\ "reading" \notin bits[c] /\ "loading" \notin bits[c]
      /\ ~Dying(c) /\ low[c] = ptr[t][c]
  BY DEF Base, SafeInv, UsedWord, InUse, Held, OneUser, HeldSlot
<1>2. ~Evicted(c)
  BY <1>1 DEF Evicted, Base, SafeInv, MarkedWord, Marks
<1>3. low[c] \in Slots /\ slot_id[low[c]] = c
  BY <1>1, <1>2 DEF InSlot, Base, SafeInv, CachedSlot, Shape
<1>4. c < num_chunks
  BY <1>1 DEF Base, SafeInv, FreshId, Shape, Ids
<1> QED BY <1>1, <1>2, <1>3, <1>4 DEF LiveIds, Has, InSlot

\* The holder writes its chunk's slot, and no other chunk's.
LEMMA WriteMapped ==
  ASSUME Base, Base', StoreInv, NEW t \in Clients, NEW c \in Ids, NEW v \in Values,
         Write(t, c, v), HolderFrame
  PROVE  StoreInv' /\ Shows
<1>1. Holds(t, c)
  BY DEF Write, HolderCalls
<1>2. /\ c \in LiveIds /\ InSlot(c) /\ "loading" \notin bits[c]
      /\ low[c] = ptr[t][c] /\ low[c] \in Slots /\ slot_id[low[c]] = c
  BY <1>1, HeldIsLive
<1>3. /\ slot_data' = [slot_data EXCEPT ![low[c]] = v]
      /\ UNCHANGED <<bits, low, num_chunks, ptr, pc, arg, slot_id, disk, lpc, lchunk,
                     lslot, lold>>
  BY <1>2 DEF Write, HolderFrame, word, client, ids, loader
<1>4. LiveIds' = LiveIds
  BY <1>3 DEF LiveIds, Has, Dying
<1>5. \A d \in Ids : /\ InSlot(d)' <=> InSlot(d)
                     /\ Held(d)' <=> Held(d)
                     /\ Waiting(d)' <=> Waiting(d)
                     /\ FileData(d)' = FileData(d)
  BY <1>3 DEF InSlot, Dying, Evicted, Held, Holds, Waiting, FileData
<1>6. \A d \in Ids : InSlot(d) /\ d # c => slot_data'[low[d]] = slot_data[low[d]]
  BY <1>2, <1>3 DEF Base, SafeInv, CachedSlot, DataInv, Shape, InSlot
<1>7. slot_data'[low[c]] = v
  BY <1>2, <1>3 DEF Base, DataInv
<1>8. \A d \in LiveIds : DataOf(d)' = DataAt(d)' /\ DataOf(d) = DataAt(d)
  BY <1>4, LiveDataIs, LiveDataNext DEF LiveData
<1>9. DataOf(c)' = v
  BY <1>2, <1>3, <1>5, <1>7, <1>8 DEF DataAt
<1>10. \A d \in LiveIds \ {c} : DataOf(d)' = DataOf(d)
  BY <1>3, <1>5, <1>6, <1>8 DEF DataAt, LiveIds
<1>11. Clean'
  BY <1>1, <1>3, <1>5, <1>6 DEF StoreInv, Clean, OnDisk, Held
<1>12. Loaded'
  <2>1. ASSUME NEW l \in Loaders, lpc[l] = "publish"
        PROVE  lslot[l] \in Slots \ {low[c]} /\ lchunk[l] \in Ids
    BY <1>2, <2>1 DEF Base, SafeInv, ClaimedSlot, Filling, LoadOnce, Shape
  <2> QED BY <1>3, <1>5, <2>1 DEF StoreInv, Loaded, Base, DataInv
<1>13. SameHolds(Ids)
  BY <1>3 DEF SameHolds, Holds
<1> QED
  BY <1>1, <1>2, <1>3, <1>4, <1>9, <1>10, <1>11, <1>12, <1>13, BothHold, WriteMaps,
     StoreFrame DEF Shows, StoreInv

\* A holder lets go of its chunk (382, 390, 396-399, 403-405): what it wrote is on
\* disk already, or the chunk waits for a sync from this step on.
LEMMA ReleaseShows ==
  ASSUME Base, Base', StoreInv, NEW t \in Clients, NEW c \in Ids,
         Release(t, c) \/ ReleaseSyncStart(t, c) \/ ReleaseSyncQueue(t, c),
         HolderFrame
  PROVE  StoreInv' /\ Shows
<1> USE Constants
<1>1. /\ Holds(t, c) /\ ptr' = [ptr EXCEPT ![t][c] = None] /\ pc[t] = "idle"
      /\ UNCHANGED <<low, num_chunks, slot_data, disk, arg, lpc, lchunk, lslot, lold>>
      /\ pc' \in {pc, [pc EXCEPT ![t] = "rs_count"]}
  BY DEF Release, ReleaseSyncStart, ReleaseSyncQueue, HolderCalls, HolderFrame, ids,
         loader, GoTo, Drop
<1>2. /\ c \in LiveIds /\ InSlot(c) /\ low[c] = ptr[t][c]
      /\ "caching" \in bits[c]
  BY <1>1, HeldIsLive DEF InSlot
<1>3. PICK b \in {Unlocked(bits[c]), SyncStarted(bits[c]),
                  Unlocked(bits[c]) \cup {"to_sync"}} :
          bits' = [bits EXCEPT ![c] = b]
  BY DEF Release, ReleaseSyncStart, ReleaseSyncQueue, Base, Shape
<1>4. "caching" \in b /\ (Waiting(c) => "to_sync" \in b \/ "syncing" \in b)
  BY <1>2 DEF Unlocked, SyncStarted, Waiting
<1>5. CacheOnly \/ Waiting(c)' \/ OnDisk(c)
  <2>1. CASE Release(t, c)
    <3>1. bits'[c] = Unlocked(bits[c])
      BY <2>1 DEF Release, Base, Shape
    <3> QED BY <1>2, <2>1, <3>1 DEF Release, Has, OnDisk, Waiting, Unlocked
  <2>2. CASE ReleaseSyncStart(t, c)
    <3>1. bits'[c] = SyncStarted(bits[c])
      BY <2>2 DEF ReleaseSyncStart, Base, Shape
    <3> QED BY <3>1 DEF Waiting, SyncStarted
  <2>3. CASE ReleaseSyncQueue(t, c)
    <3>1. bits'[c] = Unlocked(bits[c]) \cup {"to_sync"}
      BY <2>3 DEF ReleaseSyncQueue, Base, Shape
    <3> QED BY <3>1 DEF Waiting
  <2> QED BY <2>1, <2>2, <2>3
<1>6. \A d \in Ids : /\ SamePlace(d) /\ (d # c => bits'[d] = bits[d])
                     /\ Dying(d)' <=> Dying(d)
  <2>1. \A d \in Ids : Dying(d)' <=> Dying(d)
    BY <1>1 DEF Dying, Base, Shape
  <2> QED BY <1>1, <1>2, <1>3, <1>4, <2>1 DEF SamePlace, Base, Shape
<1>7. \A d \in Ids : InSlot(d)' <=> InSlot(d)
  BY <1>1, <1>6 DEF InSlot, Evicted, SamePlace
<1>8. LiveIds' = LiveIds
  BY <1>1, <1>6 DEF LiveIds, Has, SamePlace
<1>9. SameData
  BY <1>1, <1>7, DataKept DEF DataAt, FileData, LiveIds
<1>10. SameHolds(Ids \ {c}) /\ ~Held(c)'
  BY <1>1, BothHold DEF SameHolds, Held, Holds, OneHolder, Base, Shape
<1>11. Clean'
  <2>1. \A d \in Ids \ {c} : (Held(d)' <=> Held(d)) /\ (Waiting(d)' <=> Waiting(d))
    BY <1>6, <1>10 DEF SameHolds, Held, Waiting
  <2>2. \A d \in Ids : OnDisk(d)' <=> OnDisk(d)
    BY <1>1 DEF OnDisk, FileData
  <2> QED BY <1>5, <1>7, <2>1, <2>2 DEF StoreInv, Clean
<1> QED
  BY <1>1, <1>8, <1>9, <1>10, <1>11, BothHold, ReleaseMaps, StoreFrame
  DEF Shows, StoreInv

\* release_del ends the chunk with its first step (413-417).
LEMMA DelResetShows ==
  ASSUME Base, Base', StoreInv, NEW t \in Clients, NEW c \in Ids,
         ReleaseDelReset(t, c), HolderFrame
  PROVE  StoreInv' /\ Shows
<1> USE Constants
<1>1. /\ Holds(t, c) /\ ptr' = [ptr EXCEPT ![t][c] = None] /\ pc[t] = "idle"
      /\ UNCHANGED <<bits, low, num_chunks, slot_data, disk, lpc, lchunk, lslot, lold>>
      /\ pc' = [pc EXCEPT ![t] = "del_mark"] /\ arg' = [arg EXCEPT ![t] = c]
  BY DEF ReleaseDelReset, HolderCalls, HolderFrame, ids, word, loader, GoTo, Drop
<1>2. c \in LiveIds
  BY <1>1, HeldIsLive
<1>3. \A d \in Ids : Dying(d)' <=> Dying(d) \/ d = c
  BY <1>1 DEF Dying, Base, Shape
<1>4. LiveIds' = LiveIds \ {c}
  BY <1>1, <1>3 DEF LiveIds, Has
<1>5. \A d \in Ids : InSlot(d)' <=> InSlot(d) /\ d # c
  BY <1>1, <1>3 DEF InSlot, Evicted
<1>6. SameData
  BY <1>1, <1>4, <1>5, DataKept DEF DataAt, FileData, LiveIds
<1>7. SameHolds(Ids \ {c}) /\ ~Held(c)'
  BY <1>1, BothHold DEF SameHolds, Held, Holds, OneHolder, Base, Shape
<1>8. Clean'
  BY <1>1, <1>5, <1>7, CleanStays DEF StoreInv, SameHolds, Held, Waiting
<1> QED
  BY <1>1, <1>2, <1>4, <1>6, <1>7, <1>8, BothHold, DeleteMaps, StoreFrame
  DEF Shows, StoreInv

\* release_del removes the file and empties the word of a chunk that is gone
\* already (420-423).
LEMMA DelMarkShows ==
  ASSUME Base, Base', StoreInv, NEW t \in Clients, ReleaseDelMark(t), HolderFrame
  PROVE  StoreInv' /\ Shows
<1> USE Constants
<1>0. PICK c \in Ids : c = arg[t]
  BY DEF ReleaseDelMark, Base, Shape
<1>1. /\ Dying(c) /\ bits' = [bits EXCEPT ![c] = {}]
      /\ low' = [low EXCEPT ![c] = SizeMask]
      /\ disk' = IF CacheOnly THEN disk ELSE [disk EXCEPT ![c] = None]
      /\ UNCHANGED <<num_chunks, slot_data, ptr, lpc, lchunk, lslot, lold>>
  BY <1>0 DEF ReleaseDelMark, HolderFrame, Dying, ids, loader
<1>2. \A d \in Ids \ {c} : Dying(d)' <=> Dying(d)
  <2>1. pc' = [pc EXCEPT ![t] = "del_push"] /\ arg' = arg /\ arg[t] = c
    BY <1>0 DEF ReleaseDelMark, GoTo
  <2> QED BY <2>1 DEF Dying, Base, Shape
<1>3. /\ \A d \in Ids \ {c} : bits'[d] = bits[d] /\ low'[d] = low[d]
      /\ bits'[c] = {} /\ low'[c] = SizeMask
  BY <1>1 DEF Base, Shape
<1>4. LiveIds' = LiveIds /\ c \notin LiveIds
  BY <1>1, <1>2, <1>3 DEF LiveIds, Has
<1>5. \A d \in Ids : InSlot(d)' <=> InSlot(d) /\ d # c
  BY <1>1, <1>2, <1>3 DEF InSlot, Evicted
<1>6. ~InSlot(c) /\ "loading" \notin bits[c]
  BY <1>1 DEF InSlot, Base, SafeInv, UsedWord, InUse
<1>7. \A d \in Ids \ {c} : FileData(d)' = FileData(d)
  BY <1>1 DEF FileData, Base, DataInv
<1>8. SameData
  BY <1>1, <1>3, <1>4, <1>5, <1>7, DataKept DEF DataAt, LiveIds
<1>9. SameHolds(Ids)
  BY <1>1 DEF SameHolds, Holds
<1>10. Clean'
  BY <1>1, <1>3, <1>5, <1>7, <1>9
  DEF StoreInv, Clean, SameHolds, Held, Waiting, OnDisk
<1>11. Loaded'
  <2>1. \A l \in Loaders : lpc[l] = "publish" => lchunk[l] \in Ids \ {c}
    BY <1>6 DEF Base, SafeInv, LoadOnce, Shape
  <2> QED BY <1>1, <1>7, <2>1 DEF StoreInv, Loaded
<1>12. FreshFile'
  BY <1>1 DEF StoreInv, FreshFile, Base, DataInv
<1> QED BY <1>4, <1>8, <1>9, <1>10, <1>11, <1>12, BothHold, StutterMaps
        DEF Shows, StoreInv

LEMMA ClientShows ==
  ASSUME Base, Base', StoreInv, NEW t \in Clients, ClientCalls(t) \/ ClientRuns(t)
  PROVE  StoreInv' /\ Shows
<1> USE Constants
\* Steps of a client that change neither a word nor a slot, nor delete.
<1>1. ASSUME UNCHANGED <<bits, low, num_chunks, ptr, slot_data, disk, loader>>,
             NEW to, to # "del_mark", pc[t] # "del_mark",
             pc' = [pc EXCEPT ![t] = to],
             \A u \in Clients \ {t} : arg'[u] = arg[u]
      PROVE  StoreInv' /\ Shows
  <2>1. \A d \in Ids : Dying(d)' <=> Dying(d)
    BY <1>1 DEF Dying, Base, Shape
  <2>2. \A d \in Ids : SamePlace(d) /\ (Waiting(d) => Waiting(d)')
    BY <1>1 DEF SamePlace, Waiting
  <2> QED
    BY <1>1, <2>1, <2>2, QuietMaps, StoreFrame DEF StoreInv, Evicted, loader
<1>2. ASSUME NEW c \in Ids, StartLoad(c), FetchFrame, UNCHANGED client
      PROVE  StoreInv' /\ Shows
  <2>1. /\ bits' = [bits EXCEPT ![c] = @ \cup {"loading"}] /\ low' = low
        /\ UNCHANGED <<num_chunks, ptr, pc, arg, slot_data, disk, lpc, lchunk, lslot,
                       lold>>
    BY <1>2 DEF StartLoad, FetchFrame, client, ids, cache, loader
  <2>2. \A d \in Ids : SamePlace(d) /\ (Waiting(d) => Waiting(d)')
    BY <2>1 DEF SamePlace, Waiting, Base, Shape
  <2> QED BY <2>1, <2>2, QuietMaps, StoreFrame DEF StoreInv, Evicted, Dying
<1>3. CASE CreateCall(t) /\ CreateFrame
  <2>1. PICK to \in {"pop", "next"} : GoTo(t, to)
    BY <1>3 DEF CreateCall
  <2> QED BY <1>1, <1>3, <2>1 DEF CreateCall, CreateFrame, cache, word, ids, GoTo
<1>4. CASE CreateStep(t) /\ CreateFrame
  <2>1. ASSUME NEW from \in {"pop", "last"}, NEW else \in {"next", "abort"},
               CreatePop(t, from, else)
        PROVE  StoreInv' /\ Shows
    <3>1. CASE \E c \in Ids : TakeDeleted(t, c)
      BY <1>4, <2>1, <3>1, TakeDeletedMaps DEF CreatePop
    <3>2. CASE FreeIds = {} /\ GoTo(t, else) /\ UNCHANGED <<arg, word, ids>>
      BY <1>1, <1>4, <2>1, <3>2 DEF CreatePop, CreateFrame, GoTo, word, ids, cache
    <3> QED BY <2>1, <3>1, <3>2 DEF CreatePop
  <2>2. CASE CreateNext(t)
    <3>1. PICK to \in {"take", "last"} : GoTo(t, to)
      BY <2>2 DEF CreateNext
    <3>2. \A u \in Clients \ {t} : arg'[u] = arg[u]
      BY <2>2 DEF CreateNext, Base, Shape
    <3> QED
      BY <1>1, <1>4, <2>2, <3>1, <3>2
      DEF CreateNext, CreateFrame, GoTo, word, ids, cache
  <2>3. CASE CreateTake(t)
    <3>1. CASE StillNext(t)
      BY <1>4, <2>3, <3>1, CreateTakeMaps
    <3>2. CASE ~StillNext(t)
      <4>1. \A u \in Clients \ {t} : arg'[u] = arg[u]
        BY <2>3, <3>2 DEF CreateTake, Base, Shape
      <4> QED
        BY <1>1, <1>4, <2>3, <3>2, <4>1
        DEF CreateTake, CreateFrame, GoTo, word, cache
    <3> QED BY <3>1, <3>2
  <2> QED BY <1>4, <2>1, <2>2, <2>3 DEF CreateStep
<1>5. ASSUME NEW c \in Ids, Prefetch(t, c) \/ FetchCall(t, c), FetchFrame
      PROVE  StoreInv' /\ Shows
  <2>1. CASE Prefetch(t, c)
    BY <1>2, <1>5, <2>1 DEF Prefetch
  <2>2. CASE FetchCall(t, c)
    <3>1. \A u \in Clients \ {t} : arg'[u] = arg[u]
      BY <2>2 DEF FetchCall, Base, Shape
    <3> QED
      BY <1>1, <1>5, <2>2, <3>1 DEF FetchCall, FetchFrame, GoTo, word, ids, cache
  <2> QED BY <1>5, <2>1, <2>2
<1>6. ASSUME NEW c \in Ids, HolderFrame,
             \/ \E v \in Values : Write(t, c, v)
             \/ Release(t, c) \/ ReleaseSyncStart(t, c) \/ ReleaseSyncQueue(t, c)
             \/ ReleaseDelReset(t, c)
      PROVE  StoreInv' /\ Shows
  BY <1>6, WriteMapped, ReleaseShows, DelResetShows
<1>7. CASE (FetchNull(t) \/ FetchLoad(t) \/ FetchTake(t)) /\ FetchFrame
  <2>1. CASE FetchNull(t)
    <3>1. \A u \in Clients \ {t} : arg'[u] = arg[u]
      BY <2>1 DEF FetchNull, Return, Base, Shape
    <3> QED
      BY <1>1, <1>7, <2>1, <3>1
      DEF FetchNull, FetchFrame, Return, GoTo, word, ids, cache
  <2>2. CASE FetchLoad(t)
    <3>1. arg[t] \in Ids
      BY <2>2 DEF FetchLoad, Base, Shape
    <3> QED BY <1>2, <1>7, <2>2, <3>1 DEF FetchLoad
  <2>3. CASE FetchTake(t)
    BY <1>7, <2>3, FetchTakeMaps
  <2> QED BY <1>7, <2>1, <2>2, <2>3
<1>8. CASE (ReleaseSyncCount(t) \/ ReleaseDelMark(t)) /\ HolderFrame
  <2>1. CASE ReleaseSyncCount(t)
    <3>1. \A u \in Clients \ {t} : arg'[u] = arg[u]
      BY <2>1 DEF ReleaseSyncCount, Return, Base, Shape
    <3> QED
      BY <1>1, <1>8, <2>1, <3>1
      DEF ReleaseSyncCount, HolderFrame, Return, GoTo, word, ids
  <2>2. CASE ReleaseDelMark(t)
    BY <1>8, <2>2, DelMarkShows
  <2> QED BY <1>8, <2>1, <2>2
<1>9. CASE ReleaseDelPush(t) /\ UNCHANGED <<loads, loader, syncer>>
  <2>1. \A u \in Clients \ {t} : arg'[u] = arg[u]
    BY <1>9 DEF ReleaseDelPush, Return, Base, Shape
  <2> QED BY <1>1, <1>9, <2>1 DEF ReleaseDelPush, Return, GoTo, word, cache
<1> QED BY <1>3, <1>4, <1>5, <1>6, <1>7, <1>8, <1>9 DEF ClientCalls, ClientRuns

-----------------------------------------------------------------------------
(* The workers of loading_pool.                                            *)

\* A chunk's data changes only before its word says that it is in memory (721).
LEMMA LoadDataShows ==
  ASSUME Base, Base', StoreInv, NEW l \in Loaders, LoadData(l), LoaderFrame
  PROVE  StoreInv' /\ Shows
<1> USE Constants DEF Base, Shape
<1>0. PICK c \in Ids, s \in Slots : c = lchunk[l] /\ s = lslot[l]
  BY DEF LoadData, LoaderAt
<1>1. /\ lpc[l] = "load" /\ lpc' = [lpc EXCEPT ![l] = "publish"]
      /\ slot_data' = [slot_data EXCEPT ![s] = FileData(c)]
      /\ UNCHANGED <<bits, low, num_chunks, ptr, pc, arg, disk, lchunk, lslot, lold>>
  BY <1>0 DEF LoadData, LoaderAt, LoaderFrame, word, ids, client
<1>2. "caching" \notin bits[c] /\ slot_id[s] = c
  BY <1>0, <1>1 DEF SafeInv, LoadOnce, LoadWord, ClaimedSlot, Filling
<1>3. \A d \in Ids : /\ InSlot(d)' <=> InSlot(d)
                     /\ Held(d)' <=> Held(d)
                     /\ Waiting(d)' <=> Waiting(d)
                     /\ FileData(d)' = FileData(d)
  BY <1>1 DEF InSlot, Dying, Evicted, Held, Holds, Waiting, FileData
<1>4. \A d \in Ids : InSlot(d) => slot_data'[low[d]] = slot_data[low[d]]
  BY <1>1, <1>2 DEF SafeInv, CachedSlot, DataInv, InSlot
<1>5. LiveIds' = LiveIds
  BY <1>1 DEF LiveIds, Has, Dying
<1>6. SameData
  BY <1>1, <1>3, <1>4, DataKept DEF DataAt, LiveIds
<1>7. Clean'
  BY <1>1, <1>3, <1>4 DEF StoreInv, Clean, OnDisk
<1>8. Loaded'
  <2>1. slot_data'[s] = FileData(c)
    BY <1>1 DEF DataInv
  <2>2. ASSUME NEW m \in Loaders, m # l, lpc[m] = "publish"
        PROVE  lslot[m] \in Slots \ {s} /\ lchunk[m] \in Ids
    BY <1>0, <1>1, <1>2, <2>2 DEF SafeInv, ClaimedSlot, Filling, LoadOnce
  <2> QED BY <1>0, <1>1, <1>3, <2>1, <2>2 DEF StoreInv, Loaded, DataInv
<1>9. SameHolds(Ids)
  BY <1>1 DEF SameHolds, Holds
<1> QED
  BY <1>1, <1>5, <1>6, <1>7, <1>8, <1>9, BothHold, StutterMaps, StoreFrame
  DEF Shows, StoreInv

\* Until it is published, a chunk reads as its file; then as its slot (731).
LEMMA PublishShows ==
  ASSUME Base, Base', StoreInv, NEW l \in Loaders, LoadPublish(l), LoaderFrame
  PROVE  StoreInv' /\ Shows
<1> USE Constants DEF Base, Shape
<1>0. PICK c \in Ids, s \in Slots : c = lchunk[l] /\ s = lslot[l]
  BY DEF LoadPublish, LoaderAt
<1>1. /\ lpc[l] = "publish" /\ lpc' = [lpc EXCEPT ![l] = "idle"]
      /\ bits' = [bits EXCEPT ![c] = (@ \cup {"caching"}) \ {"loading"}]
      /\ low' = [low EXCEPT ![c] = s]
      /\ lchunk' = [lchunk EXCEPT ![l] = None] /\ lslot' = [lslot EXCEPT ![l] = 0]
      /\ UNCHANGED <<num_chunks, ptr, pc, arg, slot_data, disk, lold>>
  BY <1>0 DEF LoadPublish, LoaderAt, LoaderFrame, ids, client, cache
<1>2. /\ "loading" \in bits[c] /\ "caching" \notin bits[c]
      /\ slot_data[s] = FileData(c)
  BY <1>0, <1>1 DEF SafeInv, LoadOnce, LoadWord, StoreInv, Loaded
<1>3. low[c] # SizeMask /\ ~Marked(c)
  BY <1>2 DEF SafeInv, GoneWord, Gone, MarkedWord, Marked
<1>4. \A d \in Ids : /\ Dying(d)' <=> Dying(d)
                     /\ Evicted(d)' <=> Evicted(d)
                     /\ FileData(d)' = FileData(d)
                     /\ d # c => bits'[d] = bits[d] /\ low'[d] = low[d]
  BY <1>1 DEF Dying, Evicted, FileData
<1>5. bits'[c] = (bits[c] \cup {"caching"}) \ {"loading"} /\ low'[c] = s
  BY <1>1
<1>6. LiveIds' = LiveIds
  BY <1>1, <1>2, <1>3, <1>4, <1>5 DEF LiveIds, Has
<1>7. \A d \in Ids \ {c} : (InSlot(d)' <=> InSlot(d)) /\ (Waiting(d)' <=> Waiting(d))
  BY <1>4 DEF InSlot, Waiting
<1>8. ~InSlot(c) /\ OnDisk(c)'
  BY <1>1, <1>2, <1>4, <1>5 DEF InSlot, OnDisk
<1>9. SameData
  <2>1. \A d \in Ids \ {c} : DataAt(d)' = DataAt(d)
    BY <1>1, <1>4, <1>7 DEF DataAt
  <2>2. DataAt(c)' = DataAt(c)
    BY <1>4, <1>8 DEF DataAt, OnDisk
  <2> QED BY <2>1, <2>2, DataKept DEF LiveIds
<1>10. SameHolds(Ids) /\ \A d \in Ids : Held(d)' <=> Held(d)
  BY <1>1 DEF SameHolds, Holds, Held
<1>11. Clean'
  BY <1>1, <1>4, <1>7, <1>8, <1>10 DEF StoreInv, Clean, OnDisk
<1>12. Loaded'
  BY <1>1, <1>4 DEF StoreInv, Loaded, SafeInv, LoadOnce
<1> QED
  BY <1>1, <1>6, <1>9, <1>10, <1>11, <1>12, BothHold, StutterMaps, StoreFrame
  DEF Shows, StoreInv

\* A chunk loses its slot only when its file says the same (606).
LEMMA EvictSwapShows ==
  ASSUME Base, Base', StoreInv, NEW l \in Loaders, EvictSwap(l),
         SlotStillHas(lslot[l], lold[l]), LoaderFrame
  PROVE  StoreInv' /\ Shows
<1> USE Constants DEF Base, Shape
<1>0. PICK c \in Ids, s \in Slots : c = lold[l] /\ s = lslot[l]
  BY DEF EvictSwap, LoaderAt, Evicts
<1>1. /\ lpc[l] = "swap" /\ lpc' = [lpc EXCEPT ![l] = "unmap"] /\ slot_id[s] = c
      /\ ~CacheOnly
      /\ UNCHANGED <<bits, low, num_chunks, ptr, pc, arg, slot_data, disk, lchunk,
                     lslot, lold>>
  BY <1>0
  DEF EvictSwap, SlotStillHas, LoaderAt, LoaderFrame, word, ids, client, Evicts
<1>2. /\ "reading" \in bits[c] /\ "loading" \notin bits[c]
      /\ ~Waiting(c) /\ ~Held(c)
  BY <1>0, <1>1 DEF SafeInv, MarkedWord, Marks, Waiting, UsedWord, InUse
<1>3. InSlot(c)
  <2>1. ~\E m \in Loaders : Filling(m) /\ lchunk[m] = c
    BY <1>2 DEF SafeInv, LoadOnce, Filling
  <2> QED BY <1>1, <2>1 DEF SafeInv, SlotOwner, Owns
<1>4. OnDisk(c)
  BY <1>1, <1>2, <1>3 DEF StoreInv, Clean
<1>5. \A d \in Ids : InSlot(d)' <=> InSlot(d) /\ d # c
  <2>1. \A d \in Ids : Evicted(d)' <=> Evicted(d) \/ d = c
    BY <1>0, <1>1 DEF Evicted
  <2> QED BY <1>1, <2>1 DEF InSlot, Dying
<1>6. LiveIds' = LiveIds
  BY <1>1 DEF LiveIds, Has, Dying
<1>7. SameData
  BY <1>1, <1>3, <1>4, <1>5, DataKept DEF DataAt, OnDisk, FileData, LiveIds
<1>8. SameHolds(Ids) /\ \A d \in Ids : Held(d)' <=> Held(d)
  BY <1>1 DEF SameHolds, Holds, Held
<1>9. Clean'
  BY <1>1, <1>5, <1>8, CleanStays DEF StoreInv, Waiting
<1>10. Loaded'
  BY <1>1 DEF StoreInv, Loaded, FileData
<1> QED
  BY <1>1, <1>6, <1>7, <1>8, <1>9, <1>10, BothHold, StutterMaps, StoreFrame
  DEF Shows, StoreInv

\* Then its word is told (610-613).
LEMMA EvictUnmapShows ==
  ASSUME Base, Base', StoreInv, NEW l \in Loaders, EvictUnmap(l), LoaderFrame
  PROVE  StoreInv' /\ Shows
<1> USE Constants DEF Base, Shape
<1>0. PICK c \in Ids : c = lold[l]
  BY DEF EvictUnmap, LoaderAt, Evicts
<1>1. /\ lpc[l] = "unmap" /\ lpc' = [lpc EXCEPT ![l] = "load"]
      /\ bits' = [bits EXCEPT ![c] = Unmapped(@)] /\ low' = [low EXCEPT ![c] = 0]
      /\ lold' = [lold EXCEPT ![l] = None]
      /\ UNCHANGED <<num_chunks, ptr, pc, arg, slot_data, disk, lchunk, lslot>>
  BY <1>0 DEF EvictUnmap, LoaderAt, LoaderFrame, ids, client, cache
<1>2. /\ "caching" \in bits[c] /\ Evicted(c)
      /\ "caching" \notin Unmapped(bits[c])
  BY <1>0, <1>1 DEF SafeInv, MarkedWord, Marks, Evicted, Unmapped
<1>3. \A d \in Ids \ {c} : /\ bits'[d] = bits[d] /\ low'[d] = low[d]
                           /\ Evicted(d)' <=> Evicted(d)
  BY <1>0, <1>1 DEF Evicted
<1>4. bits'[c] = Unmapped(bits[c]) /\ low'[c] = 0
  BY <1>1
<1>5. \A d \in Ids : Dying(d)' <=> Dying(d)
  BY <1>1 DEF Dying
<1>6. LiveIds' = LiveIds
  BY <1>1, <1>2, <1>3, <1>4, <1>5 DEF LiveIds, Has
<1>7. \A d \in Ids : InSlot(d)' <=> InSlot(d)
  BY <1>2, <1>3, <1>4, <1>5 DEF InSlot
<1>8. ~InSlot(c)
  BY <1>2 DEF InSlot
<1>9. SameData
  BY <1>1, <1>3, <1>7, <1>8, DataKept DEF DataAt, FileData, LiveIds
<1>10. SameHolds(Ids) /\ \A d \in Ids : Held(d)' <=> Held(d)
  BY <1>1 DEF SameHolds, Holds, Held
<1>11. Clean'
  BY <1>1, <1>3, <1>7, <1>8, <1>10, CleanStays DEF StoreInv, Waiting
<1>12. Loaded'
  BY <1>1 DEF StoreInv, Loaded, FileData
<1> QED
  BY <1>1, <1>6, <1>9, <1>10, <1>11, <1>12, BothHold, StutterMaps, StoreFrame
  DEF Shows, StoreInv

LEMMA LoaderShows ==
  ASSUME Base, Base', StoreInv, NEW l \in Loaders, LoaderStep(l)
  PROVE  StoreInv' /\ Shows
<1> USE Constants
<1>0. /\ LoaderFrame /\ UNCHANGED <<num_chunks, ptr, pc, arg>>
      /\ \A d \in Ids : Dying(d)' <=> Dying(d)
  BY DEF LoaderStep, LoaderFrame, ids, client, Dying
\* A step that changes no more than one word, and marks no chunk as evicted.
<1>1. ASSUME NEW c \in Ids, NEW b, b = bits[c] \/ b = bits[c] \cup {"writing", "reading"}
                                   \/ b = Unlocked(bits[c]),
             bits' = [bits EXCEPT ![c] = b], UNCHANGED <<low, slot_data, disk>>,
             lpc[l] # "unmap", lpc'[l] \notin {"unmap", "publish"},
             \A m \in Loaders \ {l} : lpc'[m] = lpc[m] /\ lold'[m] = lold[m]
                                      /\ lchunk'[m] = lchunk[m] /\ lslot'[m] = lslot[m]
      PROVE  StoreInv' /\ Shows
  <2>1. /\ "caching" \in b <=> "caching" \in bits[c]
        /\ "to_sync" \in b <=> "to_sync" \in bits[c]
        /\ "syncing" \in b <=> "syncing" \in bits[c]
    BY <1>1 DEF Unlocked
  <2>2. \A d \in Ids : SamePlace(d) /\ (Waiting(d) => Waiting(d)')
    BY <1>1, <2>1 DEF SamePlace, Waiting, Base, Shape
  <2>3. \A d \in Ids : Evicted(d)' <=> Evicted(d)
    BY <1>1 DEF Evicted
  <2>4. Loaded'
    BY <1>1 DEF StoreInv, Loaded, FileData
  <2> QED BY <1>0, <1>1, <2>2, <2>3, <2>4, QuietMaps
<1>2. ASSUME UNCHANGED <<bits, low, slot_data, disk>>,
             lpc[l] # "unmap", lpc'[l] \notin {"unmap", "publish"},
             \A m \in Loaders \ {l} : lpc'[m] = lpc[m] /\ lold'[m] = lold[m]
                                      /\ lchunk'[m] = lchunk[m] /\ lslot'[m] = lslot[m]
      PROVE  StoreInv' /\ Shows
  <2>1. 0 \in Ids /\ bits' = [bits EXCEPT ![0] = bits[0]]
    BY <1>2 DEF Base, Shape, Ids
  <2> QED BY <1>1, <1>2, <2>1
<1>3. ScanOn(l) => /\ lpc'[l] = "scan"
                   /\ \A m \in Loaders \ {l} :
                          lpc'[m] = lpc[m] /\ lold'[m] = lold[m]
                          /\ lchunk'[m] = lchunk[m] /\ lslot'[m] = lslot[m]
  BY DEF ScanOn, Base, Shape
<1>4. ASSUME NEW c \in Ids, LoadTake(l, c) PROVE StoreInv' /\ Shows
  BY <1>2, <1>4 DEF LoadTake, LoaderAt, word, cache, Base, Shape
<1>5. CASE Scan(l)
  <2>1. CASE ScanOn(l)
    BY <1>2, <1>3, <1>5, <2>1 DEF Scan, word, cache
  <2>2. CASE ~ScanOn(l)
    <3>1. /\ UNCHANGED <<bits, low, slot_data, disk, lchunk, lslot>> /\ lpc[l] = "scan"
          /\ \E to \in {"claim", "look"} : lpc' = [lpc EXCEPT ![l] = to]
          /\ \E old : lold' = lold \/ lold' = [lold EXCEPT ![l] = old]
      BY <1>5, <2>2 DEF Scan, LoaderAt, word, cache
    <3> QED BY <1>2, <3>1 DEF Base, Shape
  <2> QED BY <2>1, <2>2
<1>6. CASE Look(l)
  <2>1. CASE ScanOn(l)
    BY <1>2, <1>3, <1>6, <2>1 DEF Look, word, cache
  <2>2. CASE ~ScanOn(l)
    BY <1>2, <1>6, <2>2 DEF Look, LoaderAt, word, cache, Base, Shape
  <2> QED BY <2>1, <2>2
<1>7. CASE Claim(l)
  <2>1. CASE ScanOn(l)
    BY <1>2, <1>3, <1>7, <2>1 DEF Claim, word
  <2>2. CASE ~ScanOn(l)
    BY <1>2, <1>7, <2>2 DEF Claim, LoaderAt, word, Base, Shape
  <2> QED BY <2>1, <2>2
<1>8. CASE EvictMark(l)
  <2>0. PICK c \in Ids : c = lold[l]
    BY <1>8 DEF EvictMark, Base, Shape, Evicts
  <2>1. CASE MayEvict(c)
    <3>1. /\ bits' = [bits EXCEPT ![c] = bits[c] \cup {"writing", "reading"}]
          /\ lpc[l] = "mark" /\ lpc' = [lpc EXCEPT ![l] = "swap"]
          /\ UNCHANGED <<low, slot_data, disk, lchunk, lslot, lold>>
      BY <1>8, <2>0, <2>1 DEF EvictMark, LoaderAt, cache
    <3>2. lpc'[l] = "swap" /\ \A m \in Loaders \ {l} : lpc'[m] = lpc[m]
      BY <3>1 DEF Base, Shape
    <3> QED BY <1>1, <3>1, <3>2
  <2>2. CASE ~MayEvict(c)
    BY <1>2, <1>3, <1>8, <2>0, <2>2 DEF EvictMark, cache
  <2> QED BY <2>1, <2>2
<1>9. CASE EvictSwap(l)
  <2>1. CASE SlotStillHas(lslot[l], lold[l])
    BY <1>0, <1>9, <2>1, EvictSwapShows
  <2>2. CASE ~SlotStillHas(lslot[l], lold[l])
    BY <1>2, <1>9, <2>2 DEF EvictSwap, LoaderAt, word, Base, Shape
  <2> QED BY <2>1, <2>2
<1>10. CASE EvictUndo(l)
  <2>0. PICK c \in Ids : c = lold[l]
    BY <1>10 DEF EvictUndo, Base, Shape, Evicts
  <2>1. /\ bits' = [bits EXCEPT ![c] = Unlocked(bits[c])] /\ lpc[l] = "undo"
        /\ ScanOn(l) /\ UNCHANGED <<low, slot_data, disk>>
    BY <1>10, <2>0 DEF EvictUndo, cache
  <2> QED BY <1>1, <1>3, <2>1
<1> QED
  BY <1>0, <1>4, <1>5, <1>6, <1>7, <1>8, <1>9, <1>10, EvictUnmapShows, LoadDataShows,
     PublishShows
  DEF LoaderStep

-----------------------------------------------------------------------------
(* The workers of syncing_pool.                                            *)

\* What is written to the file is what the slot holds, and nobody can write the
\* slot meanwhile, since fetch waits for the sync (739-744).
LEMMA SyncDoneShows ==
  ASSUME Base, Base', StoreInv, NEW s \in Syncers, SyncDone(s), SyncerFrame
  PROVE  StoreInv' /\ Shows
<1> USE Constants DEF Base, Shape
<1>0. PICK c \in Ids : c = schunk[s]
  BY DEF SyncDone, SyncerAt
<1>1. /\ spc[s] = "sync" /\ bits' = [bits EXCEPT ![c] = Synced(@)]
      /\ disk' = IF CacheOnly THEN disk ELSE [disk EXCEPT ![c] = slot_data[low[c]]]
      /\ UNCHANGED <<low, num_chunks, ptr, pc, arg, slot_data, lpc, lchunk, lslot, lold>>
  BY <1>0 DEF SyncDone, SyncerAt, SyncerFrame, ids, client, loader
<1>2. "syncing" \in bits[c]
  BY <1>0, <1>1 DEF SyncOnce
<1>3. /\ InSlot(c) /\ low[c] \in Slots /\ "loading" \notin bits[c] /\ c < num_chunks
  <2>0. ~(c >= num_chunks)
    BY <1>2 DEF SafeInv, FreshId
  <2>1. "caching" \in bits[c] /\ "loading" \notin bits[c] /\ c < num_chunks
    BY <1>2, <2>0 DEF SafeInv, LoadWord, Ids
  <2>2. ~Dying(c) /\ ~Evicted(c)
    BY <1>2 DEF SafeInv, UsedWord, InUse, MarkedWord, Marks, Evicted
  <2> QED BY <2>1, <2>2 DEF InSlot
<1>4. CacheOnly \/ FileData(c)' = slot_data[low[c]]
  <2>1. slot_data[low[c]] \in Nat
    BY <1>3, SizesAssumption DEF DataInv
  <2> QED BY <1>1, <2>1 DEF FileData, DataInv, None
<1>5. \A d \in Ids \ {c} : bits'[d] = bits[d] /\ FileData(d)' = FileData(d)
  BY <1>1 DEF FileData, DataInv
<1>6. \A d \in Ids : Dying(d)' <=> Dying(d)
  BY <1>1 DEF Dying
<1>7. \A d \in Ids : SamePlace(d)
  BY <1>1 DEF SamePlace, Synced
<1>8. \A d \in Ids : InSlot(d)' <=> InSlot(d)
  BY <1>1, <1>6, <1>7 DEF InSlot, SamePlace, Evicted
<1>9. LiveIds' = LiveIds
  BY <1>1, <1>6, <1>7 DEF LiveIds, Has, SamePlace
<1>10. SameData
  <2>1. \A d \in Ids : DataAt(d)' = DataAt(d)
    BY <1>1, <1>3, <1>5, <1>8 DEF DataAt
  <2> QED BY <2>1, DataKept DEF LiveIds
<1>11. SameHolds(Ids) /\ \A d \in Ids : Held(d)' <=> Held(d)
  BY <1>1 DEF SameHolds, Holds, Held
<1>12. Clean'
  <2>1. \A d \in Ids \ {c} : /\ Waiting(d)' <=> Waiting(d)
                             /\ OnDisk(d)' <=> OnDisk(d)
    BY <1>1, <1>5 DEF Waiting, OnDisk
  <2>2. CacheOnly \/ OnDisk(c)'
    BY <1>1, <1>4 DEF OnDisk
  <2> QED BY <1>8, <1>11, <2>1, <2>2 DEF StoreInv, Clean
<1>13. Loaded'
  <2>1. \A l \in Loaders : lpc[l] = "publish" => lchunk[l] \in Ids \ {c}
    BY <1>3 DEF SafeInv, LoadOnce
  <2> QED BY <1>1, <1>5, <2>1 DEF StoreInv, Loaded
<1>14. FreshFile'
  <2>1. \A d \in Ids : d >= num_chunks => d # c /\ disk'[d] = disk[d]
    BY <1>1, <1>3 DEF DataInv, Ids
  <2> QED BY <1>1, <2>1 DEF StoreInv, FreshFile
<1> QED
  BY <1>9, <1>10, <1>11, <1>12, <1>13, <1>14, BothHold, StutterMaps
  DEF Shows, StoreInv

LEMMA SyncerShows ==
  ASSUME Base, Base', StoreInv, NEW s \in Syncers, SyncerStep(s)
  PROVE  StoreInv' /\ Shows
<1>1. /\ SyncerFrame
      /\ UNCHANGED <<slot_data, num_chunks, ptr, pc, arg, lpc, lchunk, lslot, lold>>
  BY DEF SyncerStep, SyncerFrame, ids, client, loader
<1>2. CASE SyncDone(s)
  BY <1>1, <1>2, SyncDoneShows
<1>3. CASE ~SyncDone(s)
  <2>1. disk' = disk
    BY <1>3
    DEF SyncerStep, SyncTake, Count, SignalSize, PurgePop, TryPop, PopOrRotate,
        PurgeEnd, Busy, PutBack, Stale, TryNext, TryStart, SignalEnd
  <2>2. \A d \in Ids : SamePlace(d)
    BY SyncerWord DEF SyncerMayChange, Base
  <2>3. \A d \in Ids : Waiting(d) => Waiting(d)'
    <3>1. CASE TryStart(s)
      BY <3>1 DEF TryStart, SyncStarted, Waiting, Base, Shape
    <3>2. CASE UNCHANGED word
      BY <3>2 DEF word, Waiting
    <3> QED
      BY <1>3, <3>1, <3>2
      DEF SyncerStep, SyncTake, Count, SignalSize, PurgePop, TryPop, PopOrRotate,
          PurgeEnd, Busy, PutBack, Stale, TryNext, SignalEnd
  <2> QED BY <1>1, <2>1, <2>2, <2>3, QuietMaps, StoreFrame DEF StoreInv, Dying, Evicted
<1> QED BY <1>2, <1>3

-----------------------------------------------------------------------------
\* What the manager promises: chunks created zeroed, held by one caller at a time,
\* and keeping what was written until deleted, whatever the workers of both pools
\* load, evict and sync meanwhile.
THEOREM StoreImplemented ==
  ASSUME ReuseInRam PROVE Spec => ImplementsStore
<1>1. Init => Store!Init
  <2> SUFFICES ASSUME Init PROVE Store!Init
    OBVIOUS
  <2>1. LiveIds = {}
    BY DEF Init, LiveIds, Ids
  <2>2. \A c \in Ids : ~Held(c)
    BY DEF Init, Held, Holds
  <2> QED BY <2>1, <2>2 DEF Store!Init
<1>2. Base /\ Base' /\ StoreInv /\ [Next]_vars
          => StoreInv' /\ [Store!Next]_(Store!vars)
  <2> SUFFICES ASSUME Base, Base', StoreInv, [Next]_vars PROVE StoreInv' /\ Shows
    BY DEF Shows
  <2>1. CASE UNCHANGED vars
    <3>1. UNCHANGED <<bits, low, num_chunks, ptr, pc, arg, slot_data, disk, lpc, lchunk,
                      lslot, lold>>
      BY <2>1 DEF vars, word, ids, cache, client, loader
    <3>2. \A d \in Ids : SamePlace(d) /\ (Waiting(d) => Waiting(d)')
      BY <3>1 DEF SamePlace, Waiting
    <3> QED BY <3>1, <3>2, QuietMaps, StoreFrame DEF StoreInv, Dying, Evicted
  <2>2. CASE Next
    BY <2>2, ClientShows, LoaderShows, SyncerShows DEF Next
  <2> QED BY <2>1, <2>2
<1>3. ReuseInRam /\ TypeInv /\ SafeInv /\ DataInv /\ SyncOnce => Base
  BY Shapes DEF Base
<1>4. Spec => []Base
  BY <1>3, ReuseStays, Invariants, DataHolds, SyncOnceHolds, PTL
<1> QED BY <1>1, <1>2, <1>4, StoreInit, PTL DEF Spec, Store!Spec, ImplementsStore
=============================================================================
