-------------------------- MODULE ImageAuth_proofs ---------------------------
(***************************************************************************)
(* Proofs about ImageAuth, for any number of threads, images and object    *)
(* ids, and any bucket, cache size, time to live and back-off.             *)
(***************************************************************************)
EXTENDS ImageAuth, TLAPS

-----------------------------------------------------------------------------
(* Buckets                                                                 *)

\* Integer division rounds down.
LEMMA DivisionFacts ==
    ASSUME NEW n \in Int, NEW b \in Nat \ {0}
    PROVE  n \div b \in Int /\ b * (n \div b) <= n /\ n < b * (n \div b) + b
<1>1. n \div b \in Int
    OBVIOUS
<1>2. b * (n \div b) <= n
    BY SMT
<1>3. n < b * (n \div b) + b
    BY SMT
<1> QED
    BY <1>1, <1>2, <1>3

LEMMA DivisionIsMonotone ==
    ASSUME NEW m \in Int, NEW n \in Int, NEW b \in Nat \ {0}, m <= n
    PROVE  m \div b <= n \div b
<1> DEFINE p == m \div b  q == n \div b
<1>1. p \in Int /\ q \in Int /\ b * p <= m /\ n < b * q + b
    BY DivisionFacts
<1> HIDE DEF p, q
<1>2. b * p < b * (q + 1)
    BY <1>1
<1>3. p < q + 1
    <2> SUFFICES ASSUME p >= q + 1 PROVE FALSE
        BY <1>1
    <2>1. b * p >= b * (q + 1)
        BY <1>1
    <2> QED
        BY <1>1, <1>2, <2>1
<1>4. p <= q
    BY <1>1, <1>3
<1> QED
    BY <1>4 DEF p, q

LEMMA DivisionIsPositive ==
    ASSUME NEW n \in Int, NEW b \in Nat \ {0}, b <= n
    PROVE  n \div b >= 1
<1> DEFINE q == n \div b
<1>1. q \in Int /\ n < b * q + b
    BY DivisionFacts
<1> HIDE DEF q
<1>2. q >= 1
    <2> SUFFICES ASSUME q <= 0 PROVE FALSE
        BY <1>1
    <2>1. b * q <= 0
        BY <1>1
    <2> QED
        BY <1>1, <2>1
<1> QED
    BY <1>2 DEF q

\* A later time is in the same bucket or a later one.
LEMMA BucketFacts ==
    /\ \A m \in Times, n \in Times : m <= n => Bucket(m) <= Bucket(n)
    /\ \A n \in Times : Bucket(n) \in 0 .. Bucket(MaxTime)
    /\ Times \subseteq Int
<1>1. Times \subseteq Int /\ 0 \in Times /\ MaxTime \in Times
      /\ \A n \in Times : 0 <= n /\ n <= MaxTime
    BY ImageAuthAssumption DEF Times
<1>2. \A m \in Times, n \in Times : m <= n => Bucket(m) <= Bucket(n)
    BY <1>1, DivisionIsMonotone, ImageAuthAssumption DEF Bucket
<1>3. \A n \in Times : Bucket(n) \in Int
    BY <1>1, DivisionFacts, ImageAuthAssumption DEF Bucket
<1>4. Bucket(0) >= 0
    <2>1. 0 \div BucketSize >= 0
        BY ImageAuthAssumption, SMT
    <2> QED
        BY <2>1 DEF Bucket
<1> QED
    BY <1>1, <1>2, <1>3, <1>4

\* Both keys that are valid at a time are keys.
LEMMA ValidKeysAreKeys ==
    ASSUME NEW d \in Images, NEW n \in Times
    PROVE  ValidKeys(d, Bucket(n)) \subseteq Keys
<1>1. Bucket(n) \in 0 .. Bucket(MaxTime) /\ Bucket(MaxTime) \in Int
    <2>1. MaxTime \in Times
        BY ImageAuthAssumption DEF Times
    <2> QED
        BY <2>1, BucketFacts
<1>2. Bucket(n) \in -1 .. Bucket(MaxTime) /\ Bucket(n) - 1 \in -1 .. Bucket(MaxTime)
    BY <1>1
<1> QED
    BY <1>2 DEF ValidKeys, Key, Keys

-----------------------------------------------------------------------------
(* The cache                                                               *)

OneEntryPerKey(c) ==
    \A i, j \in DOMAIN c : c[i].id = c[j].id /\ c[i].bucket = c[j].bucket => i = j

CacheOK(c) == c \in Seq(Entries) /\ Len(c) <= CacheSize /\ OneEntryPerKey(c)

\* An eviction leaves the newer entries, and room for one more.
LEMMA EvictedFacts ==
    ASSUME NEW c, CacheOK(c)
    PROVE  /\ CacheOK(Evicted(c))
           /\ Len(Evicted(c)) < CacheSize
           /\ \A i \in DOMAIN Evicted(c) : \E j \in DOMAIN c : Evicted(c)[i] = c[j]
<1>1. CASE Len(c) < CacheSize
    <2>1. Evicted(c) = c
        BY <1>1, ImageAuthAssumption DEF Evicted, CacheOK
    <2> QED
        BY <1>1, <2>1
<1>2. CASE Len(c) >= CacheSize
    <2> PICK k \in Int : k = CacheSize \div EvictedPart /\ k >= 1
        BY DivisionFacts, DivisionIsPositive, ImageAuthAssumption
    <2> PICK e : e = Evicted(c)
        OBVIOUS
    <2>1. k >= 1
        OBVIOUS
    <2>2. e = SubSeq(c, k + 1, Len(c))
        BY <1>2 DEF Evicted
    <2>3. /\ e \in Seq(Entries)
          /\ Len(e) = IF k + 1 <= Len(c) THEN Len(c) - k ELSE 0
          /\ \A i \in 1 .. Len(e) : e[i] = c[i + k]
        BY <2>1, <2>2, SMTT(60) DEF CacheOK
    <2>4. /\ Len(c) \in Nat /\ DOMAIN c = 1 .. Len(c) /\ Len(c) <= CacheSize
          /\ Len(e) \in Nat /\ DOMAIN e = 1 .. Len(e)
        BY <2>3 DEF CacheOK
    <2>5. Len(e) < CacheSize
        <3>1. CacheSize \in Nat /\ CacheSize >= 1
            BY ImageAuthAssumption
        <3> QED
            BY <2>1, <2>3, <2>4, <3>1
    <2>6. \A i \in DOMAIN e : i + k \in DOMAIN c /\ e[i] = c[i + k]
        BY <2>1, <2>3, <2>4
    <2>7. OneEntryPerKey(e)
        <3> SUFFICES ASSUME NEW i \in DOMAIN e, NEW j \in DOMAIN e,
                            e[i].id = e[j].id, e[i].bucket = e[j].bucket
                     PROVE  i = j
            BY DEF OneEntryPerKey
        <3>1. i + k = j + k
            BY <2>6 DEF CacheOK, OneEntryPerKey
        <3> QED
            BY <2>1, <2>3, <2>4, <3>1
    <2> QED
        BY <2>3, <2>5, <2>6, <2>7, ImageAuthAssumption DEF CacheOK
<1> QED
    BY <1>1, <1>2, ImageAuthAssumption DEF CacheOK

\* A store leaves one entry under its key, and the others as they are.
LEMMA StoredFacts ==
    ASSUME NEW c, CacheOK(c), Len(c) < CacheSize, NEW e \in Entries
    PROVE  /\ CacheOK(Stored(c, e))
           /\ \A i \in DOMAIN Stored(c, e) :
                 \/ Stored(c, e)[i] = e
                 \/ /\ \E j \in DOMAIN c : Stored(c, e)[i] = c[j]
                    /\ ~(Stored(c, e)[i].id = e.id /\ Stored(c, e)[i].bucket = e.bucket)
<1> DEFINE d == Stored(c, e)
<1>0. c \in Seq(Entries) /\ Len(c) \in Nat /\ DOMAIN c = 1 .. Len(c) /\ OneEntryPerKey(c)
    BY DEF CacheOK
<1>1. CASE \E i \in DOMAIN c : c[i].id = e.id /\ c[i].bucket = e.bucket
    <2>1. d = [i \in DOMAIN c |->
                 IF c[i].id = e.id /\ c[i].bucket = e.bucket THEN e ELSE c[i]]
        BY <1>1 DEF Stored
    <2> HIDE DEF d
    <2>2. \A i \in DOMAIN c : c[i] \in Entries
        BY <1>0
    <2>3. d \in Seq(Entries) /\ Len(d) = Len(c) /\ DOMAIN d = DOMAIN c
        BY <1>0, <2>1, <2>2
    <2>4. \A i \in DOMAIN c : d[i].id = c[i].id /\ d[i].bucket = c[i].bucket
        BY <2>1
    <2>5. OneEntryPerKey(d)
        BY <1>0, <2>3, <2>4 DEF OneEntryPerKey
    <2>6. \A i \in DOMAIN d :
              \/ d[i] = e
              \/ d[i] = c[i] /\ ~(d[i].id = e.id /\ d[i].bucket = e.bucket)
        BY <2>1, <2>3
    <2>7. CacheOK(d)
        BY <2>3, <2>5, ImageAuthAssumption DEF CacheOK
    <2> QED
        BY <2>3, <2>6, <2>7 DEF d
<1>2. CASE ~\E i \in DOMAIN c : c[i].id = e.id /\ c[i].bucket = e.bucket
    <2>1. d = Append(c, e)
        BY <1>2 DEF Stored
    <2> HIDE DEF d
    <2>2. /\ d \in Seq(Entries) /\ Len(d) = Len(c) + 1 /\ DOMAIN d = 1 .. Len(c) + 1
          /\ d[Len(c) + 1] = e
          /\ \A i \in 1 .. Len(c) : d[i] = c[i]
        BY <1>0, <2>1
    <2>3. \A i \in DOMAIN d : (i \in DOMAIN c /\ d[i] = c[i]) \/ (i = Len(c) + 1 /\ d[i] = e)
        BY <1>0, <2>2
    <2>4. OneEntryPerKey(d)
        <3> SUFFICES ASSUME NEW i \in DOMAIN d, NEW j \in DOMAIN d,
                            d[i].id = d[j].id, d[i].bucket = d[j].bucket
                     PROVE  i = j
            BY DEF OneEntryPerKey
        <3> QED
            BY <1>0, <1>2, <2>3 DEF OneEntryPerKey
    <2>5. CacheOK(d)
        BY <1>0, <2>2, <2>4, ImageAuthAssumption DEF CacheOK
    <2> QED
        BY <1>2, <2>3, <2>5 DEF d
<1> QED
    BY <1>1, <1>2

-----------------------------------------------------------------------------
(* The invariant                                                           *)

\* The types of all variables but the cache.
VarsOK ==
    /\ now \in Times /\ gotAt \in Times \cup {Never} /\ failedAt \in Times \cup {Never}
    /\ image \in Objects \cup {NoObject}
    /\ pc \in [Threads -> Running \cup {"idle"}]
    /\ at \in [Threads -> Times] /\ began \in [Threads -> Times]
    /\ held \in [Threads -> Objects \cup {NoObject}]
    /\ client \in [image : Objects \cup {NoObject},
                  time : Times \cup {Never}, missed : Times \cup {Never}]
    /\ seen \in [Threads -> SUBSET (Images \cup {NoImage})]
    /\ answer.keys \subseteq Keys

\* An id belongs to one of the objects in use.
IdsAreUnique == \A o, p \in Referenced : o.id = p.id => o = p

\* What a thread knows on its way: the image is one it has seen, the object it
\* holds too, and the time it has read is a time of its call.
ThreadInOrder(t) ==
    /\ pc[t] # "idle" => image.data \in seen[t] /\ began[t] <= now
    /\ pc[t] \in {"ask", "read", "lookup", "store"} => began[t] <= at[t] /\ at[t] <= now
    /\ pc[t] \in {"lookup", "store"} => held[t].data \in seen[t]
    /\ pc[t] \in {"set", "lookup", "store"} => held[t] \in Objects

ThreadsInOrder == \A t \in Threads : ThreadInOrder(t)

\* A client's times are not later than those of the admin API's answers.
ClientInOrder ==
    /\ client.time # Never => gotAt >= client.time
    /\ client.missed # Never => failedAt # Never /\ failedAt >= client.missed

\* A handler that looks again has found an image, or the admin API has failed it.
FallbackInOrder ==
    pc[Relay] = "lookAgain" =>
        \/ seen[Relay] # {NoImage}
        \/ failedAt # Never /\ failedAt >= began[Relay] - MissBackoff

Inv ==
    /\ VarsOK
    /\ CacheOK(cache)
    /\ IdsAreUnique
    /\ ThreadsInOrder
    /\ ClientInOrder
    /\ FallbackInOrder
    /\ FetchedIsRecent
    /\ CacheIsCurrent

LEMMA TypeParts == TypeOK <=> VarsOK /\ CacheOK(cache)
BY DEF TypeOK, VarsOK, CacheOK, OneEntryPerKey

\* The keys of one set of steps: those that leave the cache alone, empty it,
\* or store.
LEMMA CacheChanges ==
    ASSUME [Next]_vars
    PROVE  cache' = cache \/ cache' = <<>> \/ \E t \in Threads : Store(t)
BY DEF Next, vars, validatorVars, outside, AllowThrough, Answering, ImageGone, LookUpHit,
   Tick, set_image_data, clear_image, SetImage, CacheOfNewImage, clear_cache, Handling,
   Start, Begin, Look, Fetch, Miss, Got, Refresh, LookAgain, Working, Call, Check,
   ReadImage, LookUpMiss

LEMMA EntryStored ==
    ASSUME VarsOK, ThreadsInOrder, NEW t \in Threads, pc[t] = "store"
    PROVE  [id |-> held[t].id, bucket |-> Bucket(at[t]),
            keys |-> ValidKeys(held[t].data, Bucket(at[t]))] \in Entries
<1>1. held[t] \in Objects /\ at[t] \in Times
    BY DEF VarsOK, ThreadsInOrder, ThreadInOrder
<1>2. held[t].id \in Ids /\ held[t].data \in Images
    BY <1>1 DEF Objects
<1>3. ValidKeys(held[t].data, Bucket(at[t])) \in SUBSET Keys
    BY <1>1, <1>2, ValidKeysAreKeys
<1>4. Bucket(at[t]) \in 0 .. Bucket(MaxTime)
    BY <1>1, BucketFacts
<1> QED
    BY <1>2, <1>3, <1>4 DEF Entries

LEMMA CacheOKStep ==
    ASSUME Inv, [Next]_vars
    PROVE  CacheOK(cache')
<1>1. CASE cache' = cache
    BY <1>1 DEF Inv
<1>2. CASE cache' = <<>>
    BY <1>2, ImageAuthAssumption DEF CacheOK, OneEntryPerKey
<1>3. ASSUME NEW t \in Threads, Store(t)
      PROVE  CacheOK(cache')
    BY <1>3, EntryStored, EvictedFacts, StoredFacts DEF Store, Inv
<1> QED
    BY <1>1, <1>2, <1>3, CacheChanges

-----------------------------------------------------------------------------
(* Types                                                                   *)

\* What a call's return does to the types.
LEMMA ReturnsTypes ==
    ASSUME VarsOK, NEW t \in Threads, NEW keys \in SUBSET Keys, NEW checked,
           Returns(t, keys, checked)
    PROVE  VarsOK'
<1>1. 0 \in Times
    BY ImageAuthAssumption DEF Times
<1> QED
    BY <1>1 DEF VarsOK, Returns

LEMMA SetImageTypes ==
    ASSUME VarsOK, NEW o \in Objects \cup {NoObject}, SetImage(o)
    PROVE  /\ image' \in Objects \cup {NoObject}
           /\ seen' \in [Threads -> SUBSET (Images \cup {NoImage})]
<1>1. o.data \in Images \cup {NoImage}
    BY DEF Objects, NoObject
<1> QED
    BY <1>1 DEF SetImage, VarsOK

\* What is looked up is keys.
LEMMA HitKeys ==
    ASSUME CacheOK(cache), NEW id, NEW b, NEW i \in Hits(id, b)
    PROVE  cache[i].keys \in SUBSET Keys /\ cache[i].id = id /\ cache[i].bucket = b
           /\ i \in DOMAIN cache
<1>1. i \in DOMAIN cache /\ cache[i].id = id /\ cache[i].bucket = b
    BY DEF Hits
<1>2. cache[i] \in Entries
    BY <1>1 DEF CacheOK
<1> QED
    BY <1>1, <1>2 DEF Entries

LEMMA AnswerTypes ==
    ASSUME Inv, NEW t \in Threads, AllowThrough \/ Answering(t)
    PROVE  VarsOK'
<1>1. VarsOK /\ CacheOK(cache)
    BY DEF Inv
<1>2. CASE AllowThrough
    BY <1>1, <1>2, ReturnsTypes, ImageAuthAssumption DEF AllowThrough
<1>3. CASE ImageGone(t)
    BY <1>1, <1>3, ReturnsTypes DEF ImageGone
<1>4. CASE LookUpHit(t)
    BY <1>1, <1>4, HitKeys, ReturnsTypes DEF LookUpHit
<1>5. CASE Store(t)
    <2>1. ValidKeys(held[t].data, Bucket(at[t])) \in SUBSET Keys
        BY <1>5, EntryStored DEF Store, Inv, Entries
    <2> QED
        BY <1>1, <1>5, <2>1, ReturnsTypes DEF Store
<1> QED
    BY <1>2, <1>3, <1>4, <1>5 DEF Answering

LEMMA TypeStep ==
    ASSUME Inv, [Next]_vars
    PROVE  VarsOK'
<1>0. VarsOK
    BY DEF Inv
<1>1. CASE AllowThrough \/ \E t \in Threads : Answering(t)
    BY <1>1, AnswerTypes, ImageAuthAssumption
<1>2. CASE UNCHANGED vars
    BY <1>0, <1>2 DEF VarsOK, vars
<1> SUFFICES ASSUME \/ Tick \/ set_image_data \/ clear_image \/ clear_cache \/ Handling
                    \/ \E t \in Threads : Working(t),
                    answer' = NoAnswer
             PROVE  VarsOK'
    BY <1>1, <1>2 DEF Next
<1>3. answer'.keys \subseteq Keys
    BY DEF NoAnswer
<1>4. NoObject.data = NoImage /\ Relay \in Threads
    BY ImageAuthAssumption DEF NoObject
<1>5. CASE Tick
    <2>1. now' \in Times
        BY <1>0, <1>5, ImageAuthAssumption DEF Tick, VarsOK, Times
    <2> QED
        BY <1>0, <1>3, <1>5, <2>1 DEF Tick, VarsOK, validatorVars
<1>6. CASE set_image_data
    <2> PICK o \in Objects : SetImage(o)
        BY <1>6 DEF set_image_data
    <2> QED
        BY <1>0, <1>3, <1>6, SetImageTypes DEF set_image_data, VarsOK, outside
<1>7. CASE clear_image
    BY <1>0, <1>3, <1>7, SetImageTypes DEF clear_image, VarsOK, outside
<1>8. CASE clear_cache
    BY <1>0, <1>3, <1>8 DEF clear_cache, VarsOK, outside
<1>9. ASSUME NEW t \in Threads, NEW label \in Running, Begin(t, label)
      PROVE  /\ now' \in Times /\ image' \in Objects \cup {NoObject}
             /\ pc' \in [Threads -> Running \cup {"idle"}]
             /\ at' \in [Threads -> Times] /\ began' \in [Threads -> Times]
             /\ held' \in [Threads -> Objects \cup {NoObject}]
             /\ seen' \in [Threads -> SUBSET (Images \cup {NoImage})]
    <2>1. image.data \in Images \cup {NoImage}
        BY <1>0, <1>4 DEF VarsOK, Objects
    <2> QED
        BY <1>0, <1>9, <2>1 DEF Begin, Goto, VarsOK
<1>10. CASE Start
    BY <1>0, <1>3, <1>4, <1>9, <1>10 DEF Start, NewClient, VarsOK, Running
<1>11. CASE Look
    BY <1>0, <1>3, <1>4, <1>11 DEF Look, Goto, VarsOK, Running, outside, validatorVars
<1>12. CASE Fetch
    <2>1. client.image \in Objects \cup {NoObject}
        BY <1>0 DEF VarsOK
    <2> QED
        BY <1>0, <1>3, <1>4, <1>12, <2>1
        DEF Fetch, Goto, VarsOK, Running, outside, validatorVars
<1>13. CASE Miss
    BY <1>0, <1>3, <1>4, <1>13 DEF Miss, Goto, VarsOK, Running, validatorVars
<1>14. CASE Got
    BY <1>0, <1>3, <1>4, <1>14 DEF Got, Goto, VarsOK, Running, validatorVars
<1>15. CASE Refresh
    <2>1. held[Relay] \in Objects \cup {NoObject}
        BY <1>0, <1>4 DEF VarsOK
    <2> QED
        BY <1>0, <1>3, <1>15, <2>1, SetImageTypes DEF Refresh, Goto, VarsOK, Running, outside
<1>16. CASE LookAgain
    BY <1>0, <1>3, <1>16 DEF LookAgain, Goto, VarsOK, Running, outside, validatorVars
<1>17. ASSUME NEW t \in Threads, Working(t)
       PROVE  VarsOK'
    <2>1. CASE Call(t)
        BY <1>0, <1>3, <1>9, <2>1 DEF Call, VarsOK, Running
    <2>2. CASE Check(t)
        BY <1>0, <1>3, <2>2 DEF Check, Goto, VarsOK, Running, outside, validatorVars
    <2>3. CASE ReadImage(t)
        BY <1>0, <1>3, <2>3 DEF ReadImage, Goto, VarsOK, Running, outside, validatorVars
    <2>4. CASE LookUpMiss(t)
        BY <1>0, <1>3, <2>4 DEF LookUpMiss, Goto, VarsOK, Running, outside, validatorVars
    <2> QED
        BY <1>17, <2>1, <2>2, <2>3, <2>4 DEF Working
<1> QED
    BY <1>5, <1>6, <1>7, <1>8, <1>10, <1>11, <1>12, <1>13, <1>14, <1>15, <1>16, <1>17
    DEF Handling

-----------------------------------------------------------------------------
(* Objects                                                                 *)

\* A step only brings in a new object, whose id was free, or none.
LEMMA UniqueStays ==
    ASSUME VarsOK, IdsAreUnique,
           NEW o, o = NoObject \/ (o \in Objects /\ o.id \in Free),
           Referenced' \subseteq Referenced \cup {NoObject, o}
    PROVE  IdsAreUnique'
<1>1. Referenced \subseteq Objects \cup {NoObject}
    BY DEF VarsOK, Referenced
<1>2. \A p \in Objects : p.id # NoImage
    BY ImageAuthAssumption DEF Objects
<1>3. NoObject.id = NoImage
    BY DEF NoObject
<1>4. o \in Objects => \A p \in Referenced : p.id # o.id
    BY <1>2, <1>3 DEF Free
<1> QED
    BY <1>1, <1>2, <1>3, <1>4 DEF IdsAreUnique

LEMMA UniqueStep ==
    ASSUME Inv, [Next]_vars
    PROVE  IdsAreUnique'
<1> USE ImageAuthAssumption
<1>0. VarsOK /\ IdsAreUnique /\ NoObject = NoObject
    BY DEF Inv
<1>h. \A t \in Threads : held[t] \in Referenced
    BY DEF Referenced
<1>1. CASE UNCHANGED <<image, client, held>>
    <2>1. Referenced' \subseteq Referenced \cup {NoObject}
        BY <1>1 DEF Referenced
    <2> QED
        BY <1>0, <2>1, UniqueStays
<1>2. ASSUME NEW t \in Threads, NEW keys, NEW checked, Returns(t, keys, checked)
      PROVE  IdsAreUnique'
    <2>1. \A u \in Threads : held'[u] \in {held[u], NoObject}
        BY <1>0, <1>2 DEF Returns, VarsOK
    <2>2. Referenced' \subseteq Referenced \cup {NoObject}
        BY <1>2, <2>1 DEF Returns, Referenced
    <2> QED
        BY <1>0, <2>2, UniqueStays
<1>3. CASE set_image_data
    <2> PICK o \in Objects : NewObject(o, o.data) /\ SetImage(o)
        BY <1>3 DEF set_image_data
    <2>1. Referenced' \subseteq Referenced \cup {o}
        BY <1>3 DEF set_image_data, SetImage, Referenced
    <2>2. o.id \in Free
        BY DEF NewObject
    <2> QED
        BY <1>0, <2>1, <2>2, UniqueStays
<1>4. CASE clear_image
    <2>1. Referenced' \subseteq Referenced \cup {NoObject}
        BY <1>4 DEF clear_image, SetImage, Referenced
    <2> QED
        BY <1>0, <2>1, UniqueStays
<1>5. CASE Start
    <2>1. Referenced' \subseteq Referenced \cup {NoObject}
        BY <1>5 DEF Start, Begin, NewClient, Referenced
    <2> QED
        BY <1>0, <2>1, UniqueStays
<1>6. CASE Fetch
    <2>1. \A u \in Threads : held'[u] \in {held[u], client.image}
        BY <1>0, <1>6 DEF Fetch, VarsOK
    <2>2. Referenced' \subseteq Referenced
        BY <1>6, <2>1 DEF Fetch, validatorVars, Referenced
    <2> QED
        BY <1>0, <2>2, UniqueStays
<1>7. CASE Miss
    <2>1. client'.image = client.image
        BY <1>0, <1>7 DEF Miss, VarsOK
    <2>2. Referenced' \subseteq Referenced
        BY <1>7, <2>1 DEF Miss, validatorVars, Referenced
    <2> QED
        BY <1>0, <2>2, UniqueStays
<1>8. CASE Got
    <2> PICK o \in Objects :
            /\ NewObject(o, o.data)
            /\ client' = [image |-> o, time |-> at[Relay], missed |-> Never]
            /\ held' = [held EXCEPT ![Relay] = o]
        BY <1>8 DEF Got
    <2>1. \A u \in Threads : held'[u] \in {held[u], o}
        BY <1>0 DEF VarsOK
    <2>2. Referenced' \subseteq Referenced \cup {o}
        BY <1>8, <2>1 DEF Got, validatorVars, Referenced
    <2>3. o.id \in Free
        BY DEF NewObject
    <2> QED
        BY <1>0, <2>2, <2>3, UniqueStays
<1>9. CASE Refresh
    <2>1. \A u \in Threads : held'[u] \in {held[u], NoObject}
        BY <1>0, <1>9 DEF Refresh, VarsOK
    <2>2. Referenced' \subseteq Referenced \cup {NoObject}
        BY <1>9, <1>h, <2>1 DEF Refresh, SetImage, Referenced
    <2> QED
        BY <1>0, <2>2, UniqueStays
<1>10. ASSUME NEW t \in Threads, ReadImage(t)
       PROVE  IdsAreUnique'
    <2>1. \A u \in Threads : held'[u] \in {held[u], image}
        BY <1>0, <1>10 DEF ReadImage, VarsOK
    <2>2. Referenced' \subseteq Referenced
        BY <1>10, <2>1 DEF ReadImage, validatorVars, Referenced
    <2> QED
        BY <1>0, <2>2, UniqueStays
<1> QED
    BY <1>1, <1>2, <1>3, <1>4, <1>5, <1>6, <1>7, <1>8, <1>9, <1>10
    DEF Next, vars, validatorVars, outside, AllowThrough, Answering, ImageGone, LookUpHit,
        Store, Tick, clear_cache, Handling, Look, LookAgain, Working, Call, Begin, Check,
        LookUpMiss

\* The entries of what a store makes of the cache are the new one and old ones.
LEMMA StoredEntries ==
    ASSUME Inv, NEW t \in Threads, Store(t), NEW i \in DOMAIN cache'
    PROVE  \/ cache'[i] = [id |-> held[t].id, bucket |-> Bucket(at[t]),
                          keys |-> ValidKeys(held[t].data, Bucket(at[t]))]
           \/ \E j \in DOMAIN cache : cache'[i] = cache[j]
<1> DEFINE e == [id |-> held[t].id, bucket |-> Bucket(at[t]),
                 keys |-> ValidKeys(held[t].data, Bucket(at[t]))]
<1>1. e \in Entries
    BY EntryStored DEF Store, Inv
<1>2. cache' = Stored(Evicted(cache), e)
    BY DEF Store
<1> HIDE DEF e
<1>3. CacheOK(Evicted(cache)) /\ Len(Evicted(cache)) < CacheSize
      /\ \A k \in DOMAIN Evicted(cache) : \E j \in DOMAIN cache : Evicted(cache)[k] = cache[j]
    BY EvictedFacts DEF Inv
<1>4. cache'[i] = e \/ \E k \in DOMAIN Evicted(cache) : cache'[i] = Evicted(cache)[k]
    BY <1>1, <1>2, <1>3, StoredFacts
<1> QED
    BY <1>3, <1>4 DEF e

\* While the cache is not emptied, an object comes into use only from use.
LEMMA InUseStep ==
    ASSUME Inv, [Next]_vars, cache' # <<>>
    PROVE  InUse' \subseteq InUse
<1>0. VarsOK
    BY DEF Inv
<1>1. ~set_image_data /\ ~clear_image /\ ~Refresh /\ ~clear_cache
    BY DEF set_image_data, clear_image, Refresh, SetImage, CacheOfNewImage, clear_cache
<1> SUFFICES /\ image' = image
             /\ \A t \in Threads : pc'[t] \in {"lookup", "store"} =>
                    held'[t] = image \/ (held'[t] = held[t] /\ pc[t] \in {"lookup", "store"})
    BY DEF InUse
<1>2. image' = image
    BY <1>1 DEF Next, vars, validatorVars, AllowThrough, Answering, ImageGone, LookUpHit,
       Store, Returns, Tick, Handling, Start, Begin, Look, Fetch, Miss, Got, LookAgain,
       Working, Call, Check, ReadImage, LookUpMiss
<1>3. ASSUME NEW t \in Threads, pc'[t] \in {"lookup", "store"}
      PROVE  held'[t] = image \/ (held'[t] = held[t] /\ pc[t] \in {"lookup", "store"})
    <2>1. ASSUME NEW u \in Threads, NEW keys, NEW checked, Returns(u, keys, checked)
          PROVE  held'[t] = held[t] /\ pc[t] \in {"lookup", "store"}
        BY <1>0, <1>3, <2>1 DEF Returns, VarsOK
    <2>2. CASE UNCHANGED <<pc, held>>
        BY <1>3, <2>2
    <2>3. ASSUME NEW u \in Threads, NEW label \in {"look", "check"}, Begin(u, label)
          PROVE  held'[t] = held[t] /\ pc[t] \in {"lookup", "store"}
        BY <1>0, <1>3, <2>3 DEF Begin, Goto, VarsOK
    <2>4. CASE Look
        BY <1>0, <1>3, <2>4 DEF Look, Goto, VarsOK
    <2>5. CASE Fetch
        BY <1>0, <1>3, <2>5 DEF Fetch, Goto, VarsOK
    <2>6. CASE Miss \/ LookAgain
        BY <1>0, <1>3, <2>6 DEF Miss, LookAgain, Goto, VarsOK
    <2>7. CASE Got
        BY <1>0, <1>3, <2>7 DEF Got, Goto, VarsOK
    <2>8. ASSUME NEW u \in Threads, Check(u) \/ LookUpMiss(u)
          PROVE  held'[t] = held[t] /\ pc[t] \in {"lookup", "store"}
        BY <1>0, <1>3, <2>8 DEF Check, LookUpMiss, Goto, VarsOK
    <2>9. ASSUME NEW u \in Threads, ReadImage(u)
          PROVE  held'[t] = image \/ (held'[t] = held[t] /\ pc[t] \in {"lookup", "store"})
        BY <1>0, <1>3, <2>9 DEF ReadImage, Goto, VarsOK
    <2> QED
        BY <1>1, <2>1, <2>2, <2>3, <2>4, <2>5, <2>6, <2>7, <2>8, <2>9, ImageAuthAssumption
        DEF Next, vars, AllowThrough, Answering, ImageGone, LookUpHit, Store, Tick,
            Handling, Start, Working, Call
<1> QED
    BY <1>2, <1>3

LEMMA CurrentStep ==
    ASSUME Inv, [Next]_vars
    PROVE  CacheIsCurrent'
<1> SUFFICES ASSUME NEW i \in DOMAIN cache', NEW o \in InUse', cache'[i].id = o.id
             PROVE  cache'[i].keys = ValidKeys(o.data, cache'[i].bucket)
    BY DEF CacheIsCurrent, ValidKeys, Key
<1>1. cache' # <<>>
    OBVIOUS
<1>2. o \in InUse
    BY <1>1, InUseStep
<1>3. \A j \in DOMAIN cache : cache[j].id = o.id =>
          cache[j].keys = ValidKeys(o.data, cache[j].bucket)
    BY <1>2 DEF Inv, CacheIsCurrent
<1>4. CASE cache' = cache
    BY <1>3, <1>4
<1>5. ASSUME NEW t \in Threads, Store(t)
      PROVE  cache'[i].keys = ValidKeys(o.data, cache'[i].bucket)
    <2>1. CASE \E j \in DOMAIN cache : cache'[i] = cache[j]
        BY <1>3, <2>1
    <2>2. CASE cache'[i] = [id |-> held[t].id, bucket |-> Bucket(at[t]),
                            keys |-> ValidKeys(held[t].data, Bucket(at[t]))]
        <3>1. o.id = held[t].id
            BY <2>2
        <3>2. o \in Referenced /\ held[t] \in Referenced
            BY <1>2 DEF InUse, Referenced
        <3>3. o = held[t]
            BY <3>1, <3>2 DEF Inv, IdsAreUnique
        <3> QED
            BY <2>2, <3>3
    <2> QED
        BY <1>5, <2>1, <2>2, StoredEntries
<1> QED
    BY <1>1, <1>4, <1>5, CacheChanges

-----------------------------------------------------------------------------
(* Calls in progress                                                       *)

\* Threads that a step leaves where they are, while the image does not change.
ThreadKept(t) ==
    pc'[t] = pc[t] /\ at'[t] = at[t] /\ held'[t] = held[t]
    /\ seen'[t] = seen[t] /\ began'[t] = began[t]

LEMMA ThreadKeptInOrder ==
    ASSUME ThreadsInOrder, NEW t \in Threads, ThreadKept(t), image' = image, now' = now
    PROVE  ThreadInOrder(t)'
BY DEF ThreadsInOrder, ThreadInOrder, ThreadKept

\* Every thread in a call has seen the image that is set.
LEMMA SetImageInOrder ==
    ASSUME VarsOK, ThreadsInOrder, NEW o, SetImage(o), NEW t \in Threads,
           pc'[t] = pc[t] \/ pc'[t] = "lookAgain", pc[t] # "idle" \/ pc'[t] = "idle",
           pc'[t] = pc[t] => held'[t] = held[t],
           UNCHANGED <<now, began, at>>
    PROVE  ThreadInOrder(t)'
<1>1. pc[t] \in Running \cup {"idle"} /\ "idle" \notin Running
    BY DEF VarsOK, Running
<1>2. pc[t] # "idle" => seen'[t] = seen[t] \cup {o.data} /\ image' = o
    BY <1>1 DEF SetImage
<1> QED
    BY <1>2 DEF ThreadsInOrder, ThreadInOrder

LEMMA ReturnsInOrder ==
    ASSUME VarsOK, ThreadsInOrder, NEW u \in Threads, NEW keys, NEW checked,
           Returns(u, keys, checked), NEW t \in Threads
    PROVE  ThreadInOrder(t)'
<1>1. CASE t = u
    BY <1>1 DEF Returns, VarsOK, ThreadInOrder
<1>2. CASE t # u
    <2>1. ThreadKept(t)
        BY <1>2 DEF Returns, VarsOK, ThreadKept
    <2> QED
        BY <2>1, ThreadKeptInOrder DEF Returns
<1> QED
    BY <1>1, <1>2

LEMMA BeginInOrder ==
    ASSUME VarsOK, ThreadsInOrder, NEW u \in Threads, NEW label \in {"look", "check"},
           Begin(u, label), NEW t \in Threads
    PROVE  ThreadInOrder(t)'
<1>1. CASE t = u
    <2>1. now \in Int
        BY BucketFacts DEF VarsOK
    <2>2. pc'[t] = label /\ seen'[t] = {image.data} /\ began'[t] = now
        BY <1>1 DEF Begin, Goto, VarsOK
    <2> QED
        BY <2>1, <2>2 DEF Begin, ThreadInOrder
<1>2. CASE t # u
    <2>1. ThreadKept(t)
        BY <1>2 DEF Begin, Goto, VarsOK, ThreadKept
    <2> QED
        BY <2>1, ThreadKeptInOrder DEF Begin
<1> QED
    BY <1>1, <1>2

LEMMA ThreadsStep ==
    ASSUME Inv, [Next]_vars
    PROVE  ThreadsInOrder'
<1> SUFFICES ASSUME NEW t \in Threads
             PROVE  ThreadInOrder(t)'
    BY DEF ThreadsInOrder, ThreadInOrder
<1>0. VarsOK /\ ThreadsInOrder /\ Relay \in Threads
    BY ImageAuthAssumption DEF Inv
<1>t. /\ now \in Int /\ at[t] \in Int /\ began[t] \in Int /\ at[Relay] \in Int
      /\ pc[t] \in Running \cup {"idle"}
    BY <1>0, BucketFacts DEF VarsOK
<1>1. CASE AllowThrough \/ \E u \in Threads : Answering(u)
    BY <1>0, <1>1, ReturnsInOrder DEF AllowThrough, Answering, ImageGone, LookUpHit, Store
<1>2. CASE UNCHANGED <<now, image, pc, at, held, seen, began>>
    <2>1. ThreadKept(t) /\ image' = image /\ now' = now
        BY <1>2 DEF ThreadKept
    <2> QED
        BY <1>0, <2>1, ThreadKeptInOrder
<1>3. CASE Tick
    BY <1>0, <1>t, <1>3 DEF Tick, validatorVars, ThreadsInOrder, ThreadInOrder
<1>4. CASE set_image_data \/ clear_image
    BY <1>0, <1>4, SetImageInOrder DEF set_image_data, clear_image, outside
<1>5. CASE Start \/ \E u \in Threads : Call(u)
    BY <1>0, <1>5, BeginInOrder DEF Start, Call
<1>6. CASE Look
    <2>1. pc' = [pc EXCEPT ![Relay] = IF image = NoObject THEN "fetch" ELSE "lookAgain"]
        BY <1>6 DEF Look, Goto
    <2> QED
        BY <1>0, <1>6, <2>1
        DEF Look, VarsOK, outside, validatorVars, ThreadsInOrder, ThreadInOrder
<1>7. CASE Fetch
    <2>1. CASE t # Relay
        <3>1. ThreadKept(t) /\ image' = image /\ now' = now
            BY <1>0, <1>7, <2>1 DEF Fetch, Goto, VarsOK, outside, validatorVars, ThreadKept
        <3> QED
            BY <1>0, <3>1, ThreadKeptInOrder
    <2>2. CASE t = Relay
        <3>1. client.image \in Objects \cup {NoObject}
            BY <1>0 DEF VarsOK
        <3>2. /\ pc'[t] \in {"lookAgain", "set", "ask"} /\ pc[t] = "fetch"
              /\ pc'[t] = "set" => held'[t] \in Objects
              /\ at'[t] = now
            BY <1>0, <1>7, <2>2, <3>1 DEF Fetch, Goto, VarsOK
        <3> QED
            BY <1>0, <1>7, <1>t, <3>2
            DEF Fetch, outside, validatorVars, ThreadsInOrder, ThreadInOrder
    <2> QED
        BY <2>1, <2>2
<1>8. CASE Miss \/ LookAgain
    <2>1. pc' = [pc EXCEPT ![Relay] = "lookAgain"] \/ pc' = [pc EXCEPT ![Relay] = "check"]
        BY <1>8 DEF Miss, LookAgain, Goto
    <2>2. pc[Relay] # "idle" /\ UNCHANGED <<now, image, at, held, seen, began>>
        BY <1>8 DEF Miss, LookAgain, validatorVars, outside
    <2> QED
        BY <1>0, <2>1, <2>2 DEF VarsOK, ThreadsInOrder, ThreadInOrder
<1>9. CASE Got
    <2> PICK o \in Objects : held' = [held EXCEPT ![Relay] = o]
        BY <1>9 DEF Got
    <2>1. pc[Relay] = "ask" /\ pc' = [pc EXCEPT ![Relay] = "set"]
          /\ UNCHANGED <<now, image, at, seen, began>>
        BY <1>9 DEF Got, Goto, validatorVars
    <2> QED
        BY <1>0, <2>1 DEF VarsOK, ThreadsInOrder, ThreadInOrder
<1>10. CASE Refresh
    <2>1. pc[Relay] = "set" /\ pc' = [pc EXCEPT ![Relay] = "lookAgain"]
          /\ held' = [held EXCEPT ![Relay] = NoObject]
          /\ SetImage(held[Relay]) /\ UNCHANGED <<now, began, at>>
        BY <1>10 DEF Refresh, Goto, outside
    <2>2. /\ pc'[t] = pc[t] \/ pc'[t] = "lookAgain"
          /\ pc[t] # "idle" \/ pc'[t] = "idle"
          /\ pc'[t] = pc[t] => held'[t] = held[t]
        BY <1>0, <2>1 DEF VarsOK
    <2> QED
        BY <1>0, <2>1, <2>2, SetImageInOrder
<1>11. ASSUME NEW u \in Threads, Check(u)
       PROVE  ThreadInOrder(t)'
    <2>1. pc[u] = "check" /\ pc' = [pc EXCEPT ![u] = "read"] /\ at' = [at EXCEPT ![u] = now]
          /\ UNCHANGED <<now, image, held, seen, began>>
        BY <1>11 DEF Check, Goto, outside, validatorVars
    <2> QED
        BY <1>0, <1>t, <2>1 DEF VarsOK, ThreadsInOrder, ThreadInOrder
<1>12. ASSUME NEW u \in Threads, ReadImage(u)
       PROVE  ThreadInOrder(t)'
    <2>1. pc[u] = "read" /\ pc' = [pc EXCEPT ![u] = "lookup"]
          /\ held' = [held EXCEPT ![u] = image] /\ image # NoObject
          /\ UNCHANGED <<now, image, at, seen, began>>
        BY <1>12 DEF ReadImage, Goto, outside, validatorVars
    <2>2. image \in Objects
        BY <1>0, <2>1 DEF VarsOK
    <2> QED
        BY <1>0, <2>1, <2>2 DEF VarsOK, ThreadsInOrder, ThreadInOrder
<1>13. ASSUME NEW u \in Threads, LookUpMiss(u)
       PROVE  ThreadInOrder(t)'
    <2>1. pc[u] = "lookup" /\ pc' = [pc EXCEPT ![u] = "store"]
          /\ UNCHANGED <<now, image, at, held, seen, began>>
        BY <1>13 DEF LookUpMiss, Goto, outside, validatorVars
    <2> QED
        BY <1>0, <2>1 DEF VarsOK, ThreadsInOrder, ThreadInOrder
<1> QED
    BY <1>1, <1>2, <1>3, <1>4, <1>5, <1>6, <1>7, <1>8, <1>9, <1>10, <1>11, <1>12, <1>13
    DEF Next, vars, clear_cache, outside, Handling, Working

-----------------------------------------------------------------------------
(* The admin API                                                           *)

\* What the admin API told the handler changes only where it is asked.
LEMMA ApiChanges ==
    ASSUME [Next]_vars
    PROVE  Start \/ Miss \/ Got \/ UNCHANGED <<client, gotAt, failedAt>>
BY DEF Next, vars, outside, AllowThrough, Answering, ImageGone, LookUpHit, Store, Returns,
   Tick, set_image_data, clear_image, clear_cache, Handling, Look, Fetch, Refresh,
   LookAgain, Working, Call, Check, ReadImage, LookUpMiss

LEMMA ClientStep ==
    ASSUME Inv, [Next]_vars
    PROVE  ClientInOrder'
<1>0. VarsOK /\ ClientInOrder /\ Relay \in Threads
    BY ImageAuthAssumption DEF Inv
<1>t. now \in Times /\ at[Relay] \in Times /\ Times \subseteq Int /\ Never \notin Times
    BY <1>0, BucketFacts DEF VarsOK, Never, Times
<1>1. CASE UNCHANGED <<client, gotAt, failedAt>>
    BY <1>0, <1>1 DEF ClientInOrder
<1>2. CASE Start
    BY <1>0, <1>2 DEF Start, NewClient, ClientInOrder
<1>3. CASE Miss
    <2>1. at[Relay] <= now
        BY <1>0, <1>3 DEF Miss, Inv, ThreadsInOrder, ThreadInOrder
    <2>2. /\ client'.time = client.time /\ client'.missed = at[Relay]
          /\ failedAt' = now /\ gotAt' = gotAt
        BY <1>0, <1>3 DEF Miss, VarsOK
    <2> QED
        BY <1>0, <1>t, <2>1, <2>2 DEF ClientInOrder
<1>4. CASE Got
    <2>1. at[Relay] <= now
        BY <1>0, <1>4 DEF Got, Inv, ThreadsInOrder, ThreadInOrder
    <2>2. client'.time = at[Relay] /\ client'.missed = Never /\ gotAt' = now
        BY <1>4 DEF Got
    <2> QED
        BY <1>t, <2>1, <2>2 DEF ClientInOrder
<1> QED
    BY <1>1, <1>2, <1>3, <1>4, ApiChanges

\* How the handler comes to look again, and to set an image.
LEMMA RelaySteps ==
    ASSUME VarsOK, [Next]_vars
    PROVE  /\ pc'[Relay] = "lookAgain" =>
                 Look \/ Fetch \/ Miss \/ Refresh
                 \/ (pc[Relay] = "lookAgain" /\ began'[Relay] = began[Relay]
                     /\ seen[Relay] \subseteq seen'[Relay])
           /\ pc'[Relay] = "set" =>
                 Fetch \/ Got \/ (pc[Relay] = "set" /\ at'[Relay] = at[Relay])
<1> USE ImageAuthAssumption
<1>1. ASSUME NEW u \in Threads, NEW keys, NEW checked, Returns(u, keys, checked)
      PROVE  /\ pc'[Relay] \in {pc[Relay], "idle"}
             /\ pc'[Relay] # "idle" => began'[Relay] = began[Relay] /\ at'[Relay] = at[Relay]
                                      /\ seen'[Relay] = seen[Relay]
    BY <1>1 DEF Returns, VarsOK
<1>2. ASSUME NEW u \in Threads, NEW label \in {"look", "check"}, Begin(u, label)
      PROVE  /\ pc'[Relay] \in {pc[Relay], "look", "check"}
             /\ pc'[Relay] = pc[Relay] => u # Relay
             /\ u # Relay => began'[Relay] = began[Relay] /\ at'[Relay] = at[Relay]
                             /\ seen'[Relay] = seen[Relay]
    BY <1>2 DEF Begin, Goto, VarsOK
<1>3. ASSUME NEW u \in Threads, Check(u) \/ ReadImage(u) \/ LookUpMiss(u)
      PROVE  /\ pc'[Relay] \in {pc[Relay], "read", "lookup", "store"}
             /\ began'[Relay] = began[Relay] /\ seen'[Relay] = seen[Relay]
             /\ at'[Relay] = at[Relay] \/ pc'[Relay] = "read"
    BY <1>3 DEF Check, ReadImage, LookUpMiss, Goto, VarsOK, outside, validatorVars
<1>4. ASSUME NEW o, SetImage(o)
      PROVE  seen[Relay] \subseteq seen'[Relay]
    BY <1>4 DEF SetImage, VarsOK
<1>5. CASE Tick \/ set_image_data \/ clear_image \/ clear_cache \/ UNCHANGED vars
    BY <1>4, <1>5 DEF Tick, set_image_data, clear_image, clear_cache, vars, validatorVars,
       outside
<1>6. CASE Look \/ Fetch \/ Miss \/ Got \/ Refresh \/ LookAgain
    BY <1>6 DEF Look, Fetch, Miss, Got, Refresh, LookAgain, Goto, VarsOK
<1>7. CASE AllowThrough \/ \E u \in Threads : Answering(u)
    BY <1>1, <1>7 DEF AllowThrough, Answering, ImageGone, LookUpHit, Store
<1>8. CASE Start \/ \E u \in Threads : Call(u)
    BY <1>2, <1>8 DEF Start, Call
<1> QED
    BY <1>3, <1>5, <1>6, <1>7, <1>8 DEF Next, Handling, Working

LEMMA FallbackStep ==
    ASSUME Inv, [Next]_vars
    PROVE  FallbackInOrder'
<1>0. VarsOK /\ ClientInOrder /\ ThreadInOrder(Relay) /\ FallbackInOrder /\ Relay \in Threads
    BY ImageAuthAssumption DEF Inv, ThreadsInOrder
<1>t. /\ now \in Int /\ began[Relay] \in Int /\ MissBackoff \in Nat
      /\ failedAt \in Int /\ client.missed \in Int
      /\ now # Never
    BY <1>0, BucketFacts, ImageAuthAssumption DEF VarsOK, Never, Times
<1> SUFFICES ASSUME pc'[Relay] = "lookAgain"
             PROVE  \/ seen'[Relay] # {NoImage}
                    \/ failedAt' # Never /\ failedAt' >= began'[Relay] - MissBackoff
    BY DEF FallbackInOrder
<1>1. CASE Look
    <2>1. image \in Objects
        BY <1>0, <1>1 DEF Look, Goto, VarsOK
    <2>2. image.data \in seen[Relay] /\ seen' = seen
        BY <1>0, <1>1 DEF Look, validatorVars, ThreadInOrder
    <2> QED
        BY <2>1, <2>2, ImageAuthAssumption DEF Objects
<1>2. CASE Fetch
    <2>1. client.image = NoObject /\ InBackoff
        BY <1>0, <1>2 DEF Fetch, Goto, VarsOK, CacheValid
    <2>2. began[Relay] <= now
        BY <1>0, <1>2 DEF Fetch, ThreadInOrder
    <2>3. failedAt # Never /\ failedAt >= began[Relay] - MissBackoff
        BY <1>0, <1>t, <2>1, <2>2 DEF InBackoff, ClientInOrder
    <2> QED
        BY <1>2, <2>3 DEF Fetch, outside
<1>3. CASE Miss
    BY <1>0, <1>t, <1>3 DEF Miss, ThreadInOrder
<1>4. CASE Refresh
    <2>1. held[Relay] \in Objects
        BY <1>0, <1>4 DEF Refresh, ThreadInOrder
    <2>2. seen'[Relay] = seen[Relay] \cup {held[Relay].data}
        BY <1>0, <1>4 DEF Refresh, SetImage, Running
    <2> QED
        BY <2>1, <2>2, ImageAuthAssumption DEF Objects
<1>5. CASE pc[Relay] = "lookAgain" /\ began'[Relay] = began[Relay]
           /\ seen[Relay] \subseteq seen'[Relay]
    <2>1. UNCHANGED failedAt
        BY <1>5, ApiChanges DEF Start, Begin, Miss, Got
    <2>2. image.data \in seen[Relay]
        BY <1>0, <1>5 DEF ThreadInOrder
    <2> QED
        BY <1>0, <1>5, <2>1, <2>2 DEF FallbackInOrder
<1> QED
    BY <1>0, <1>1, <1>2, <1>3, <1>4, <1>5, RelaySteps

LEMMA RecentStep ==
    ASSUME Inv, [Next]_vars
    PROVE  FetchedIsRecent'
<1>0. VarsOK /\ ClientInOrder /\ ThreadInOrder(Relay) /\ FetchedIsRecent /\ Relay \in Threads
    BY ImageAuthAssumption DEF Inv, ThreadsInOrder
<1>t. /\ now \in Int /\ at[Relay] \in Int /\ CacheTtl \in Nat \ {0}
      /\ failedAt \in Int /\ gotAt \in Int /\ client.missed \in Int /\ client.time \in Int
      /\ MissBackoff \in Nat
    BY <1>0, BucketFacts, ImageAuthAssumption DEF VarsOK, Never, Times
<1> SUFFICES ASSUME pc'[Relay] = "set"
             PROVE  \/ at'[Relay] - gotAt' < CacheTtl
                    \/ failedAt' # Never /\ at'[Relay] - failedAt' < MissBackoff
    BY DEF FetchedIsRecent
<1>1. CASE Fetch
    <2>1. CacheValid \/ InBackoff
        BY <1>0, <1>1 DEF Fetch, Goto, VarsOK
    <2>2. at'[Relay] = now /\ UNCHANGED <<gotAt, failedAt>>
        BY <1>0, <1>1 DEF Fetch, VarsOK, outside
    <2> QED
        BY <1>0, <1>t, <2>1, <2>2 DEF CacheValid, InBackoff, ClientInOrder
<1>2. CASE Got
    BY <1>0, <1>t, <1>2 DEF Got, ThreadInOrder
<1>3. CASE pc[Relay] = "set" /\ at'[Relay] = at[Relay]
    <2>1. UNCHANGED <<gotAt, failedAt>>
        BY <1>0, <1>3, ApiChanges DEF Start, Begin, Miss, Got
    <2> QED
        BY <1>0, <1>3, <2>1 DEF FetchedIsRecent
<1> QED
    BY <1>0, <1>1, <1>2, <1>3, RelaySteps

-----------------------------------------------------------------------------
(* The invariant is inductive                                              *)

LEMMA InitInv == Init => Inv
<1> SUFFICES ASSUME Init
             PROVE  Inv
    OBVIOUS
<1> USE ImageAuthAssumption DEF Init
<1>1. VarsOK
    BY DEF VarsOK, Times, NoAnswer, NewClient, Running
<1>2. CacheOK(cache)
    BY DEF CacheOK, OneEntryPerKey
<1>3. IdsAreUnique
    BY DEF IdsAreUnique, Referenced, NewClient
<1>4. ThreadsInOrder /\ ClientInOrder /\ FallbackInOrder /\ FetchedIsRecent
    BY DEF ThreadsInOrder, ThreadInOrder, ClientInOrder, FallbackInOrder, FetchedIsRecent,
       NewClient
<1>5. CacheIsCurrent
    BY DEF CacheIsCurrent
<1> QED
    BY <1>1, <1>2, <1>3, <1>4, <1>5 DEF Inv

LEMMA InvStep == Inv /\ [Next]_vars => Inv'
BY TypeStep, CacheOKStep, UniqueStep, ThreadsStep, ClientStep, FallbackStep, RecentStep,
   CurrentStep DEF Inv, CacheOK, OneEntryPerKey

LEMMA Invariance == Spec => []Inv
BY InitInv, InvStep, PTL DEF Spec

-----------------------------------------------------------------------------
(* What a call answers                                                     *)

\* A call that answers has let its keys through unchecked, has found its image
\* gone, or has the keys of an image it has seen for a time of the call.
LEMMA AnswersOf ==
    ASSUME Inv, [Next]_vars, NEW t \in Threads, Answers(t)
    PROVE  \/ /\ t = Relay /\ pc[t] = "lookAgain" /\ image = NoObject
              /\ answer'.keys = Keys /\ ~answer'.checked
           \/ /\ image = NoObject /\ answer'.keys = {} /\ answer'.checked
           \/ /\ pc[t] \in {"lookup", "store"} /\ answer'.checked
              /\ answer'.keys = ValidKeys(held[t].data, Bucket(at[t]))
<1>0. VarsOK /\ Relay \in Threads /\ CacheOK(cache) /\ CacheIsCurrent
    BY ImageAuthAssumption DEF Inv
<1>1. ASSUME NEW u \in Threads, NEW keys, NEW checked, Returns(u, keys, checked)
      PROVE  u = t /\ answer'.keys = keys /\ answer'.checked = checked
    BY <1>0, <1>1 DEF Returns, VarsOK, Answers
<1>2. CASE AllowThrough
    BY <1>0, <1>1, <1>2 DEF AllowThrough
<1>3. ASSUME NEW u \in Threads, ImageGone(u)
      PROVE  image = NoObject /\ answer'.keys = {} /\ answer'.checked
    BY <1>1, <1>3 DEF ImageGone
<1>4. ASSUME NEW u \in Threads, LookUpHit(u)
      PROVE  /\ pc[t] = "lookup" /\ answer'.checked
             /\ answer'.keys = ValidKeys(held[t].data, Bucket(at[t]))
    <2> PICK i \in Hits(held[u].id, Bucket(at[u])) : Returns(u, cache[i].keys, TRUE)
        BY <1>4 DEF LookUpHit
    <2>1. u = t /\ answer'.keys = cache[i].keys /\ answer'.checked = TRUE
        BY <1>1
    <2>2. i \in DOMAIN cache /\ cache[i].id = held[t].id /\ cache[i].bucket = Bucket(at[t])
        BY <2>1 DEF Hits
    <2>3. pc[t] = "lookup" /\ held[t] \in InUse
        BY <1>4, <2>1 DEF LookUpHit, InUse
    <2>4. cache[i].keys = ValidKeys(held[t].data, Bucket(at[t]))
        BY <1>0, <2>2, <2>3 DEF CacheIsCurrent
    <2> QED
        BY <2>1, <2>3, <2>4
<1>5. ASSUME NEW u \in Threads, Store(u)
      PROVE  /\ pc[t] = "store" /\ answer'.checked
             /\ answer'.keys = ValidKeys(held[t].data, Bucket(at[t]))
    BY <1>1, <1>5 DEF Store
<1>6. ASSUME NEW u \in Threads, NEW label, label # "idle", pc' = [pc EXCEPT ![u] = label]
      PROVE  FALSE
    BY <1>0, <1>6 DEF VarsOK, Answers
<1>7. CASE UNCHANGED pc
    BY <1>7 DEF Answers
<1> QED
    BY <1>0, <1>2, <1>3, <1>4, <1>5, <1>6, <1>7
    DEF Next, vars, Answering, Tick, set_image_data, clear_image, clear_cache, Handling,
        Start, Begin, Look, Fetch, Miss, Got, Refresh, LookAgain, Working, Call, Check,
        ReadImage, LookUpMiss, Goto

\* The buckets a checked answer accepts are buckets of its call.
LEMMA AnswerFacts ==
    ASSUME Inv, NEW t \in Threads, pc[t] \in {"lookup", "store"}
    PROVE  /\ held[t].data \in seen[t] /\ held[t].data \in Images
           /\ Bucket(began[t]) <= Bucket(at[t]) /\ Bucket(at[t]) <= Bucket(now)
           /\ Bucket(began[t]) \in Int /\ Bucket(at[t]) \in Int /\ Bucket(now) \in Int
<1>1. /\ held[t].data \in seen[t] /\ held[t] \in Objects
      /\ began[t] <= at[t] /\ at[t] <= now
    BY DEF Inv, ThreadsInOrder, ThreadInOrder
<1>2. began[t] \in Times /\ at[t] \in Times /\ now \in Times
    BY DEF Inv, VarsOK
<1>3. Bucket(began[t]) <= Bucket(at[t]) /\ Bucket(at[t]) <= Bucket(now)
    BY <1>1, <1>2, BucketFacts
<1>4. \A n \in Times : Bucket(n) \in Int
    BY BucketFacts
<1> QED
    BY <1>1, <1>2, <1>3, <1>4 DEF Objects

-----------------------------------------------------------------------------
(* The theorems                                                            *)

\* Every variable keeps its type; the cache has one entry per image and
\* bucket, and never more than its size.
THEOREM TypeCorrect == Spec => []TypeOK
<1>1. Inv => TypeOK
    BY TypeParts DEF Inv
<1> QED
    BY <1>1, Invariance, PTL

\* validate_auth_key's cache, keyed by id(), holds the right keys of every
\* image in use, however its objects are freed and their ids given out again.
THEOREM CacheCurrent == Spec => []CacheIsCurrent
BY Invariance, PTL DEF Inv

\* CachedAdminAPIClient.fetch_image hands out an image of its last time to
\* live, or one it keeps through a back-off.
THEOREM FetchedRecent == Spec => []FetchedIsRecent
BY Invariance, PTL DEF Inv

\* validate_auth_key accepts a key only if it was made from an image that was
\* set during the call, for a bucket of the call or the one before.
THEOREM AcceptedIsGenuine == Spec => AcceptedKeyIsGenuine
<1>1. ASSUME Inv, [Next]_vars
      PROVE  \A t \in Threads : Answers(t) /\ answer'.checked =>
                 \A k \in answer'.keys :
                     /\ k.data \in seen[t]
                     /\ k.bucket \in Bucket(began[t]) - 1 .. Bucket(now)
    <2> SUFFICES ASSUME NEW t \in Threads, Answers(t), answer'.checked,
                        NEW k \in answer'.keys
                 PROVE  /\ k.data \in seen[t]
                        /\ k.bucket \in Bucket(began[t]) - 1 .. Bucket(now)
        OBVIOUS
    <2>1. /\ pc[t] \in {"lookup", "store"}
          /\ answer'.keys = ValidKeys(held[t].data, Bucket(at[t]))
        BY <1>1, AnswersOf
    <2>2. /\ k.data = held[t].data
          /\ k.bucket = Bucket(at[t]) \/ k.bucket = Bucket(at[t]) - 1
        BY <2>1 DEF ValidKeys, Key
    <2> QED
        BY <1>1, <2>1, <2>2, AnswerFacts
<1> QED
    BY <1>1, Invariance, PTL DEF Spec, AcceptedKeyIsGenuine

\* validate_auth_key accepts the key of the only image of the whole call for
\* this bucket and the one before, whatever other threads do to the cache.
THEOREM GenuineIsAccepted == Spec => GenuineKeyIsAccepted
<1>1. ASSUME Inv, [Next]_vars
      PROVE  \A t \in Threads : Answers(t) =>
                 \A k \in Keys :
                     seen[t] = {k.data} /\ k.bucket \in Bucket(now) - 1 .. Bucket(began[t]) =>
                         k \in answer'.keys
    <2> SUFFICES ASSUME NEW t \in Threads, Answers(t), NEW k \in Keys,
                        seen[t] = {k.data},
                        k.bucket \in Bucket(now) - 1 .. Bucket(began[t])
                 PROVE  k \in answer'.keys
        OBVIOUS
    <2>1. CASE answer'.keys = Keys
        BY <2>1
    <2>2. CASE image = NoObject
        <3>1. NoImage \in seen[t]
            BY <1>1, <2>2 DEF Inv, ThreadsInOrder, ThreadInOrder, Answers, NoObject
        <3>2. k.data \in Images
            BY DEF Keys
        <3> QED
            BY <3>1, <3>2, ImageAuthAssumption
    <2>3. CASE /\ pc[t] \in {"lookup", "store"}
               /\ answer'.keys = ValidKeys(held[t].data, Bucket(at[t]))
        <3>1. k.data = held[t].data
            BY <1>1, <2>3, AnswerFacts
        <3>2. k.bucket = Bucket(at[t]) \/ k.bucket = Bucket(at[t]) - 1
            BY <1>1, <2>3, AnswerFacts
        <3>3. k = [data |-> k.data, bucket |-> k.bucket]
            BY DEF Keys
        <3> QED
            BY <2>3, <3>1, <3>2, <3>3 DEF ValidKeys, Key
    <2> QED
        BY <1>1, <2>1, <2>2, <2>3, AnswersOf
<1> QED
    BY <1>1, Invariance, PTL DEF Spec, GenuineKeyIsAccepted

\* _validate_image_auth_key lets a key through unchecked only if the image was
\* cleared during the call, or the admin API failed the handler within its
\* back-off.
THEOREM FallbackAfterMiss == Spec => FallbackOnlyAfterMiss
<1>1. ASSUME Inv, [Next]_vars
      PROVE  \A t \in Threads : Answers(t) /\ ~answer'.checked =>
                 \/ seen[t] # {NoImage}
                 \/ failedAt # Never /\ failedAt >= began[t] - MissBackoff
    BY <1>1, AnswersOf DEF Inv, FallbackInOrder
<1> QED
    BY <1>1, Invariance, PTL DEF Spec, FallbackOnlyAfterMiss
=============================================================================
