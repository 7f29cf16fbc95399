------------------------------ MODULE ImageAuth ------------------------------
(***************************************************************************)
(* The image authentication of CLIENT_AUTH: the process's one              *)
(* ImageAuthValidator, used by any number of threads (it takes its lock in *)
(* every method and is tested with threads), and the relay's event loop,   *)
(* one of these threads, on which every protocol handler runs its          *)
(* _validate_image_auth_key with its CachedAdminAPIClient, one after the   *)
(* other since nothing in them awaits.  A step is one section under the    *)
(* lock or one answer of the admin API.  A call is modelled for all values *)
(* of provided_key at once: it answers with the set of keys it accepts.    *)
(*                                                                         *)
(* An image is a bytes object: what it contains and its id().  The id of   *)
(* an object that nobody references any more may be given to a new one.    *)
(***************************************************************************)
EXTENDS Integers, Sequences, FiniteSets

CONSTANTS
    Threads,
    Relay,          \* the thread of the relay's event loop
    Images,         \* contents an image may have
    Ids,            \* values id() takes
    NoImage,        \* None
    BucketSize,     \* length of a key's bucket (30 s in the code)
    CacheTtl,       \* CachedAdminAPIClient.cache_ttl (30 s)
    MissBackoff,    \* CachedAdminAPIClient.cache_miss_backoff (5 s)
    CacheSize,      \* ImageAuthValidator.cache_size (1000)
    EvictedPart,    \* an eviction removes CacheSize \div EvictedPart (10)
    MaxTime         \* bound on the clock

ASSUME ImageAuthAssumption ==
    /\ Relay \in Threads /\ NoImage \notin Images \cup Ids
    /\ BucketSize \in Nat \ {0} /\ CacheTtl \in Nat \ {0} /\ MissBackoff \in Nat
    /\ EvictedPart \in Nat \ {0} /\ CacheSize \in Nat /\ CacheSize >= EvictedPart
    /\ MaxTime \in Nat

Objects == [id : Ids, data : Images]
NoObject == [id |-> NoImage, data |-> NoImage]
Times == 0 .. MaxTime
Never == -1

VARIABLES
    now,            \* time.time()
    image,          \* ImageAuthValidator._image_data
    cache,          \* ImageAuthValidator._cache, oldest entry first
    pc,             \* where each thread is in validate_auth_key, and Relay
                    \* in _validate_image_auth_key
    at,             \* the time it has read: current_time
    held,           \* image_data, the image object it has a reference to
    client,         \* the caching client of the relay's current handler
    seen,           \* images the validator has had since its call began
    began,          \* when its call began
    gotAt,          \* when the admin API gave this client its image
    failedAt,       \* when it last failed this client
    answer          \* what the call that just returned accepts

validatorVars == <<image, cache, seen>>
outside == <<now, began, gotAt, failedAt>>
vars == <<now, image, cache, pc, at, held, client, seen, began, gotAt, failedAt, answer>>

Running == {"look", "fetch", "ask", "set", "lookAgain", "check", "read", "lookup", "store"}

-----------------------------------------------------------------------------
(* Keys and the cache                                                      *)

Bucket(time) == time \div BucketSize

\* derive_auth_key: the SHA3-256 digest of the image and the bucket.
Key(data, bucket) == [data |-> data, bucket |-> bucket]
Keys == [data : Images, bucket : -1 .. Bucket(MaxTime)]

\* Mutant: no tolerance.
ValidKeysNow(data, bucket) == {Key(data, bucket)}
\* Mutant: the next bucket too.
ValidKeysNext(data, bucket) == {Key(data, bucket), Key(data, bucket - 1), Key(data, bucket + 1)}

\* validate_auth_key accepts the key of this bucket and of the one before.
ValidKeys(data, bucket) == {Key(data, bucket), Key(data, bucket - 1)}

Hits(id, bucket) == {i \in DOMAIN cache : cache[i].id = id /\ cache[i].bucket = bucket}

EvictedNothing(entries) == entries     \* mutant: the cache is unbounded

\* Simple eviction: clear oldest 10%.
Evicted(entries) ==
    IF Len(entries) >= CacheSize
    THEN SubSeq(entries, CacheSize \div EvictedPart + 1, Len(entries))
    ELSE entries

\* A dict keeps the place of a key that is assigned again.
Stored(entries, e) ==
    IF \E i \in DOMAIN entries : entries[i].id = e.id /\ entries[i].bucket = e.bucket
    THEN [i \in DOMAIN entries |->
            IF entries[i].id = e.id /\ entries[i].bucket = e.bucket THEN e ELSE entries[i]]
    ELSE Append(entries, e)

-----------------------------------------------------------------------------
(* Objects                                                                 *)

\* A caching client references its last image, a thread the one it works on.
Referenced ==
    {image, client.image} \cup {held[t] : t \in Threads}
Free == {i \in Ids : \A o \in Referenced : o.id # i}

NewObject(o, data) == o.id \in Free /\ o.data = data

NoAnswer == [thread |-> NoImage, keys |-> {}, checked |-> FALSE]

NewClient == [image |-> NoObject, time |-> Never, missed |-> Never]

Init ==
    /\ now = 0
    /\ image = NoObject /\ cache = <<>>
    /\ pc = [t \in Threads |-> "idle"]
    /\ at = [t \in Threads |-> 0]
    /\ held = [t \in Threads |-> NoObject]
    /\ client = NewClient
    /\ seen = [t \in Threads |-> {NoImage}]
    /\ began = [t \in Threads |-> 0]
    /\ gotAt = Never /\ failedAt = Never
    /\ answer = NoAnswer

-----------------------------------------------------------------------------
(* Time, and other users of the validator                                  *)

Tick ==
    /\ now < MaxTime /\ now' = now + 1
    /\ UNCHANGED <<validatorVars, pc, at, held, client, began, gotAt, failedAt>>

CacheKept == cache     \* mutant: a new image leaves the cache alone

\* set_image_data: the cache goes with the image whose keys it holds.
CacheOfNewImage == <<>>

SetImage(o) ==
    /\ image' = o /\ cache' = CacheOfNewImage
    /\ seen' = [t \in Threads |-> IF pc[t] \in Running THEN seen[t] \cup {o.data} ELSE seen[t]]

set_image_data ==
    /\ \E o \in Objects : NewObject(o, o.data) /\ SetImage(o)
    /\ UNCHANGED <<outside, pc, at, held, client>>

clear_image == SetImage(NoObject) /\ UNCHANGED <<outside, pc, at, held, client>>

clear_cache ==
    /\ cache' = <<>>
    /\ UNCHANGED <<outside, image, seen, pc, at, held, client>>

-----------------------------------------------------------------------------
(* _validate_image_auth_key                                                *)

Goto(t, label) == pc' = [pc EXCEPT ![t] = label]

Begin(t, label) ==
    /\ pc[t] = "idle" /\ Goto(t, label)
    /\ seen' = [seen EXCEPT ![t] = {image.data}]
    /\ began' = [began EXCEPT ![t] = now]
    /\ UNCHANGED <<now, image, cache, at, held>>

\* process_client_auth passes on the key of CLIENT_AUTH.  Every connection
\* has a protocol handler, and so a caching client, of its own.
Start ==
    /\ Begin(Relay, "look")
    /\ \/ UNCHANGED <<client, gotAt, failedAt>>
       \/ client' = NewClient /\ gotAt' = Never /\ failedAt' = Never

\* validate_auth_key called by another thread.
Call(t) == t # Relay /\ Begin(t, "check") /\ UNCHANGED <<client, gotAt, failedAt>>

\* If we don't have an image yet, try to fetch one.
Look ==
    /\ pc[Relay] = "look"
    /\ Goto(Relay, IF image = NoObject THEN "fetch" ELSE "lookAgain")
    /\ UNCHANGED <<outside, validatorVars, at, held, client>>

CacheValidForever == client.image # NoObject   \* mutant: no time to live
CacheValid == client.image # NoObject /\ client.time # Never /\ now - client.time < CacheTtl

MissedOnce == client.missed # Never    \* mutant: no retry after a miss
InBackoff == client.missed # Never /\ now - client.missed < MissBackoff

\* CachedAdminAPIClient.fetch_image, up to the request: its current_time is
\* read before the request is made.
Fetch ==
    /\ pc[Relay] = "fetch"
    /\ at' = [at EXCEPT ![Relay] = now]
    /\ IF CacheValid \/ InBackoff
       THEN /\ held' = [held EXCEPT ![Relay] = client.image]
            /\ Goto(Relay, IF client.image = NoObject THEN "lookAgain" ELSE "set")
       ELSE Goto(Relay, "ask") /\ UNCHANGED held
    /\ UNCHANGED <<outside, validatorVars, client>>

\* AdminAPIClient.fetch_image and what follows it: every failure is None,
\* and decoding makes a new object.
Miss ==
    /\ pc[Relay] = "ask" /\ Goto(Relay, "lookAgain")
    /\ client' = [client EXCEPT !.missed = at[Relay]]
    /\ failedAt' = now
    /\ UNCHANGED <<now, began, gotAt, validatorVars, at, held>>

Got ==
    /\ pc[Relay] = "ask" /\ Goto(Relay, "set")
    /\ \E o \in Objects :
        /\ NewObject(o, o.data)
        /\ client' = [image |-> o, time |-> at[Relay], missed |-> Never]
        /\ held' = [held EXCEPT ![Relay] = o]
    /\ gotAt' = now
    /\ UNCHANGED <<now, began, failedAt, validatorVars, at>>

\* _refresh_image_auth sets what it fetched.
Refresh ==
    /\ pc[Relay] = "set" /\ SetImage(held[Relay])
    /\ held' = [held EXCEPT ![Relay] = NoObject]
    /\ Goto(Relay, "lookAgain")
    /\ UNCHANGED <<outside, at, client>>

\* A call returns: it accepts these keys, and without having checked them if
\* there was nothing to check them against.
Returns(t, keys, checked) ==
    /\ answer' = [thread |-> t, keys |-> keys, checked |-> checked]
    /\ pc' = [pc EXCEPT ![t] = "idle"]
    /\ held' = [held EXCEPT ![t] = NoObject]
    /\ at' = [at EXCEPT ![t] = 0]
    /\ began' = [began EXCEPT ![t] = 0]
    /\ seen' = [seen EXCEPT ![t] = {NoImage}]
    /\ UNCHANGED <<now, image, client, gotAt, failedAt>>

\* If still no image, allow through with warning (graceful fallback).
LookAgain ==
    /\ pc[Relay] = "lookAgain" /\ image # NoObject
    /\ Goto(Relay, "check")
    /\ UNCHANGED <<outside, validatorVars, at, held, client>>

AllowThrough ==
    /\ pc[Relay] = "lookAgain" /\ image = NoObject
    /\ Returns(Relay, Keys, FALSE) /\ UNCHANGED cache

\* validate_auth_key reads the clock, then the image under the lock; it
\* rejects every key if the image is gone at either.
Check(t) ==
    /\ pc[t] = "check" /\ image # NoObject
    /\ Goto(t, "read") /\ at' = [at EXCEPT ![t] = now]
    /\ UNCHANGED <<outside, validatorVars, held, client>>

ReadImage(t) ==
    /\ pc[t] = "read" /\ image # NoObject
    /\ Goto(t, "lookup") /\ held' = [held EXCEPT ![t] = image]
    /\ UNCHANGED <<outside, validatorVars, at, client>>

ImageGone(t) ==
    /\ pc[t] \in {"check", "read"} /\ image = NoObject
    /\ Returns(t, {}, TRUE) /\ UNCHANGED cache

LookUpHit(t) ==
    /\ pc[t] = "lookup"
    /\ \E i \in Hits(held[t].id, Bucket(at[t])) : Returns(t, cache[i].keys, TRUE)
    /\ UNCHANGED cache

LookUpMiss(t) ==
    /\ pc[t] = "lookup" /\ Hits(held[t].id, Bucket(at[t])) = {}
    /\ Goto(t, "store")
    /\ UNCHANGED <<outside, validatorVars, at, held, client>>

Store(t) ==
    /\ pc[t] = "store"
    /\ LET keys == ValidKeys(held[t].data, Bucket(at[t]))
           entry == [id |-> held[t].id, bucket |-> Bucket(at[t]), keys |-> keys]
       IN cache' = Stored(Evicted(cache), entry) /\ Returns(t, keys, TRUE)

Answering(t) == ImageGone(t) \/ LookUpHit(t) \/ Store(t)

Working(t) == Call(t) \/ Check(t) \/ ReadImage(t) \/ LookUpMiss(t)

Handling == Start \/ Look \/ Fetch \/ Miss \/ Got \/ Refresh \/ LookAgain

Next ==
    \/ AllowThrough \/ \E t \in Threads : Answering(t)
    \/ /\ \/ Tick \/ set_image_data \/ clear_image \/ clear_cache \/ Handling
          \/ \E t \in Threads : Working(t)
       /\ answer' = NoAnswer

Spec == Init /\ [][Next]_vars

-----------------------------------------------------------------------------
(* Properties                                                              *)

Entries == [id : Ids, bucket : 0 .. Bucket(MaxTime), keys : SUBSET Keys]

\* The types of the variables; the cache has one entry per image and bucket
\* and never more entries than its size.
TypeOK ==
    /\ now \in Times /\ gotAt \in Times \cup {Never} /\ failedAt \in Times \cup {Never}
    /\ image \in Objects \cup {NoObject}
    /\ cache \in Seq(Entries) /\ Len(cache) <= CacheSize
    /\ \A i, j \in DOMAIN cache :
        cache[i].id = cache[j].id /\ cache[i].bucket = cache[j].bucket => i = j
    /\ pc \in [Threads -> Running \cup {"idle"}]
    /\ at \in [Threads -> Times] /\ began \in [Threads -> Times]
    /\ held \in [Threads -> Objects \cup {NoObject}]
    /\ client \in [image : Objects \cup {NoObject},
                  time : Times \cup {Never}, missed : Times \cup {Never}]
    /\ seen \in [Threads -> SUBSET (Images \cup {NoImage})]
    /\ answer.keys \subseteq Keys

\* The cache is keyed by id(), which Python gives out again.  Still the
\* entries under the id of an image in use, the current one or one that a
\* thread has read, are that image's keys, whatever was replaced, freed and
\* allocated between a thread's look-up and its store.
InUse == {image} \cup {held[t] : t \in {u \in Threads : pc[u] \in {"lookup", "store"}}}
CacheIsCurrent ==
    \A i \in DOMAIN cache : \A o \in InUse :
        cache[i].id = o.id => cache[i].keys = ValidKeys(o.data, cache[i].bucket)

Answers(t) == pc[t] # "idle" /\ pc'[t] = "idle"

\* An accepted key was made from an image that was the current one during
\* the call, for a bucket of the call or the one before it.
AcceptedKeyIsGenuine ==
    [][\A t \in Threads : Answers(t) /\ answer'.checked =>
        \A k \in answer'.keys :
            /\ k.data \in seen[t]
            /\ k.bucket \in Bucket(began[t]) - 1 .. Bucket(now)]_vars

\* A key of the only image of the whole call, made for this bucket or the
\* one before, is accepted, whatever other threads do to the cache.
GenuineKeyIsAccepted ==
    [][\A t \in Threads : Answers(t) =>
        \A k \in Keys :
            seen[t] = {k.data} /\ k.bucket \in Bucket(now) - 1 .. Bucket(began[t]) =>
                k \in answer'.keys]_vars

\* A person is let through without a check of the key only if the image was
\* cleared during the call, or the admin API has failed the handler during
\* the call or within the back-off before it.
FallbackOnlyAfterMiss ==
    [][\A t \in Threads : Answers(t) /\ ~answer'.checked =>
        \/ seen[t] # {NoImage}
        \/ failedAt # Never /\ failedAt >= began[t] - MissBackoff]_vars

\* An image that a handler is about to set was given to it within the cache's
\* time to live, or the admin API has failed it within the back-off.
FetchedIsRecent ==
    pc[Relay] = "set" =>
        \/ at[Relay] - gotAt < CacheTtl
        \/ failedAt # Never /\ at[Relay] - failedAt < MissBackoff
=============================================================================
