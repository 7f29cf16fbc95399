----------------------------- MODULE Roster_proofs -----------------------------
(***************************************************************************)
(* Type correctness of Roster, and that revocation and enrolment take      *)
(* effect with the next call, for any number of names, keys and edits.     *)
(***************************************************************************)
EXTENDS Roster, FiniteSetTheorems, TLAPS

\* The names that have an entry in a map.
Entries(map) == {n \in Names : map[n] # None}

\* A stamp taken from the file that is there now, unless it is None.
IsCurrent(stamp) == stamp # None /\ stamp[1] = mtime

NotFromFuture(stamp) == stamp # None => stamp[1] <= mtime

-----------------------------------------------------------------------------
(* The inductive invariant.  RevokedIsOut compares the answer with a        *)
(* history; why it holds is a relation between stamps and contents: what is *)
(* stored under the stamp of the present file names nobody else than the    *)
(* present file does.                                                       *)

StampsInv == NotFromFuture(seen) /\ NotFromFuture(call.stamp)

\* The cache, when its stamp is the present file's, names only people who
\* are authorised now.
CacheInv == IsCurrent(seen) => Entries(cache) \subseteq Authorised

\* A call that has read the names will store nobody else under its stamp.
LoadInv ==
    call.at = "loading" /\ IsCurrent(call.stamp) =>
        call.names \cup Entries(call.fresh) \subseteq Authorised

\* What the call in progress may return names nobody in call.outside.
AnswerInv ==
    /\ call.at = "stamped" /\ call.stamp # None /\ call.stamp = seen =>
           Entries(cache) \cap call.outside = {}
    /\ call.at = "loading" =>
           (call.names \cup Entries(call.fresh)) \cap call.outside = {}

FreshInv == call.at = "stamped" => call.fresh = EmptyMap

Inv ==
    /\ TypeOK
    /\ StampsInv
    /\ CacheInv
    /\ LoadInv
    /\ AnswerInv
    /\ FreshInv
    /\ call.outside \cap Authorised = {}

\* The types of the call in progress.
Calls == [at : {"idle", "stamped", "loading"}, stamp : Stamps,
          names : SUBSET Names, fresh : Maps,
          outside : SUBSET Names, settled : SUBSET Names]

-----------------------------------------------------------------------------
(* Lemmas                                                                  *)

\* The stamp of an existing roster file has its modification time.
LEMMA StampType ==
    ASSUME TypeOK
    PROVE  /\ Stamp \in Stamps
           /\ Stamp # None => Stamp[1] = mtime
<1>1. CASE NoStamp
    BY <1>1 DEF Stamp, Stamps
<1>2. CASE ~NoStamp
    <2>1. listed \in SUBSET Names
        BY <1>2 DEF TypeOK, NoStamp
    <2>2. Cardinality(listed) \in 0 .. Cardinality(Names)
        BY <2>1, RosterAssumption, FS_Subset, FS_CardinalityType
    <2> QED
        BY <1>2, <2>2 DEF Stamp, Stamps, FileStamps, TypeOK
<1> QED
    BY <1>1, <1>2

\* Idle is a call that has nothing.
LEMMA IdleType ==
    /\ EmptyMap \in Maps /\ Entries(EmptyMap) = {}
    /\ Idle \in Calls
    /\ Idle.at = "idle" /\ Idle.stamp = None /\ Idle.names = {}
    /\ Idle.fresh = EmptyMap /\ Idle.outside = {} /\ Idle.settled = {}
<1>1. EmptyMap \in Maps /\ Entries(EmptyMap) = {}
    BY DEF EmptyMap, Maps, Entries
<1> QED
    BY <1>1 DEF Idle, Calls, Stamps

\* Only people who may be listed are authorised.
LEMMA AuthorisedNames ==
    ASSUME TypeOK
    PROVE  Authorised \subseteq Names
BY RosterAssumption DEF Authorised, TypeOK, RosterAssumption

\* Both stamps are None or pairs.
LEMMA CurrentStamps ==
    ASSUME TypeOK
    PROVE  /\ seen # None => seen[1] \in 0 .. MaxEdits
           /\ call.stamp # None => call.stamp[1] \in 0 .. MaxEdits
BY DEF TypeOK, Stamps, FileStamps

\* After a write of the roster file no stamp taken before is current.
LEMMA WriteAgesStamps ==
    ASSUME Inv, mtime' = mtime + 1, seen' = seen, call'.stamp = call.stamp
    PROVE  /\ StampsInv' /\ CacheInv' /\ LoadInv'
           /\ ~IsCurrent(seen)' /\ ~IsCurrent(call.stamp)'
<1>1. mtime \in Nat
    BY RosterAssumption DEF Inv, TypeOK, RosterAssumption
<1>2. (seen # None => seen[1] \in Nat) /\ (call.stamp # None => call.stamp[1] \in Nat)
    BY CurrentStamps DEF Inv
<1>3. StampsInv'
    BY <1>1, <1>2 DEF Inv, StampsInv, NotFromFuture
<1>4. ~IsCurrent(seen)' /\ ~IsCurrent(call.stamp)'
    BY <1>1, <1>2 DEF Inv, StampsInv, NotFromFuture, IsCurrent
<1> QED
    BY <1>3, <1>4 DEF CacheInv, LoadInv

-----------------------------------------------------------------------------
(* The steps                                                               *)

\* A call begins with the stamp of the present file, and call.outside is the
\* complement of the people authorised at this moment.
LEMMA BeginPreserves ==
    ASSUME Inv, CallBegins
    PROVE  Inv'
<1> USE DEF Inv
<1>1. call' = [Idle EXCEPT !.at = "stamped", !.stamp = Stamp,
                           !.outside = Names \ Authorised,
                           !.settled = Authorised \cap intact]
    BY DEF CallBegins
<1>2. /\ call'.at = "stamped" /\ call'.stamp = Stamp
      /\ call'.names = {} /\ call'.fresh = EmptyMap
      /\ call'.outside = Names \ Authorised
    BY <1>1 DEF Idle
<1>3. UNCHANGED <<listed, access, mtime, keyfile, keyedits, cache, seen, intact>>
      /\ answer' = None
    BY DEF CallBegins, files
<1>4. TypeOK'
    <2>1. call' \in Calls
        BY <1>1, IdleType, StampType, AuthorisedNames DEF Calls, Idle
    <2> QED
        BY <1>3, <2>1 DEF TypeOK, Calls
<1>5. StampsInv'
    <2>1. mtime \in Int
        BY DEF TypeOK
    <2> QED
        BY <1>2, <1>3, <2>1, StampType DEF StampsInv, NotFromFuture
<1>6. CacheInv'
    BY <1>3 DEF CacheInv, IsCurrent, Entries, Authorised
<1>7. LoadInv' /\ FreshInv'
    BY <1>2 DEF LoadInv, FreshInv, EmptyMap
<1>8. AnswerInv'
    <2>1. ASSUME Stamp # None, Stamp = seen
          PROVE  Entries(cache) \cap (Names \ Authorised) = {}
        BY <2>1, StampType DEF CacheInv, IsCurrent
    <2> QED
        BY <1>2, <1>3, <2>1 DEF AnswerInv, Entries
<1>9. (call.outside \cap Authorised = {})'
    BY <1>2, <1>3 DEF Authorised
<1> QED
    BY <1>4, <1>5, <1>6, <1>7, <1>8, <1>9

\* The names that are read are authorised now, whether or not the file could
\* be opened.
LEMMA NamesRead ==
    ASSUME TypeOK, NEW names \in NamesNow
    PROVE  names \subseteq Authorised /\ names \subseteq Names
<1>1. names \subseteq Authorised
    BY DEF NamesNow, Authorised
<1> QED
    BY <1>1, AuthorisedNames

LEMMA ReadPreserves ==
    ASSUME Inv, ReadNames
    PROVE  Inv'
<1> USE DEF Inv
<1>1. UNCHANGED <<listed, access, mtime, keyfile, keyedits, cache, seen, answer>>
    BY DEF ReadNames, files
<1> PICK names \in NamesNow :
        /\ call' = [call EXCEPT !.at = "loading", !.names = names,
                                !.settled = @ \cap names]
        /\ intact' = intact \ (Authorised \ names)
    BY DEF ReadNames
<1>2. names \subseteq Authorised /\ names \subseteq Names
    BY NamesRead
<1>3. /\ call'.at = "loading" /\ call'.stamp = call.stamp
      /\ call'.names = names /\ call'.fresh = EmptyMap
      /\ call'.outside = call.outside
    BY DEF ReadNames, TypeOK, FreshInv
<1>4. TypeOK'
    <2>1. call' \in Calls
        BY <1>2 DEF TypeOK, Calls
    <2> QED
        BY <1>1, <2>1 DEF TypeOK, Calls
<1>5. Entries(EmptyMap) = {}
    BY IdleType
<1>6. (Authorised)' = Authorised
    BY <1>1 DEF Authorised
<1>7. StampsInv' /\ CacheInv' /\ FreshInv'
    BY <1>1, <1>3, <1>6
       DEF StampsInv, NotFromFuture, CacheInv, IsCurrent, FreshInv, Entries
<1>8. (call'.names \cup Entries(call'.fresh)) = names /\ names \cap call.outside = {}
    BY <1>2, <1>3, <1>5
<1>9. LoadInv' /\ AnswerInv'
    BY <1>2, <1>3, <1>6, <1>8 DEF LoadInv, AnswerInv, Entries
<1> QED
    BY <1>3, <1>4, <1>6, <1>7, <1>9

\* Loading a key moves a name from the names left to the map, or skips it.
LEMMA LoadPreserves ==
    ASSUME Inv, NEW n \in Names, LoadKey(n)
    PROVE  Inv'
<1> USE DEF Inv
<1>1. UNCHANGED <<listed, access, mtime, keyfile, keyedits, cache, seen, answer, intact>>
    BY DEF LoadKey, files
<1>2. /\ call.at = "loading" /\ n \in call.names
      /\ call'.at = "loading" /\ call'.stamp = call.stamp
      /\ call'.names = call.names \ {n}
      /\ call'.fresh = [call.fresh EXCEPT ![n] = Loaded(n)]
      /\ call'.outside = call.outside
    BY DEF LoadKey, TypeOK
<1>3. TypeOK'
    <2>1. Loaded(n) \in Keys \cup {None}
        BY DEF Loaded, HasKey
    <2>2. call'.fresh \in Maps
        BY <1>2, <2>1 DEF TypeOK, Maps
    <2>3. call' = [call EXCEPT !.names = call.names \ {n}, !.fresh = call'.fresh]
        BY <1>2 DEF LoadKey, TypeOK
    <2> QED
        BY <1>1, <2>2, <2>3 DEF TypeOK
<1>4. call'.names \cup Entries(call'.fresh) \subseteq call.names \cup Entries(call.fresh)
    BY <1>2 DEF Entries, TypeOK, Maps
<1>5. (Authorised)' = Authorised
    BY <1>1 DEF Authorised
<1>6. StampsInv' /\ CacheInv'
    BY <1>1, <1>2, <1>5 DEF StampsInv, NotFromFuture, CacheInv, IsCurrent, Entries
<1>7. LoadInv' /\ AnswerInv' /\ FreshInv'
    BY <1>1, <1>2, <1>4, <1>5
       DEF LoadInv, AnswerInv, FreshInv, IsCurrent, Entries
<1> QED
    BY <1>2, <1>3, <1>5, <1>6, <1>7

\* What is stored under a stamp that is still current names nobody else than
\* the present file.
LEMMA StorePreserves ==
    ASSUME Inv, Store
    PROVE  Inv'
<1> USE DEF Inv
<1>1. UNCHANGED <<listed, access, mtime, keyfile, keyedits, intact>>
    BY DEF Store, files
<1>2. /\ call.at = "loading" /\ cache' = call.fresh /\ seen' = call.stamp
      /\ answer' = call.fresh /\ call' = Idle
    BY DEF Store, StampToKeep
<1>3. TypeOK'
    <2>1. call.fresh \in Maps /\ (call.stamp = None \/ call.stamp \in FileStamps)
        BY DEF TypeOK, Stamps
    <2> QED
        BY <1>1, <1>2, <2>1, IdleType DEF TypeOK, Calls
<1>4. (Authorised)' = Authorised
    BY <1>1 DEF Authorised
<1>5. StampsInv' /\ CacheInv'
    BY <1>1, <1>2, <1>4, IdleType
       DEF StampsInv, NotFromFuture, CacheInv, LoadInv, IsCurrent, Entries
<1>6. LoadInv' /\ AnswerInv' /\ FreshInv' /\ (call.outside \cap Authorised = {})'
    BY <1>2, IdleType DEF LoadInv, AnswerInv, FreshInv
<1> QED
    BY <1>3, <1>5, <1>6

\* The ways a call ends without storing anything.
LEMMA EndPreserves ==
    ASSUME Inv, CacheHit \/ ReadRaises \/ \E n \in Names : LoadRaises(n)
    PROVE  Inv'
<1> USE DEF Inv
<1>1. /\ UNCHANGED <<listed, access, mtime, keyfile, keyedits, cache, seen, intact>>
      /\ call' = Idle /\ answer' \in {cache, Raised}
    BY DEF CacheHit, ReadRaises, LoadRaises, Raise, files
<1>2. TypeOK'
    BY <1>1, IdleType DEF TypeOK, Calls
<1>3. StampsInv' /\ CacheInv'
    BY <1>1, IdleType
       DEF StampsInv, NotFromFuture, CacheInv, IsCurrent, Entries, Authorised
<1>4. LoadInv' /\ AnswerInv' /\ FreshInv' /\ (call.outside \cap Authorised = {})'
    BY <1>1, IdleType DEF LoadInv, AnswerInv, FreshInv
<1> QED
    BY <1>2, <1>3, <1>4

\* A write or the loss of the roster file ages every stamp, and takes the
\* people it authorises out of call.outside.
LEMMA RosterFilePreserves ==
    ASSUME Inv, (\E names \in SUBSET Names : EditRoster(names)) \/ LoseRoster
    PROVE  Inv'
<1> USE DEF Inv
<1>1. PICK names \in SUBSET Names :
          /\ RosterBecomes(names)
          /\ listed' = names \/ (listed' = None /\ names = {})
          /\ access' \in Accesses
    BY DEF EditRoster, LoseRoster, Accesses
<1>2. /\ mtime < MaxEdits /\ mtime' = mtime + 1 /\ intact' = WithKey
      /\ UNCHANGED <<keyfile, keyedits, cache, seen, answer>>
      /\ call' = [call EXCEPT !.outside = @ \ names,
                              !.settled = @ \cap (Pinned \cup names)]
    BY <1>1 DEF RosterBecomes
<1>3. /\ call'.at = call.at /\ call'.stamp = call.stamp /\ call'.names = call.names
      /\ call'.fresh = call.fresh /\ call'.outside = call.outside \ names
    BY <1>2 DEF TypeOK
<1>4. TypeOK'
    <2>1. mtime' \in 0 .. MaxEdits
        BY <1>2, RosterAssumption DEF TypeOK, RosterAssumption
    <2>2. call' \in Calls
        BY <1>2 DEF TypeOK, Calls
    <2>3. intact' \subseteq Names
        BY <1>2 DEF WithKey
    <2> QED
        BY <1>1, <1>2, <2>1, <2>2, <2>3 DEF TypeOK, Calls
<1>5. (call.outside \cap Authorised = {})'
    BY <1>1, <1>3 DEF Authorised
<1>6. StampsInv' /\ CacheInv' /\ LoadInv'
    BY <1>2, <1>3, WriteAgesStamps
<1>7. AnswerInv' /\ FreshInv'
    BY <1>2, <1>3 DEF AnswerInv, FreshInv, Entries
<1> QED
    BY <1>4, <1>5, <1>6, <1>7

\* Access to the roster file can change under the server without changing
\* who is authorised or which stamp is current.
LEMMA AccessPreserves ==
    ASSUME Inv, NEW how \in Accesses, ChangeAccess(how)
    PROVE  Inv'
<1> USE DEF Inv
<1>1. /\ UNCHANGED <<listed, mtime, keyfile, keyedits, cache, seen, call, answer, intact>>
      /\ access' \in Accesses
    BY DEF ChangeAccess
<1>2. TypeOK'
    BY <1>1 DEF TypeOK
<1> QED
    BY <1>1, <1>2 DEF StampsInv, NotFromFuture, CacheInv, LoadInv, AnswerInv,
                      FreshInv, IsCurrent, Entries, Authorised

\* Writes of key files do not touch what the invariant is about.
LEMMA KeyFilePreserves ==
    ASSUME Inv, NEW n \in Names, NEW content \in Keys \cup NoKeyFile,
           EditKeyFile(n, content)
    PROVE  Inv'
<1> USE DEF Inv
<1>1. /\ UNCHANGED <<listed, access, mtime, cache, seen, answer>>
      /\ call' = [call EXCEPT !.settled = @ \ {n}] /\ intact' \subseteq intact
    BY DEF EditKeyFile
<1>2. /\ call'.at = call.at /\ call'.stamp = call.stamp /\ call'.names = call.names
      /\ call'.fresh = call.fresh /\ call'.outside = call.outside
    BY <1>1 DEF TypeOK
<1>3. TypeOK'
    <2>1. keyedits' \in 0 .. MaxKeyEdits
        BY RosterAssumption DEF EditKeyFile, TypeOK, RosterAssumption
    <2>2. keyfile' \in [Names -> Keys \cup NoKeyFile]
        BY DEF EditKeyFile, TypeOK
    <2>3. call' \in Calls
        BY <1>1 DEF TypeOK, Calls
    <2> QED
        BY <1>1, <2>1, <2>2, <2>3 DEF TypeOK, Calls
<1> QED
    BY <1>1, <1>2, <1>3 DEF StampsInv, NotFromFuture, CacheInv, LoadInv, AnswerInv,
                            FreshInv, IsCurrent, Entries, Authorised

\* The invariant holds at first and is preserved by every step.
LEMMA Invariance == Spec => []Inv
<1>1. Init => Inv
    <2> SUFFICES ASSUME Init PROVE Inv
        OBVIOUS
    <2>1. TypeOK
        <3>1. mtime \in 0 .. MaxEdits /\ keyedits \in 0 .. MaxKeyEdits
            BY RosterAssumption DEF Init, RosterAssumption
        <3>2. keyfile \in [Names -> Keys \cup NoKeyFile]
            BY DEF Init, NoKeyFile
        <3>3. intact \subseteq Names /\ access \in Accesses
            BY DEF Init, WithKey, Accesses
        <3> QED
            BY <3>1, <3>2, <3>3, IdleType DEF Init, TypeOK, Calls
    <2> QED
        BY <2>1, IdleType DEF Init, Inv, StampsInv, NotFromFuture, CacheInv,
                              IsCurrent, LoadInv, AnswerInv, FreshInv
<1>2. Inv /\ [Next]_vars => Inv'
    <2> SUFFICES ASSUME Inv, [Next]_vars PROVE Inv'
        OBVIOUS
    <2>1. CASE Next
        BY <2>1, BeginPreserves, ReadPreserves, LoadPreserves, StorePreserves,
           EndPreserves, RosterFilePreserves, AccessPreserves, KeyFilePreserves
        DEF Next
    <2>2. CASE UNCHANGED vars
        BY <2>2 DEF vars, Inv, TypeOK, StampsInv, NotFromFuture, CacheInv, LoadInv,
                    AnswerInv, FreshInv, IsCurrent, Entries, Authorised
    <2> QED
        BY <2>1, <2>2
<1> QED
    BY <1>1, <1>2, PTL DEF Spec

-----------------------------------------------------------------------------
(* The theorems                                                            *)

\* Roster's variables always have their types; in particular the cache maps
\* names to keys, never to the content of a file that is not a key.
THEOREM TypeCorrect == Spec => []TypeOK
<1>1. Inv => TypeOK
    BY DEF Inv
<1> QED
    BY <1>1, Invariance, PTL

\* A call returns a map only from its cache or after loading every key.
LEMMA ReturnSteps ==
    ASSUME TypeOK, Next, Returns, Vouched
    PROVE  \/ /\ call.at = "stamped" /\ call.stamp # None /\ call.stamp = seen
              /\ answer' = cache
           \/ Store
<1>1. CacheHit => /\ call.at = "stamped" /\ call.stamp # None /\ call.stamp = seen
                  /\ answer' = cache
    BY DEF CacheHit, Vouched, NeedsReload
<1>2. CallBegins \/ ReadNames \/ (\E m \in Names : LoadKey(m)) => call'.at # "idle"
    BY DEF CallBegins, ReadNames, LoadKey, Idle, TypeOK
<1>3. ReadRaises \/ (\E m \in Names : LoadRaises(m)) => answer' = Raised
    BY DEF ReadRaises, LoadRaises, Raise
<1>4. (\E names \in SUBSET Names : EditRoster(names)) \/ LoseRoster => call'.at = call.at
    BY DEF EditRoster, LoseRoster, RosterBecomes, TypeOK
<1>5. \/ \E how \in Accesses \ {"garbled"} : ChangeAccess(how)
      \/ \E m \in Names, content \in Keys \cup NoKeyFile : EditKeyFile(m, content)
      => call'.at = call.at
    BY DEF ChangeAccess, EditKeyFile, TypeOK
<1> QED
    BY <1>1, <1>2, <1>3, <1>4, <1>5 DEF Next, Returns

\* Revocation takes effect with the next handshake: Roster.current never
\* returns a name that was unauthorised from the moment the call began,
\* however the files are edited around and during its calls.
THEOREM Revocation == Spec => RevokedIsOut
<1>1. ASSUME Inv, [Next]_vars
      PROVE  [Returns /\ Vouched => \A n \in call.outside : answer'[n] = None]_vars
    <2> SUFFICES ASSUME Next, Returns, Vouched, NEW n \in call.outside
                 PROVE  answer'[n] = None
        BY <1>1
    <2>1. n \in Names
        BY <1>1 DEF Inv, TypeOK
    <2>2. CASE call.at = "stamped" /\ call.stamp # None /\ call.stamp = seen /\ answer' = cache
        BY <1>1, <2>1, <2>2 DEF Inv, AnswerInv, Entries
    <2>3. CASE Store
        BY <1>1, <2>1, <2>3 DEF Store, Inv, AnswerInv, Entries
    <2> QED
        BY <1>1, <2>2, <2>3, ReturnSteps DEF Inv
<1> QED
    BY <1>1, Invariance, PTL DEF Spec, RevokedIsOut

-----------------------------------------------------------------------------
(* Enrolment: the converse invariant, that nobody whose key file is intact  *)
(* is missing from what is stored under the stamp of the present file       *)

\* A map gives the people the keys that are in their files, those in left
\* excepted.
Serves(map, people, left) ==
    \A n \in people : n \in left \/ map[n] = keyfile[n]

EnrolInv ==
    /\ intact \subseteq WithKey
    /\ call.settled \subseteq intact
    /\ call.at # "idle" /\ IsCurrent(call.stamp) =>
           intact \cap Authorised \subseteq call.settled
    /\ IsCurrent(seen) => Serves(cache, intact \cap Authorised, {})
    /\ call.at = "stamped" /\ call.stamp # None /\ call.stamp = seen =>
           Serves(cache, call.settled, {})
    /\ call.at = "loading" => Serves(call.fresh, call.settled, call.names)

LEMMA EnrolBegin ==
    ASSUME Inv, EnrolInv, CallBegins
    PROVE  EnrolInv'
<1> USE DEF Inv
<1>1. /\ UNCHANGED <<listed, mtime, keyfile, cache, seen, intact>>
      /\ call'.at = "stamped" /\ call'.stamp = Stamp
      /\ call'.settled = Authorised \cap intact
    BY DEF CallBegins, Idle, files
<1>2. (Authorised)' = Authorised /\ (WithKey)' = WithKey
    BY <1>1 DEF Authorised, WithKey, HasKey
<1>3. Stamp # None /\ Stamp = seen => Serves(cache, Authorised \cap intact, {})
    BY StampType DEF EnrolInv, IsCurrent, Serves
<1> QED
    BY <1>1, <1>2, <1>3 DEF EnrolInv, IsCurrent, Serves

\* Whom a reading misses is neither intact nor settled any more.
LEMMA EnrolRead ==
    ASSUME Inv, EnrolInv, ReadNames
    PROVE  EnrolInv'
<1> USE DEF Inv
<1> PICK names \in NamesNow :
        /\ call' = [call EXCEPT !.at = "loading", !.names = names,
                                !.settled = @ \cap names]
        /\ intact' = intact \ (Authorised \ names)
    BY DEF ReadNames
<1>1. /\ UNCHANGED <<listed, mtime, keyfile, cache, seen>>
      /\ call.at = "stamped"
      /\ call'.at = "loading" /\ call'.stamp = call.stamp /\ call'.names = names
      /\ call'.settled = call.settled \cap names
    BY DEF ReadNames, TypeOK, files
<1>2. (Authorised)' = Authorised /\ (WithKey)' = WithKey
    BY <1>1 DEF Authorised, WithKey, HasKey
<1>3. intact' \subseteq WithKey /\ call'.settled \subseteq intact'
    BY <1>1 DEF EnrolInv
<1>4. IsCurrent(call.stamp) => intact' \cap Authorised \subseteq call'.settled
    BY <1>1 DEF EnrolInv
<1>5. IsCurrent(seen) => Serves(cache, intact' \cap Authorised, {})
    BY DEF EnrolInv, Serves
<1>6. Serves(call.fresh, call.settled, call.names)'
    BY <1>1 DEF Serves
<1> QED
    BY <1>1, <1>2, <1>3, <1>4, <1>5, <1>6 DEF EnrolInv, IsCurrent, Serves

LEMMA EnrolLoad ==
    ASSUME Inv, EnrolInv, NEW n \in Names, LoadKey(n)
    PROVE  EnrolInv'
<1> USE DEF Inv
<1>1. /\ UNCHANGED <<listed, mtime, keyfile, cache, seen, intact>>
      /\ call.at = "loading" /\ call'.at = "loading"
      /\ call'.stamp = call.stamp /\ call'.settled = call.settled
      /\ call'.names = call.names \ {n}
      /\ call'.fresh = [call.fresh EXCEPT ![n] = Loaded(n)]
    BY DEF LoadKey, TypeOK, files
<1>2. (Authorised)' = Authorised /\ (WithKey)' = WithKey
    BY <1>1 DEF Authorised, WithKey, HasKey
<1>3. n \in call.settled => Loaded(n) = keyfile[n]
    BY DEF EnrolInv, Loaded, WithKey
<1>4. Serves(call.fresh, call.settled, call.names)'
    <2> SUFFICES ASSUME NEW m \in call.settled, m \notin call.names \ {n}
                 PROVE  call'.fresh[m] = keyfile[m]
        BY <1>1 DEF Serves
    <2>1. m \in Names /\ call.fresh \in [Names -> Keys \cup {None}]
        BY DEF TypeOK, Maps
    <2>2. CASE m = n
        BY <1>1, <1>3, <2>1, <2>2
    <2>3. CASE m # n
        BY <1>1, <2>1, <2>3 DEF EnrolInv, Serves
    <2> QED
        BY <2>2, <2>3
<1> QED
    BY <1>1, <1>2, <1>4 DEF EnrolInv, IsCurrent, Serves

\* What is stored under a current stamp serves everybody who is intact and
\* authorised: they all were when the call began.
LEMMA EnrolStore ==
    ASSUME Inv, EnrolInv, Store
    PROVE  EnrolInv'
<1> USE DEF Inv
<1>1. /\ UNCHANGED <<listed, mtime, keyfile, intact>>
      /\ call.at = "loading" /\ call.names = {}
      /\ cache' = call.fresh /\ seen' = call.stamp /\ call' = Idle
    BY DEF Store, StampToKeep, files
<1>2. (Authorised)' = Authorised /\ (WithKey)' = WithKey
    BY <1>1 DEF Authorised, WithKey, HasKey
<1>3. IsCurrent(call.stamp) => Serves(call.fresh, intact \cap Authorised, {})
    BY <1>1 DEF EnrolInv, Serves
<1> QED
    BY <1>1, <1>2, <1>3, IdleType DEF EnrolInv, IsCurrent, Serves

LEMMA EnrolEnd ==
    ASSUME Inv, EnrolInv, CacheHit \/ ReadRaises \/ \E n \in Names : LoadRaises(n)
    PROVE  EnrolInv'
<1>1. UNCHANGED <<listed, mtime, keyfile, cache, seen, intact>> /\ call' = Idle
    BY DEF CacheHit, ReadRaises, LoadRaises, Raise, files
<1>2. (Authorised)' = Authorised /\ (WithKey)' = WithKey
    BY <1>1 DEF Authorised, WithKey, HasKey
<1> QED
    BY <1>1, <1>2, IdleType DEF EnrolInv, IsCurrent, Serves

\* A write of the roster file, after which more people may be intact, ages
\* the stamps; nobody joins call.settled.
LEMMA EnrolRosterFile ==
    ASSUME Inv, EnrolInv,
           (\E names \in SUBSET Names : EditRoster(names)) \/ LoseRoster
    PROVE  EnrolInv'
<1> USE DEF Inv
<1>1. PICK names \in SUBSET Names : RosterBecomes(names)
    BY DEF EditRoster, LoseRoster
<1>2. /\ mtime' = mtime + 1 /\ intact' = WithKey /\ UNCHANGED <<keyfile, cache, seen>>
      /\ call'.at = call.at /\ call'.stamp = call.stamp /\ call'.names = call.names
      /\ call'.fresh = call.fresh /\ call'.settled \subseteq call.settled
    BY <1>1 DEF RosterBecomes, TypeOK
<1>3. ~IsCurrent(seen)' /\ ~IsCurrent(call.stamp)'
    BY <1>2, WriteAgesStamps
<1>4. (WithKey)' = WithKey
    BY <1>2 DEF WithKey, HasKey
<1> QED
    BY <1>2, <1>3, <1>4 DEF EnrolInv, Serves

LEMMA EnrolAccess ==
    ASSUME EnrolInv, NEW how \in Accesses, ChangeAccess(how)
    PROVE  EnrolInv'
BY DEF ChangeAccess, EnrolInv, IsCurrent, Serves, Authorised, WithKey, HasKey

\* A write of a key file takes its name out of intact and call.settled.
LEMMA EnrolKeyFile ==
    ASSUME Inv, EnrolInv, NEW n \in Names, NEW content \in Keys \cup NoKeyFile,
           EditKeyFile(n, content)
    PROVE  EnrolInv'
<1> USE DEF Inv
<1>1. /\ UNCHANGED <<listed, mtime, cache, seen>>
      /\ keyfile' = [keyfile EXCEPT ![n] = content] /\ intact' = intact \ {n}
      /\ call'.at = call.at /\ call'.stamp = call.stamp /\ call'.names = call.names
      /\ call'.fresh = call.fresh /\ call'.settled = call.settled \ {n}
    BY DEF EditKeyFile, TypeOK
<1>2. \A m \in Names \ {n} : keyfile'[m] = keyfile[m]
    BY <1>1 DEF TypeOK
<1>3. intact' \subseteq Names \ {n} /\ call'.settled \subseteq Names \ {n}
    BY <1>1 DEF TypeOK
<1>4. (Authorised)' = Authorised
    BY <1>1 DEF Authorised
<1>5. (intact \subseteq WithKey)'
    BY <1>1, <1>2, <1>3 DEF EnrolInv, WithKey, HasKey
<1>6. (IsCurrent(seen) => Serves(cache, intact \cap Authorised, {}))'
    BY <1>1, <1>2, <1>3, <1>4 DEF EnrolInv, IsCurrent, Serves
<1>7. /\ (call.at = "stamped" /\ call.stamp # None /\ call.stamp = seen
            => Serves(cache, call.settled, {}))'
      /\ (call.at = "loading" => Serves(call.fresh, call.settled, call.names))'
    BY <1>1, <1>2, <1>3 DEF EnrolInv, Serves
<1> QED
    BY <1>1, <1>4, <1>5, <1>6, <1>7 DEF EnrolInv, IsCurrent

\* EnrolInv holds at first and is preserved by every step.
LEMMA EnrolInvariance == Spec => []EnrolInv
<1>1. Init => EnrolInv
    BY IdleType DEF Init, EnrolInv, IsCurrent
<1>2. Inv /\ EnrolInv /\ [Next]_vars => EnrolInv'
    <2> SUFFICES ASSUME Inv, EnrolInv, [Next]_vars PROVE EnrolInv'
        OBVIOUS
    <2>1. CASE Next
        BY <2>1, EnrolBegin, EnrolRead, EnrolLoad, EnrolStore, EnrolEnd,
           EnrolRosterFile, EnrolAccess, EnrolKeyFile DEF Next
    <2>2. CASE UNCHANGED vars
        BY <2>2 DEF vars, EnrolInv, IsCurrent, Serves, Authorised, WithKey, HasKey
    <2> QED
        BY <2>1, <2>2
<1> QED
    BY <1>1, <1>2, Invariance, PTL DEF Spec

\* Enrolment takes effect with the next handshake: Roster.current returns,
\* with the key in its file, every name that has been authorised since the
\* call began, whose key file has been as it is since before the roster was
\* last written, and that no reading of the roster has missed since then for
\* want of access to the file.
THEOREM Enrolment == Spec => EnrolledIsIn
<1>1. ASSUME Inv, EnrolInv, [Next]_vars
      PROVE  [Returns /\ Vouched => \A n \in call.settled : answer'[n] = keyfile[n]]_vars
    <2> SUFFICES ASSUME Next, Returns, Vouched, NEW n \in call.settled
                 PROVE  answer'[n] = keyfile[n]
        BY <1>1
    <2>1. CASE call.at = "stamped" /\ call.stamp # None /\ call.stamp = seen /\ answer' = cache
        BY <1>1, <2>1 DEF EnrolInv, Serves
    <2>2. CASE Store
        BY <1>1, <2>2 DEF Store, EnrolInv, Serves
    <2> QED
        BY <1>1, <2>1, <2>2, ReturnSteps DEF Inv
<1> QED
    BY <1>1, Invariance, EnrolInvariance, PTL DEF Spec, EnrolledIsIn
=============================================================================
